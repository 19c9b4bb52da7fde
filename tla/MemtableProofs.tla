-------------------------- MODULE MemtableProofs --------------------------
(***************************************************************************)
(* Proofs about Memtable, for any number of writers, keys, snapshots,      *)
(* rows and crashes: types, the log ahead of the memtable, versions in     *)
(* the order of their snapshots, and the recovery of acknowledged rows.    *)
(***************************************************************************)
EXTENDS Memtable, TLAPS

Node == [id : Ids, snap : Versions]

InLog(r) == \E i \in DOMAIN wal : wal[i] = r

Has(k, id) ==
  /\ keyhash[k] # None
  /\ \E j \in DOMAIN chain[keyhash[k]] : chain[keyhash[k]][j].id = id

HasRow == {"insert", "index", "write", "ensure", "load", "store"}
Logged == {"find", "create"} \cup HasRow
Linked == {"idle", "ensure", "load", "store"}

\* A thread in set has a row to write, and a row object once it needs one.  The
\* replayer works alone, on the entry it was last handed.
ThreadInv ==
  /\ \A p \in Procs : pc[p] # "idle" => Len(todo[p]) >= 1
  /\ \A p \in Procs : pc[p] \in HasRow => obj[p] \in Ids
  /\ snap[Replayer] = INVALID_VERSION
  /\ phase = "recovering" => (frozen = FALSE /\ \A w \in Writers : pc[w] = "idle")
  /\ phase = "up" => pc[Replayer] = "idle"
  /\ pc[Replayer] # "idle" =>
       (Len(todo[Replayer]) = 1 /\ rpos >= 1 /\ todo[Replayer][1] = wal[rpos])

\* Past the append, a row is in the log; so are the rows written and acknowledged.
LogInv ==
  /\ \A p \in Procs : pc[p] \in Logged => InLog(todo[p][1])
  /\ \A p \in Procs : \A r \in done[p] : InLog(r)
  /\ \A r \in acked : InLog(r)
  /\ \A r \in before : InLog(r)

ChainLogged ==
  \A r \in Ids : \A j \in DOMAIN chain[r] : \E i \in DOMAIN wal : wal[i].id = chain[r][j].id

\* The highest version of a row bounds the snapshots in its chain.
RowMaxBound ==
  \A r \in Ids : \A j \in DOMAIN chain[r] :
    chain[r][j].snap # INVALID_VERSION => chain[r][j].snap <= rowMax[r]

\* What replay has handed out is readable; nobody is about to replace the row of a key
\* that was recovered.
RecInv ==
  /\ phase = "recovering" =>
       /\ \A i \in DOMAIN wal : (i < rpos \/ (i = rpos /\ pc[Replayer] \in Linked))
                                  => Has(wal[i].key, wal[i].id)
       /\ pc[Replayer] \in {"create", "insert"} => keyhash[todo[Replayer][1].key] = None
       /\ pc[Replayer] \in {"index", "write"} => keyhash[todo[Replayer][1].key] = obj[Replayer]
  /\ phase = "up" =>
       /\ \A b \in before : Has(b.key, b.id)
       /\ \A w \in Writers : pc[w] = "insert" => \A b \in before : b.key # todo[w][1].key

MemInv ==
  /\ TypeOK
  /\ ThreadInv
  /\ LogInv
  /\ ChainLogged
  /\ ChainOrdered
  /\ RowMaxBound
  /\ RecInv

-----------------------------------------------------------------------------
(* Sequences *)

\* Linking a node in front of a chain.
LEMMA PrependFacts ==
  ASSUME NEW S, NEW s \in Seq(S), NEW x \in S
  PROVE  /\ <<x>> \o s \in Seq(S)
         /\ Len(<<x>> \o s) = Len(s) + 1
         /\ DOMAIN (<<x>> \o s) = 1 .. (Len(s) + 1)
         /\ (<<x>> \o s)[1] = x
         /\ \A i \in 1 .. Len(s) : (<<x>> \o s)[i + 1] = s[i]
  OBVIOUS

\* t is s with x in front: an element is x, or one of s, a place further back.
Prepended(s, t, x) ==
  /\ 1 \in DOMAIN t /\ t[1] = x
  /\ \A j \in DOMAIN t : j = 1 \/ (j \in Nat /\ j - 1 \in DOMAIN s /\ t[j] = s[j - 1])
  /\ \A i \in DOMAIN s : i + 1 \in DOMAIN t /\ t[i + 1] = s[i]

LEMMA PrependIndex ==
  ASSUME NEW S, NEW s \in Seq(S), NEW x \in S, NEW t, t = <<x>> \o s
  PROVE  t \in Seq(S) /\ Prepended(s, t, x)
<1>1. DOMAIN s = 1 .. Len(s) /\ Len(s) \in Nat
  OBVIOUS
<1>2. /\ DOMAIN t = 1 .. (Len(s) + 1) /\ t[1] = x
      /\ \A i \in 1 .. Len(s) : t[i + 1] = s[i]
  BY PrependFacts
<1>3. ASSUME NEW j \in DOMAIN t, j # 1
      PROVE  j \in Nat /\ j - 1 \in DOMAIN s /\ t[j] = s[j - 1]
  <2>1. j \in Nat /\ j - 1 \in 1 .. Len(s) /\ (j - 1) + 1 = j
    BY <1>1, <1>2, <1>3
  <2>2. t[(j - 1) + 1] = s[j - 1]
    BY <1>2, <2>1
  <2>. QED
    BY <1>1, <2>1, <2>2
<1>4. 1 \in DOMAIN t /\ \A i \in DOMAIN s : i + 1 \in DOMAIN t /\ t[i + 1] = s[i]
  BY <1>1, <1>2
<1>5. t \in Seq(S)
  BY PrependFacts
<1>. QED
  BY <1>2, <1>3, <1>4, <1>5 DEF Prepended

\* Appending an entry to the log.
LEMMA AppendFacts ==
  ASSUME NEW S, NEW s \in Seq(S), NEW x \in S
  PROVE  /\ Append(s, x) \in Seq(S)
         /\ Len(Append(s, x)) = Len(s) + 1
         /\ DOMAIN s = 1 .. Len(s)
         /\ DOMAIN Append(s, x) = 1 .. (Len(s) + 1)
         /\ \A i \in 1 .. Len(s) : Append(s, x)[i] = s[i]
         /\ Append(s, x)[Len(s) + 1] = x
  OBVIOUS

\* The first of the rows a thread has left.
LEMMA HeadFacts ==
  ASSUME NEW S, NEW s \in Seq(S), Len(s) >= 1
  PROVE  /\ Head(s) = s[1]
         /\ s[1] \in S
         /\ Tail(s) \in Seq(S)
         /\ Len(Tail(s)) = Len(s) - 1
  OBVIOUS

-----------------------------------------------------------------------------
(* Types *)

LEMMA InitInv == Init => MemInv
<1>. SUFFICES ASSUME Init PROVE MemInv
  OBVIOUS
<1>. USE MemtableConstants
<1>1. TypeOK
  <2>1. wal \in Seq(Rows) /\ rpos \in 0 .. Len(wal)
    BY DEF Init
  <2>2. phase \in {"recovering", "up"} /\ pc \in [Procs -> Labels] /\ frozen \in BOOLEAN
    BY Zenon DEF Init, Labels
  <2>3. maxv \in Versions \cup {0} /\ snap \in [Procs -> Versions]
    BY DEF Init, Versions
  <2>4. keyhash \in [Keys -> Ids \cup {None}] /\ btree \in [Keys -> Ids \cup {None}]
    BY DEF Init
  <2>5. obj \in [Procs -> Ids \cup {None}] /\ zero \in Ids \cup {None} /\ indexed \subseteq Ids
    BY DEF Init
  <2>6. chain \in [Ids -> Seq([id : Ids, snap : Versions])] /\ rowMax \in [Ids -> Snapshots \cup {0}]
    BY DEF Init
  <2>7. todo \in [Procs -> Seq(Rows)] /\ done \in [Procs -> SUBSET Rows]
    BY DEF Init
  <2>8. ops \in 0 .. MaxOps /\ crashes \in 0 .. MaxCrashes
    BY DEF Init
  <2>9. acked \subseteq Rows /\ before \subseteq Rows /\ failed \subseteq Ids
    BY DEF Init
  <2>. QED
    BY <2>1, <2>2, <2>3, <2>4, <2>5, <2>6, <2>7, <2>8, <2>9, Zenon DEF TypeOK
<1>2. ThreadInv
  BY DEF Init, ThreadInv, Procs, HasRow
<1>3. LogInv
  BY DEF Init, LogInv, Logged, HasRow, Procs
<1>4. ChainLogged /\ ChainOrdered /\ RowMaxBound
  BY DEF Init, ChainLogged, ChainOrdered, RowMaxBound
<1>5. RecInv
  <2>1. phase = "recovering" /\ pc[Replayer] = "idle"
    BY DEF Init, Procs
  <2>2. \A i \in DOMAIN wal : FALSE
    BY DEF Init
  <2>. QED
    BY <2>1, <2>2 DEF RecInv
<1>. QED
  BY <1>1, <1>2, <1>3, <1>4, <1>5 DEF MemInv

\* Versions are numbers.
LEMMA VersionsNat ==
  /\ \A v \in Versions : v \in Nat
  /\ \A v \in Snapshots \cup {0} : v \in Nat
<1>1. \A v \in Snapshots : v \in Nat
  BY MemtableConstants
<1>2. INVALID_VERSION \in Nat
  BY MemtableConstants
<1>. QED
  BY <1>1, <1>2 DEF Versions

\* The row a thread is writing.
LEMMA RowFacts ==
  ASSUME TypeOK, ThreadInv, NEW p \in Procs, pc[p] # "idle"
  PROVE  /\ Row(p) = todo[p][1]
         /\ Row(p) \in Rows
         /\ Key(p) \in Keys
         /\ Row(p).id \in Ids
         /\ Tail(todo[p]) \in Seq(Rows)
         /\ Len(Tail(todo[p])) = Len(todo[p]) - 1
<1>1. todo[p] \in Seq(Rows) /\ Len(todo[p]) >= 1
  BY DEF TypeOK, ThreadInv
<1>2. Row(p) = todo[p][1] /\ Row(p) \in Rows
  BY <1>1, HeadFacts DEF Row
<1>3. Key(p) \in Keys /\ Row(p).id \in Ids
  BY <1>2 DEF Rows, Key
<1>. QED
  BY <1>1, <1>2, <1>3, HeadFacts

\* A thread's row fails: what it changes has the right types.
LEMMA FailTypes ==
  ASSUME TypeOK, ThreadInv, NEW p \in Procs, pc[p] # "idle", Fail(p)
  PROVE  /\ pc' \in [Procs -> Labels]
         /\ todo' \in [Procs -> Seq(Rows)]
         /\ failed' \subseteq Ids
         /\ acked' \subseteq Rows
         /\ done' \in [Procs -> SUBSET Rows]
<1>1. pc' \in [Procs -> Labels]
  BY DEF Fail, Goto, TypeOK, Labels
<1>2. todo' \in [Procs -> Seq(Rows)]
  BY DEF Fail, TypeOK
<1>3. acked' \subseteq Rows /\ done' \in [Procs -> SUBSET Rows]
  BY DEF Fail, TypeOK
<1>4. {r.id : r \in done[p]} \subseteq Ids
  BY DEF TypeOK, Rows
<1>5. {todo[p][i].id : i \in DOMAIN todo[p]} \subseteq Ids
  <2>1. todo[p] \in Seq(Rows)
    BY DEF TypeOK
  <2>2. \A i \in DOMAIN todo[p] : todo[p][i] \in Rows
    BY <2>1
  <2>. QED
    BY <2>2 DEF Rows
<1>. QED
  BY <1>1, <1>2, <1>3, <1>4, <1>5 DEF Fail, TypeOK

\* The same for a row that was written.
LEMMA SucceedTypes ==
  ASSUME TypeOK, ThreadInv, NEW p \in Procs, pc[p] # "idle", Succeed(p)
  PROVE  /\ pc' \in [Procs -> Labels]
         /\ todo' \in [Procs -> Seq(Rows)]
         /\ failed' \subseteq Ids
         /\ acked' \subseteq Rows
         /\ done' \in [Procs -> SUBSET Rows]
<1>1. pc' \in [Procs -> Labels]
  BY DEF Succeed, Goto, TypeOK, Labels
<1>2. todo' \in [Procs -> Seq(Rows)]
  BY RowFacts, Zenon DEF Succeed, TypeOK
<1>3. done' \in [Procs -> SUBSET Rows]
  BY RowFacts, Zenon DEF Succeed, TypeOK
<1>. QED
  BY <1>1, <1>2, <1>3 DEF Succeed, TypeOK

LEMMA SetTypes ==
  ASSUME TypeOK, ThreadInv, NEW p \in Procs, Set(p)
  PROVE  TypeOK'
<1>. USE MemtableConstants
<1>1. CASE SetEnter(p)
  <2>1. CASE frozen
    BY <1>1, <2>1, FailTypes, Zenon DEF SetEnter, TypeOK, index, versions
  <2>2. CASE ~frozen
    BY <1>1, <2>2, Zenon DEF SetEnter, Goto, TypeOK, Labels, index, versions, results
  <2>. QED
    BY <2>1, <2>2
<1>2. CASE SetLog(p)
  <2>1. wal' \in Seq(Rows) /\ rpos' \in 0 .. Len(wal')
    <3>0. pc[p] # "idle"
      BY <1>2 DEF SetLog
    <3>1. wal \in Seq(Rows) /\ rpos \in 0 .. Len(wal) /\ Row(p) \in Rows /\ Len(wal) \in Nat
      <4>1. wal \in Seq(Rows) /\ rpos \in 0 .. Len(wal)
        BY DEF TypeOK
      <4>2. Row(p) \in Rows
        BY <3>0, RowFacts
      <4>. QED
        BY <4>1, <4>2
    <3>2. Append(wal, Row(p)) \in Seq(Rows) /\ Len(Append(wal, Row(p))) = Len(wal) + 1
      BY <3>1, AppendFacts
    <3>. QED
      BY <1>2, <3>1, <3>2 DEF SetLog
  <2>2. pc' \in [Procs -> Labels]
    BY <1>2 DEF SetLog, Goto, TypeOK, Labels
  <2>. QED
    BY <1>2, <2>1, <2>2, Zenon DEF SetLog, TypeOK, index, versions, results
<1>3. CASE SetLogFails(p)
  BY <1>3, FailTypes, Zenon DEF SetLogFails, TypeOK, index, versions
<1>4. CASE FindRow(p)
  <2>1. pc' \in [Procs -> Labels] /\ obj' \in [Procs -> Ids \cup {None}]
    BY <1>4, RowFacts, Zenon DEF FindRow, Goto, TypeOK, Labels
  <2>. QED
    BY <1>4, <2>1, Zenon DEF FindRow, TypeOK, index, versions, results
<1>5. CASE CreateRow(p)
  <2>1. pc' \in [Procs -> Labels] /\ obj' \in [Procs -> Ids \cup {None}]
    BY <1>5, RowFacts, Zenon DEF CreateRow, Goto, TypeOK, Labels
  <2>. QED
    BY <1>5, <2>1, Zenon DEF CreateRow, TypeOK, index, versions, results
<1>6. CASE InsertRow(p)
  <2>1. pc' \in [Procs -> Labels] /\ keyhash' \in [Keys -> Ids \cup {None}]
    BY <1>6, RowFacts, Zenon DEF InsertRow, Goto, TypeOK, Labels
  <2>. QED
    BY <1>6, <2>1, Zenon DEF InsertRow, TypeOK, versions, results
<1>7. CASE IndexRow(p)
  <2>1. pc' \in [Procs -> Labels] /\ btree' \in [Keys -> Ids \cup {None}] /\ indexed' \subseteq Ids
    BY <1>7, RowFacts, Zenon DEF IndexRow, Goto, TypeOK, Labels, ThreadInv, HasRow
  <2>. QED
    BY <1>7, <2>1, Zenon DEF IndexRow, TypeOK, versions, results
<1>8. CASE Write(p)
  <2>1. obj[p] \in Ids /\ Row(p).id \in Ids /\ snap[p] \in Versions /\ chain[obj[p]] \in Seq(Node)
    BY <1>8, RowFacts, Zenon DEF Write, ThreadInv, HasRow, TypeOK, Node
  <2>2. [id |-> Row(p).id, snap |-> snap[p]] \in Node
    BY <2>1 DEF Node
  <2>3. chain' \in [Ids -> Seq(Node)]
    BY <1>8, <2>1, <2>2, PrependFacts, Zenon DEF Write, Link, TypeOK, Node
  <2>4. rowMax' \in [Ids -> Snapshots \cup {0}]
    BY <1>8, <2>1 DEF Write, RaiseRowMax, TypeOK, Versions
  <2>5. pc' \in [Procs -> Labels]
    BY <1>8 DEF Write, Goto, TypeOK, Labels
  <2>. QED
    BY <1>8, <2>3, <2>4, <2>5, Zenon DEF Write, TypeOK, Node, index, results
<1>9. CASE WriteRejected(p)
  BY <1>9, FailTypes, Zenon DEF WriteRejected, TypeOK, index, versions
<1>10. CASE EnsureKv(p)
  <2>1. pc' \in [Procs -> Labels] /\ zero' \in Ids \cup {None} /\ indexed' \subseteq Ids
    BY <1>10, RowFacts DEF EnsureKv, Goto, TypeOK, Labels, ThreadInv, HasRow
  <2>. QED
    BY <1>10, <2>1, Zenon DEF EnsureKv, TypeOK, versions, results
<1>11. CASE LoadMax(p)
  <2>1. CASE snap[p] > maxv
    <3>1. pc' \in [Procs -> Labels]
      BY <1>11, <2>1, Zenon DEF LoadMax, Goto, TypeOK, Labels
    <3>. QED
      BY <1>11, <2>1, <3>1, Zenon DEF LoadMax, TypeOK, index, versions, results
  <2>2. CASE ~(snap[p] > maxv)
    BY <1>11, <2>2, SucceedTypes, Zenon DEF LoadMax, TypeOK, index, versions
  <2>. QED
    BY <2>1, <2>2
<1>12. CASE StoreMax(p)
  BY <1>12, SucceedTypes, Zenon DEF StoreMax, TypeOK, index, versions
<1>. QED
  BY <1>1, <1>2, <1>3, <1>4, <1>5, <1>6, <1>7, <1>8, <1>9, <1>10, <1>11, <1>12 DEF Set

LEMMA RestartedTypes ==
  ASSUME TypeOK, Restarted, UNCHANGED <<wal, ops, results>>,
         crashes' \in 0 .. MaxCrashes, before' \subseteq Rows
  PROVE  TypeOK'
<1>1. wal' \in Seq(Rows) /\ rpos' \in 0 .. Len(wal')
  BY DEF Restarted, TypeOK
<1>2. phase' \in {"recovering", "up"} /\ pc' \in [Procs -> Labels] /\ frozen' \in BOOLEAN
  BY Zenon DEF Restarted, Labels
<1>3. maxv' \in Versions \cup {0} /\ snap' \in [Procs -> Versions]
  BY DEF Restarted, Versions
<1>4. keyhash' \in [Keys -> Ids \cup {None}] /\ btree' \in [Keys -> Ids \cup {None}]
  BY DEF Restarted
<1>5. obj' \in [Procs -> Ids \cup {None}] /\ zero' \in Ids \cup {None} /\ indexed' \subseteq Ids
  BY DEF Restarted
<1>6. chain' \in [Ids -> Seq([id : Ids, snap : Versions])] /\ rowMax' \in [Ids -> Snapshots \cup {0}]
  BY DEF Restarted
<1>7. todo' \in [Procs -> Seq(Rows)] /\ done' \in [Procs -> SUBSET Rows]
  BY DEF Restarted
<1>8. ops' \in 0 .. MaxOps /\ acked' \subseteq Rows /\ failed' \subseteq Ids
  BY DEF TypeOK, results
<1>. QED
  BY <1>1, <1>2, <1>3, <1>4, <1>5, <1>6, <1>7, <1>8, Zenon DEF TypeOK

\* The rows of a batch get the next ids.
LEMMA BatchFacts ==
  ASSUME TypeOK, NEW w \in Writers, NEW n \in Batches, NEW ks \in [1 .. n -> Keys], NEW s \in Versions,
         CallBatch(w, ks, s)
  PROVE  /\ todo'[w] \in Seq(Rows)
         /\ Len(todo'[w]) >= 1
         /\ ops' \in 0 .. MaxOps
<1>. DEFINE t == [i \in DOMAIN ks |-> [key |-> ks[i], id |-> ops + i]]
<1>1. n \in Nat /\ n >= 1 /\ ops \in Nat /\ MaxOps \in Nat
  BY MemtableConstants DEF TypeOK
<1>2. ks \in Seq(Keys) /\ Len(ks) = n /\ DOMAIN ks = 1 .. n
  BY <1>1
<1>3. ops + n <= MaxOps /\ ops' = ops + n
  BY <1>2 DEF CallBatch
<1>4. \A i \in 1 .. n : ops + i \in Ids
  BY <1>1, <1>3 DEF Ids
<1>5. \A i \in 1 .. n : t[i] \in Rows
  BY <1>2, <1>4 DEF Rows
<1>6. t \in [1 .. n -> Rows]
  BY <1>2, <1>5
<1>7. t \in Seq(Rows) /\ Len(t) = n
  BY <1>1, <1>6
<1>8. todo'[w] = t
  BY DEF CallBatch, TypeOK, Procs
<1>. QED
  BY <1>1, <1>3, <1>7, <1>8

LEMMA NextTypes ==
  ASSUME TypeOK, ThreadInv, [Next]_vars
  PROVE  TypeOK'
<1>. USE MemtableConstants
<1>1. ASSUME NEW w \in Writers, Call(w) PROVE TypeOK'
  <2>1. PICK n \in Batches, s \in Versions : \E ks \in [1 .. n -> Keys] : CallBatch(w, ks, s)
    BY <1>1 DEF Call
  <2>2. PICK ks \in [1 .. n -> Keys] : CallBatch(w, ks, s)
    BY <2>1
  <2>3. todo'[w] \in Seq(Rows) /\ ops' \in 0 .. MaxOps
    BY <2>2, BatchFacts
  <2>4. todo' \in [Procs -> Seq(Rows)] /\ done' \in [Procs -> SUBSET Rows]
    BY <2>2, <2>3, Zenon DEF CallBatch, TypeOK
  <2>5. snap' \in [Procs -> Versions] /\ pc' \in [Procs -> Labels]
    BY <2>2, Zenon DEF CallBatch, Goto, TypeOK, Labels
  <2>. QED
    BY <2>2, <2>3, <2>4, <2>5, Zenon DEF CallBatch, TypeOK, index, versions, results
<1>2. CASE \E p \in Procs : Set(p)
  BY <1>2, SetTypes
<1>3. CASE ReplayEntry
  <2>1. wal \in Seq(Rows) /\ rpos \in 0 .. Len(wal) /\ rpos < Len(wal) /\ Len(wal) \in Nat
    BY <1>3 DEF ReplayEntry, TypeOK
  <2>2. wal[rpos + 1] \in Rows /\ rpos + 1 \in 0 .. Len(wal)
    BY <2>1
  <2>3. todo' \in [Procs -> Seq(Rows)]
    <3>1. <<wal[rpos + 1]>> \in Seq(Rows)
      BY <2>2
    <3>2. todo \in [Procs -> Seq(Rows)] /\ todo' = [todo EXCEPT ![Replayer] = <<wal[rpos + 1]>>]
      BY <1>3 DEF ReplayEntry, TypeOK
    <3>. QED
      BY <3>1, <3>2, Zenon
  <2>4. pc' \in [Procs -> Labels]
    BY <1>3, Zenon DEF ReplayEntry, Goto, TypeOK, Labels
  <2>. QED
    BY <1>3, <2>2, <2>3, <2>4, Zenon DEF ReplayEntry, TypeOK, index, versions, results
<1>4. CASE ReplayAborts
  BY <1>4, RestartedTypes, Zenon DEF ReplayAborts, TypeOK, results
<1>5. CASE ReplayEnd
  BY <1>5, Zenon DEF ReplayEnd, TypeOK, index, versions, threads, results
<1>6. CASE set_frozen
  BY <1>6, Zenon DEF set_frozen, TypeOK, index, versions, threads, results
<1>7. CASE Crash
  <2>1. crashes' \in 0 .. MaxCrashes
    BY <1>7 DEF Crash, TypeOK
  <2>2. before' \subseteq Rows
    BY <1>7 DEF Crash, TypeOK
  <2>. QED
    BY <1>7, <2>1, <2>2, RestartedTypes DEF Crash
<1>8. CASE UNCHANGED vars
  BY <1>8, Zenon DEF vars, TypeOK, index, versions, threads, results
<1>. QED
  BY <1>1, <1>2, <1>3, <1>4, <1>5, <1>6, <1>7, <1>8 DEF Next, Replay

-----------------------------------------------------------------------------
(* Threads *)

\* What a step of a thread in set may do to the threads and to the log.
Moves(p) ==
  /\ pc[p] # "idle"
  /\ \A q \in Procs : q # p => /\ pc'[q] = pc[q] /\ todo'[q] = todo[q]
                               /\ obj'[q] = obj[q] /\ done'[q] = done[q]
  /\ snap' = snap /\ phase' = phase /\ rpos' = rpos /\ frozen' = frozen /\ before' = before
  /\ pc'[p] \notin {"idle", "enter"} => todo'[p] = todo[p]
  /\ \/ pc'[p] = "idle"
     \/ pc'[p] = "enter" /\ Len(todo[p]) > 1 /\ todo'[p] = Tail(todo[p])
     \/ pc'[p] \notin {"idle", "enter"} /\ todo'[p] = todo[p]
  /\ pc'[p] \in HasRow => obj'[p] \in Ids
  /\ \/ wal' = wal
     \/ p # Replayer /\ pc[p] = "log" /\ wal' = Append(wal, Row(p))

LEMMA FailMoves ==
  ASSUME TypeOK, NEW p \in Procs, Fail(p)
  PROVE  /\ \A q \in Procs : q # p => /\ pc'[q] = pc[q] /\ todo'[q] = todo[q] /\ done'[q] = done[q]
         /\ pc'[p] = "idle"
  BY DEF Fail, Goto, TypeOK

LEMMA SucceedMoves ==
  ASSUME TypeOK, NEW p \in Procs, Succeed(p)
  PROVE  /\ \A q \in Procs : q # p => /\ pc'[q] = pc[q] /\ todo'[q] = todo[q] /\ done'[q] = done[q]
         /\ \/ pc'[p] = "idle"
            \/ pc'[p] = "enter" /\ Len(todo[p]) > 1 /\ todo'[p] = Tail(todo[p])
  BY DEF Succeed, Goto, TypeOK

LEMMA SetMoves ==
  ASSUME TypeOK, ThreadInv, NEW p \in Procs, Set(p)
  PROVE  Moves(p)
<1>1. CASE SetEnter(p)
  <2>1. CASE frozen
    BY <1>1, <2>1, FailMoves DEF SetEnter, Moves, HasRow
  <2>2. CASE ~frozen
    BY <1>1, <2>2 DEF SetEnter, Goto, TypeOK, Moves, HasRow
  <2>. QED
    BY <2>1, <2>2
<1>2. CASE SetLog(p)
  BY <1>2 DEF SetLog, Goto, TypeOK, Moves, HasRow
<1>3. CASE SetLogFails(p)
  BY <1>3, FailMoves, Zenon DEF SetLogFails, Moves, HasRow
<1>4. CASE FindRow(p)
  <2>1. keyhash[Key(p)] \in Ids \cup {None}
    BY <1>4, RowFacts, Zenon DEF FindRow, TypeOK
  <2>. QED
    BY <1>4, <2>1 DEF FindRow, Goto, TypeOK, Moves, HasRow
<1>5. CASE CreateRow(p)
  <2>1. keyhash[Key(p)] \in Ids \cup {None} /\ Row(p).id \in Ids
    BY <1>5, RowFacts, Zenon DEF CreateRow, TypeOK
  <2>. QED
    BY <1>5, <2>1 DEF CreateRow, Goto, TypeOK, Moves, HasRow
<1>6. CASE InsertRow(p)
  BY <1>6, Zenon DEF InsertRow, Goto, TypeOK, Moves, HasRow, ThreadInv
<1>7. CASE IndexRow(p)
  BY <1>7 DEF IndexRow, Goto, TypeOK, Moves, HasRow, ThreadInv
<1>8. CASE Write(p)
  BY <1>8 DEF Write, Goto, TypeOK, Moves, HasRow, ThreadInv
<1>9. CASE WriteRejected(p)
  BY <1>9, FailMoves DEF WriteRejected, Moves, HasRow
<1>10. CASE EnsureKv(p)
  BY <1>10, Zenon DEF EnsureKv, Goto, TypeOK, Moves, HasRow, ThreadInv
<1>11. CASE LoadMax(p)
  <2>1. CASE snap[p] > maxv
    BY <1>11, <2>1 DEF LoadMax, Goto, TypeOK, Moves, HasRow, ThreadInv
  <2>2. CASE ~(snap[p] > maxv)
    BY <1>11, <2>2, SucceedMoves DEF LoadMax, Moves, HasRow
  <2>. QED
    BY <2>1, <2>2
<1>12. CASE StoreMax(p)
  BY <1>12, SucceedMoves DEF StoreMax, Moves, HasRow
<1>. QED
  BY <1>1, <1>2, <1>3, <1>4, <1>5, <1>6, <1>7, <1>8, <1>9, <1>10, <1>11, <1>12 DEF Set

LEMMA SetThreads ==
  ASSUME TypeOK, ThreadInv, NEW p \in Procs, Set(p)
  PROVE  ThreadInv'
<1>1. Moves(p)
  BY SetMoves
<1>2. \A q \in Procs : pc'[q] # "idle" => Len(todo'[q]) >= 1
  <2>1. pc'[p] # "idle" => Len(todo'[p]) >= 1
    <3>1. Len(todo[p]) \in Nat /\ Len(todo[p]) >= 1 /\ Len(Tail(todo[p])) = Len(todo[p]) - 1
      <4>1. todo[p] \in Seq(Rows) /\ Len(todo[p]) >= 1
        BY <1>1, Zenon DEF TypeOK, ThreadInv, Moves
      <4>. QED
        BY <4>1, HeadFacts
    <3>2. Len(todo[p]) > 1 => Len(Tail(todo[p])) >= 1
      BY <3>1
    <3>. QED
      BY <1>1, <3>1, <3>2, Zenon DEF Moves
  <2>. QED
    BY <1>1, <2>1, Zenon DEF Moves, ThreadInv
<1>3. \A q \in Procs : pc'[q] \in HasRow => obj'[q] \in Ids
  BY <1>1, Zenon DEF Moves, ThreadInv
<1>4. (snap[Replayer] = INVALID_VERSION)'
  BY <1>1 DEF Moves, ThreadInv
<1>5. phase' = "recovering" => (frozen' = FALSE /\ \A w \in Writers : pc'[w] = "idle")
  BY <1>1 DEF Moves, ThreadInv, Procs
<1>6. phase' = "up" => pc'[Replayer] = "idle"
  BY <1>1 DEF Moves, ThreadInv, Procs
<1>7. pc'[Replayer] # "idle" =>
        (Len(todo'[Replayer]) = 1 /\ rpos' >= 1 /\ todo'[Replayer][1] = wal'[rpos'])
  <2>. SUFFICES ASSUME pc'[Replayer] # "idle"
                PROVE  Len(todo'[Replayer]) = 1 /\ rpos' >= 1 /\ todo'[Replayer][1] = wal'[rpos']
    OBVIOUS
  <2>1. Replayer \in Procs
    BY DEF Procs
  <2>2. pc[Replayer] # "idle"
    BY <1>1, <2>1 DEF Moves
  <2>3. Len(todo[Replayer]) = 1 /\ rpos >= 1 /\ todo[Replayer][1] = wal[rpos]
    BY <2>2 DEF ThreadInv
  <2>4. p = Replayer
    BY <1>1, <2>2, MemtableConstants, Zenon DEF Moves, ThreadInv, TypeOK, Procs
  <2>5. todo'[Replayer] = todo[Replayer] /\ wal' = wal /\ rpos' = rpos
    <3>1. ~(Len(todo[Replayer]) > 1)
      BY <2>3
    <3>. QED
      BY <1>1, <3>1, <2>4, Zenon DEF Moves
  <2>. QED
    BY <2>3, <2>5
<1>. QED
  BY <1>2, <1>3, <1>4, <1>5, <1>6, <1>7, Zenon DEF ThreadInv

LEMMA RestartedThreads ==
  ASSUME Restarted
  PROVE  ThreadInv'
  BY DEF Restarted, ThreadInv, Procs, HasRow

LEMMA NextThreads ==
  ASSUME TypeOK, ThreadInv, [Next]_vars
  PROVE  ThreadInv'
<1>. USE MemtableConstants
<1>1. ASSUME NEW w \in Writers, Call(w) PROVE ThreadInv'
  <2>1. PICK n \in Batches, s \in Versions : \E ks \in [1 .. n -> Keys] : CallBatch(w, ks, s)
    BY <1>1 DEF Call
  <2>2. PICK ks \in [1 .. n -> Keys] : CallBatch(w, ks, s)
    BY <2>1
  <2>3. Len(todo'[w]) >= 1
    BY <2>2, BatchFacts
  <2>4. /\ phase = "up" /\ phase' = phase /\ w # Replayer /\ w \in Procs /\ Replayer \in Procs
        /\ obj' = obj /\ pc' = [pc EXCEPT ![w] = "enter"] /\ snap' = [snap EXCEPT ![w] = s]
        /\ \A q \in Procs : q # w => todo'[q] = todo[q]
    BY <2>2 DEF CallBatch, Goto, Procs, TypeOK
  <2>5. pc'[Replayer] = "idle" /\ snap'[Replayer] = INVALID_VERSION
    BY <2>4 DEF ThreadInv, TypeOK
  <2>6. \A q \in Procs : pc'[q] # "idle" => Len(todo'[q]) >= 1
    BY <2>3, <2>4 DEF ThreadInv, TypeOK
  <2>7. \A q \in Procs : pc'[q] \in HasRow => obj'[q] \in Ids
    BY <2>4 DEF ThreadInv, TypeOK, HasRow
  <2>. QED
    BY <2>4, <2>5, <2>6, <2>7, Zenon DEF ThreadInv
<1>2. CASE \E p \in Procs : Set(p)
  BY <1>2, SetThreads
<1>3. CASE ReplayEntry
  <2>1. /\ phase = "recovering" /\ phase' = phase /\ wal' = wal /\ Replayer \in Procs
        /\ frozen' = frozen /\ obj' = obj /\ snap' = snap
        /\ pc' = [pc EXCEPT ![Replayer] = "enter"]
        /\ todo' = [todo EXCEPT ![Replayer] = <<wal[rpos + 1]>>]
        /\ rpos' = rpos + 1
    BY <1>3 DEF ReplayEntry, Goto, Procs
  <2>2. todo'[Replayer] = <<wal[rpos + 1]>>
    BY <2>1 DEF TypeOK
  <2>3. Len(todo'[Replayer]) = 1 /\ todo'[Replayer][1] = wal'[rpos']
    BY <2>1, <2>2
  <2>4. rpos' >= 1
    BY <2>1 DEF TypeOK
  <2>5. \A q \in Procs : q # Replayer => pc'[q] = pc[q] /\ todo'[q] = todo[q]
    BY <2>1 DEF TypeOK
  <2>6. \A q \in Procs : pc'[q] # "idle" => Len(todo'[q]) >= 1
    <3>1. \A q \in Procs : pc[q] # "idle" => Len(todo[q]) >= 1
      BY Zenon DEF ThreadInv
    <3>2. Len(todo'[Replayer]) >= 1
      BY <2>3
    <3>. QED
      BY <2>5, <3>1, <3>2, Zenon
  <2>7. \A q \in Procs : pc'[q] \in HasRow => obj'[q] \in Ids
    BY <2>1 DEF ThreadInv, TypeOK, HasRow
  <2>8. \A w \in Writers : pc'[w] = "idle"
    BY <2>1, <2>5 DEF ThreadInv, Procs
  <2>. QED
    BY <2>1, <2>3, <2>4, <2>6, <2>7, <2>8 DEF ThreadInv
<1>4. CASE ReplayAborts
  BY <1>4, RestartedThreads DEF ReplayAborts
<1>5. CASE ReplayEnd
  BY <1>5, Zenon DEF ReplayEnd, ThreadInv, threads
<1>6. CASE set_frozen
  BY <1>6 DEF set_frozen, ThreadInv, threads
<1>7. CASE Crash
  BY <1>7, RestartedThreads DEF Crash
<1>8. CASE UNCHANGED vars
  BY <1>8 DEF vars, ThreadInv, threads
<1>. QED
  BY <1>1, <1>2, <1>3, <1>4, <1>5, <1>6, <1>7, <1>8 DEF Next, Replay

-----------------------------------------------------------------------------
(* The log *)

\* No step takes anything out of the log or moves it.
LogKept == \A i \in DOMAIN wal : i \in DOMAIN wal' /\ wal'[i] = wal[i]

LEMMA MovesKeepsLog ==
  ASSUME TypeOK, ThreadInv, NEW p \in Procs, Moves(p)
  PROVE  LogKept
<1>1. CASE wal' = wal
  BY <1>1 DEF LogKept
<1>2. CASE wal' = Append(wal, Row(p))
  <2>1. wal \in Seq(Rows) /\ Row(p) \in Rows
    BY RowFacts, Zenon DEF Moves, TypeOK
  <2>2. DOMAIN wal = 1 .. Len(wal) /\ DOMAIN Append(wal, Row(p)) = 1 .. (Len(wal) + 1) /\ Len(wal) \in Nat
    BY <2>1, AppendFacts
  <2>3. \A i \in 1 .. Len(wal) : Append(wal, Row(p))[i] = wal[i]
    BY <2>1, AppendFacts
  <2>. QED
    BY <1>2, <2>2, <2>3 DEF LogKept
<1>. QED
  BY <1>1, <1>2 DEF Moves

LEMMA NextKeepsLog ==
  ASSUME TypeOK, ThreadInv, [Next]_vars
  PROVE  LogKept
<1>1. CASE \E p \in Procs : Set(p)
  BY <1>1, SetMoves, MovesKeepsLog
<1>2. CASE ~ \E p \in Procs : Set(p)
  <2>1. wal' = wal
    BY <1>2, Zenon DEF Next, Call, CallBatch, Replay, ReplayEntry, ReplayAborts, ReplayEnd, set_frozen, Crash,
                vars
  <2>. QED
    BY <2>1 DEF LogKept
<1>. QED
  BY <1>1, <1>2

LEMMA InLogKept ==
  ASSUME LogKept, NEW r, InLog(r)
  PROVE  \E i \in DOMAIN wal' : wal'[i] = r
  BY DEF LogKept, InLog

\* What a thread in set does to the rows written and acknowledged.
LEMMA SetResults ==
  ASSUME TypeOK, ThreadInv, NEW p \in Procs, Set(p)
  PROVE  /\ \A r \in done'[p] : r \in done[p] \/ (pc[p] \in Logged /\ r = todo[p][1])
         /\ \A r \in acked' : r \in acked \/ r \in done'[p]
<1>. DEFINE G == /\ \A r \in done'[p] : r \in done[p] \/ (pc[p] \in Logged /\ r = todo[p][1])
                 /\ \A r \in acked' : r \in acked \/ r \in done'[p]
<1>1. ASSUME Fail(p) PROVE G
  BY <1>1 DEF Fail
<1>2. ASSUME Succeed(p), pc[p] \in Logged PROVE G
  <2>1. Row(p) = todo[p][1]
    BY <1>2, RowFacts DEF Logged, HasRow
  <2>2. done' = done \/ done'[p] = done[p] \cup {Row(p)}
    BY <1>2 DEF Succeed, TypeOK
  <2>3. acked' = acked \/ acked' = acked \cup done'[p]
    BY <1>2 DEF Succeed
  <2>. QED
    BY <1>2, <2>1, <2>2, <2>3
<1>3. ASSUME UNCHANGED <<results, done>> PROVE G
  BY <1>3 DEF results
<1>4. CASE SetEnter(p) \/ SetLogFails(p) \/ WriteRejected(p)
  BY <1>1, <1>3, <1>4 DEF SetEnter, SetLogFails, WriteRejected
<1>5. CASE LoadMax(p) \/ StoreMax(p)
  BY <1>2, <1>3, <1>5 DEF LoadMax, StoreMax, Logged, HasRow
<1>6. CASE SetLog(p) \/ FindRow(p) \/ CreateRow(p) \/ InsertRow(p) \/ IndexRow(p) \/ Write(p) \/ EnsureKv(p)
  BY <1>3, <1>6, Zenon DEF SetLog, FindRow, CreateRow, InsertRow, IndexRow, Write, EnsureKv
<1>. QED
  BY <1>4, <1>5, <1>6, Zenon DEF Set

\* A thread gets past the append by appending; only Write links, only InsertRow puts a
\* row into keyhash_.
LEMMA SetChanges ==
  ASSUME TypeOK, NEW p \in Procs, Set(p)
  PROVE  /\ pc'[p] \in Logged => pc[p] \in Logged \/ SetLog(p)
         /\ (chain' = chain /\ rowMax' = rowMax) \/ Write(p)
         /\ keyhash' = keyhash \/ InsertRow(p)
<1>. DEFINE G == /\ pc'[p] \in Logged => pc[p] \in Logged \/ SetLog(p)
                 /\ (chain' = chain /\ rowMax' = rowMax) \/ Write(p)
                 /\ keyhash' = keyhash \/ InsertRow(p)
<1>1. CASE SetEnter(p)
  BY <1>1, Zenon DEF SetEnter, Fail, Goto, TypeOK, Logged, HasRow, index, versions
<1>2. CASE SetLog(p)
  BY <1>2, Zenon DEF SetLog, index, versions
<1>3. CASE SetLogFails(p)
  BY <1>3, Zenon DEF SetLogFails, Fail, Goto, TypeOK, Logged, HasRow, index, versions
<1>4. CASE FindRow(p) \/ CreateRow(p)
  BY <1>4, ZenonT(30) DEF FindRow, CreateRow, Logged, HasRow, index, versions
<1>5. CASE InsertRow(p) \/ IndexRow(p)
  BY <1>5, Zenon DEF InsertRow, IndexRow, Logged, HasRow, index, versions
<1>6. CASE Write(p)
  BY <1>6, Zenon DEF Write, Logged, HasRow, index
<1>7. CASE WriteRejected(p) \/ EnsureKv(p)
  BY <1>7, Zenon DEF WriteRejected, EnsureKv, Logged, HasRow, index, versions
<1>8. CASE LoadMax(p) \/ StoreMax(p)
  BY <1>8, Zenon DEF LoadMax, StoreMax, Logged, HasRow, index, versions
<1>. QED
  BY <1>1, <1>2, <1>3, <1>4, <1>5, <1>6, <1>7, <1>8, Zenon DEF Set

LEMMA SetLogInv ==
  ASSUME TypeOK, ThreadInv, LogInv, NEW p \in Procs, Set(p)
  PROVE  LogInv'
<1>1. Moves(p) /\ LogKept
  BY SetMoves, MovesKeepsLog
<1>2. ASSUME NEW r, InLog(r) PROVE InLog(r)'
  BY <1>1, <1>2, InLogKept DEF InLog
<1>3. ASSUME SetLog(p) PROVE InLog(todo[p][1])'
  <2>0. pc[p] = "log" /\ wal \in Seq(Rows) /\ todo' = todo
    BY <1>3 DEF SetLog, TypeOK
  <2>1. CASE p = Replayer
    <3>1. rpos >= 1 /\ rpos \in 0 .. Len(wal) /\ todo[p][1] = wal[rpos]
      BY <2>0, <2>1, Zenon DEF ThreadInv, TypeOK
    <3>2. rpos \in DOMAIN wal
      BY <2>0, <3>1
    <3>3. InLog(todo[p][1])
      BY <3>1, <3>2 DEF InLog
    <3>. QED
      BY <1>1, <2>0, <3>3, InLogKept DEF InLog
  <2>2. CASE p # Replayer
    <3>1. wal' = Append(wal, todo[p][1]) /\ todo[p][1] \in Rows
      BY <1>3, <2>0, <2>2, RowFacts, Zenon DEF SetLog
    <3>2. Len(wal) + 1 \in DOMAIN wal' /\ wal'[Len(wal) + 1] = todo[p][1]
      BY <2>0, <3>1, AppendFacts
    <3>. QED
      BY <2>0, <3>2 DEF InLog
  <2>. QED
    BY <2>1, <2>2
<1>4. \A q \in Procs : pc'[q] \in Logged => InLog(todo[q][1])'
  <2>. SUFFICES ASSUME NEW q \in Procs, pc'[q] \in Logged PROVE InLog(todo[q][1])'
    OBVIOUS
  <2>1. todo'[q] = todo[q]
    BY <1>1, Zenon DEF Moves, Logged, HasRow
  <2>2. CASE pc[q] \in Logged
    <3>1. InLog(todo[q][1])
      BY <2>2, Zenon DEF LogInv
    <3>. QED
      BY <1>1, <2>1, <3>1, InLogKept, Zenon DEF InLog
  <2>3. CASE pc[q] \notin Logged
    <3>1. q = p
      BY <1>1, <2>3, Zenon DEF Moves
    <3>. QED
      BY <1>3, <2>3, <3>1, SetChanges, Zenon
  <2>. QED
    BY <2>2, <2>3
<1>5. \A r \in done'[p] : InLog(r)'
  <2>. SUFFICES ASSUME NEW r \in done'[p] PROVE InLog(r)'
    OBVIOUS
  <2>1. InLog(r)
    BY SetResults, Zenon DEF LogInv
  <2>. QED
    BY <1>2, <2>1
<1>6. \A q \in Procs : \A r \in done'[q] : InLog(r)'
  <2>. SUFFICES ASSUME NEW q \in Procs, NEW r \in done'[q] PROVE InLog(r)'
    BY Zenon
  <2>1. CASE q = p
    BY <1>5, <2>1, Zenon
  <2>2. CASE q # p
    <3>1. InLog(r)
      BY <1>1, <2>2 DEF Moves, LogInv
    <3>. QED
      BY <1>2, <3>1, Zenon
  <2>. QED
    BY <2>1, <2>2, Zenon
<1>7. \A r \in acked' : InLog(r)'
  <2>. SUFFICES ASSUME NEW r \in acked' PROVE InLog(r)'
    OBVIOUS
  <2>1. CASE r \in acked
    <3>1. InLog(r)
      BY <2>1 DEF LogInv
    <3>. QED
      BY <1>2, <3>1
  <2>2. CASE r \in done'[p]
    BY <1>5, <2>2
  <2>. QED
    BY <2>1, <2>2, SetResults
<1>8. \A r \in before' : InLog(r)'
  <2>. SUFFICES ASSUME NEW r \in before' PROVE InLog(r)'
    OBVIOUS
  <2>1. InLog(r)
    BY <1>1 DEF Moves, LogInv
  <2>. QED
    BY <1>2, <2>1
<1>. QED
  BY <1>4, <1>6, <1>7, <1>8, Zenon DEF LogInv

LEMMA NextLogInv ==
  ASSUME TypeOK, ThreadInv, LogInv, [Next]_vars
  PROVE  LogInv'
<1>1. CASE \E p \in Procs : Set(p)
  BY <1>1, SetLogInv
<1>2. ASSUME NEW w \in Writers, Call(w) PROVE LogInv'
  <2>1. /\ wal' = wal /\ acked' = acked /\ before' = before
        /\ w \in Procs /\ pc'[w] = "enter" /\ done'[w] = {}
        /\ \A q \in Procs : q # w => pc'[q] = pc[q] /\ todo'[q] = todo[q] /\ done'[q] = done[q]
    BY <1>2 DEF Call, CallBatch, Goto, TypeOK, Procs, results
  <2>2. \A r : InLog(r)' <=> InLog(r)
    BY <2>1, Zenon DEF InLog
  <2>3. \A q \in Procs : pc'[q] \in Logged => pc[q] \in Logged /\ todo'[q] = todo[q]
    BY <2>1, Zenon DEF Logged, HasRow
  <2>4. \A q \in Procs : \A r \in done'[q] : r \in done[q]
    BY <2>1, Zenon
  <2>. QED
    BY <2>1, <2>2, <2>3, <2>4, Zenon DEF LogInv
<1>3. CASE ReplayEntry
  <2>1. /\ wal' = wal /\ acked' = acked /\ before' = before /\ done' = done
        /\ Replayer \in Procs /\ pc'[Replayer] = "enter"
        /\ \A q \in Procs : q # Replayer => pc'[q] = pc[q] /\ todo'[q] = todo[q]
    BY <1>3 DEF ReplayEntry, Goto, TypeOK, Procs, results
  <2>2. \A r : InLog(r)' <=> InLog(r)
    BY <2>1, Zenon DEF InLog
  <2>3. \A q \in Procs : pc'[q] \in Logged => pc[q] \in Logged /\ todo'[q] = todo[q]
    BY <2>1, Zenon DEF Logged, HasRow
  <2>. QED
    BY <2>1, <2>2, <2>3, Zenon DEF LogInv
<1>4. CASE ReplayAborts
  BY <1>4, Zenon DEF ReplayAborts, Restarted, LogInv, InLog, Logged, HasRow, results
<1>5. CASE ReplayEnd
  BY <1>5 DEF ReplayEnd, LogInv, InLog, threads, results
<1>6. CASE set_frozen
  BY <1>6 DEF set_frozen, LogInv, InLog, threads, results
<1>7. CASE Crash
  BY <1>7 DEF Crash, Restarted, LogInv, InLog, Logged, HasRow, results
<1>8. CASE UNCHANGED vars
  BY <1>8 DEF vars, LogInv, InLog, threads, results
<1>. QED
  BY <1>1, <1>2, <1>3, <1>4, <1>5, <1>6, <1>7, <1>8 DEF Next, Replay

-----------------------------------------------------------------------------
(* The versions *)

\* The version of a node is a number.
LEMMA ChainVersions ==
  ASSUME NEW c \in Seq(Node), NEW i \in DOMAIN c
  PROVE  c[i].snap \in Nat
<1>1. c[i] \in Node
  OBVIOUS
<1>. QED
  BY <1>1, MemtableConstants, Zenon DEF Node, Versions

\* Write puts the new node in front of one chain and leaves the others alone.
LEMMA WriteFacts ==
  ASSUME TypeOK, ThreadInv, NEW p \in Procs, Write(p)
  PROVE  /\ obj[p] \in Ids /\ chain[obj[p]] \in Seq(Node)
         /\ [id |-> Row(p).id, snap |-> snap[p]] \in Node
         /\ chain'[obj[p]] = <<[id |-> Row(p).id, snap |-> snap[p]]>> \o chain[obj[p]]
         /\ \A r \in Ids : r # obj[p] => chain'[r] = chain[r] /\ rowMax'[r] = rowMax[r]
<1>1. pc[p] = "write" /\ pc[p] # "idle"
  BY Zenon DEF Write
<1>2. obj[p] \in Ids
  BY <1>1 DEF ThreadInv, HasRow
<1>3. chain[obj[p]] \in Seq(Node) /\ snap[p] \in Versions
  BY <1>2, Zenon DEF TypeOK, Node
<1>4. [id |-> Row(p).id, snap |-> snap[p]] \in Node
  BY <1>1, <1>3, RowFacts, Zenon DEF Node
<1>5. chain'[obj[p]] = <<[id |-> Row(p).id, snap |-> snap[p]]>> \o chain[obj[p]]
  BY <1>2 DEF Write, Link, TypeOK
<1>6. \A r \in Ids : r # obj[p] => chain'[r] = chain[r] /\ rowMax'[r] = rowMax[r]
  BY DEF Write, Link, RaiseRowMax, TypeOK
<1>. QED
  BY <1>2, <1>3, <1>4, <1>5, <1>6, Zenon

\* The same, with a name for the row, its chain before (c) and after (d), and the node.
WriteOf(p, o, c, d, n) ==
  /\ o = obj[p] /\ c = chain[o] /\ d = chain'[o]
  /\ n.id = Row(p).id /\ n.snap = snap[p]
  /\ Prepended(c, d, n)
  /\ \A r \in Ids : r # o => chain'[r] = chain[r] /\ rowMax'[r] = rowMax[r]

LEMMA WriteNamed ==
  ASSUME TypeOK, ThreadInv, NEW p \in Procs, Write(p)
  PROVE  \E o \in Ids, c \in Seq(Node), d \in Seq(Node), n \in Node : WriteOf(p, o, c, d, n)
<1>w. /\ obj[p] \in Ids /\ chain[obj[p]] \in Seq(Node)
      /\ [id |-> Row(p).id, snap |-> snap[p]] \in Node
      /\ chain'[obj[p]] = <<[id |-> Row(p).id, snap |-> snap[p]]>> \o chain[obj[p]]
      /\ \A r \in Ids : r # obj[p] => chain'[r] = chain[r] /\ rowMax'[r] = rowMax[r]
  BY WriteFacts, Zenon
<1>1. PICK o \in Ids : o = obj[p]
  BY <1>w, Zenon
<1>2. PICK c \in Seq(Node) : c = chain[o]
  BY <1>w, <1>1, Zenon
<1>3. PICK n \in Node : n = [id |-> Row(p).id, snap |-> snap[p]]
  BY <1>w, Zenon
<1>4. PICK d : d = <<n>> \o c
  BY Zenon
<1>5. d = chain'[o]
  BY <1>w, <1>1, <1>2, <1>3, <1>4, Zenon
<1>6. d \in Seq(Node) /\ Prepended(c, d, n)
  BY <1>4, PrependIndex, Zenon
<1>7. n.id = Row(p).id /\ n.snap = snap[p]
  BY <1>3
<1>8. \A r \in Ids : r # o => chain'[r] = chain[r] /\ rowMax'[r] = rowMax[r]
  BY <1>w, <1>1, Zenon
<1>9. WriteOf(p, o, c, d, n)
  BY <1>1, <1>2, <1>5, <1>6, <1>7, <1>8, Zenon DEF WriteOf
<1>. QED
  BY <1>6, <1>9

LEMMA WriteChainLogged ==
  ASSUME TypeOK, ThreadInv, LogInv, ChainLogged, NEW p \in Procs, Write(p)
  PROVE  ChainLogged'
<1>w. PICK o \in Ids, c \in Seq(Node), d \in Seq(Node), n \in Node : WriteOf(p, o, c, d, n)
  BY WriteNamed
<1>a. o = obj[p] /\ c = chain[o] /\ d = chain'[o] /\ n.id = Row(p).id /\ n.snap = snap[p]
  BY <1>w DEF WriteOf
<1>b. d[1] = n /\ \A j \in DOMAIN d : j = 1 \/ (j \in Nat /\ j - 1 \in DOMAIN c /\ d[j] = c[j - 1])
  BY <1>w DEF WriteOf, Prepended
<1>c. \A r \in Ids : r # o => chain'[r] = chain[r] /\ rowMax'[r] = rowMax[r]
  BY <1>w DEF WriteOf
<1>0. wal' = wal /\ pc[p] = "write" /\ pc[p] \in Logged /\ pc[p] # "idle"
  BY Zenon DEF Write, Logged, HasRow
<1>1. \E i \in DOMAIN wal : wal[i].id = n.id
  <2>1. Row(p) = todo[p][1]
    BY <1>0, RowFacts
  <2>2. PICK i \in DOMAIN wal : wal[i] = Row(p)
    BY <1>0, <2>1, Zenon DEF LogInv, InLog
  <2>. QED
    BY <1>a, <2>2, Zenon
<1>2. \A j \in DOMAIN c : \E i \in DOMAIN wal : wal[i].id = c[j].id
  BY <1>a, Zenon DEF ChainLogged
<1>3. ASSUME NEW j \in DOMAIN d PROVE \E i \in DOMAIN wal : wal[i].id = d[j].id
  <2>1. CASE j = 1
    BY <1>1, <1>b, <2>1, Zenon
  <2>2. CASE j - 1 \in DOMAIN c /\ d[j] = c[j - 1]
    BY <1>2, <2>2, Zenon
  <2>. QED
    BY <1>b, <2>1, <2>2, Zenon
<1>4. ASSUME NEW r \in Ids, NEW j \in DOMAIN chain'[r]
      PROVE  \E i \in DOMAIN wal : wal[i].id = chain'[r][j].id
  <2>1. CASE r = o
    BY <1>3, <1>a, <2>1, Zenon
  <2>2. CASE r # o
    <3>1. chain'[r] = chain[r]
      BY <1>c, <2>2
    <3>. QED
      BY <1>4, <3>1, ZenonT(40) DEF ChainLogged
  <2>. QED
    BY <2>1, <2>2
<1>. QED
  BY <1>0, <1>4, Zenon DEF ChainLogged

LEMMA NoneNotId == None \notin Ids
BY MemtableConstants DEF None, Ids

LEMMA Below ==
  ASSUME NEW i \in Nat, NEW n \in Nat, i < n + 1
  PROVE  i < n \/ i = n
OBVIOUS

LEMMA AtMost ==
  ASSUME NEW x \in Nat, NEW y \in Nat, NEW z \in Nat, x <= y, z >= y
  PROVE  x <= z
OBVIOUS

\* What raising a number to s, unless s is x, returns.
LEMMA Raised ==
  ASSUME NEW old \in Nat, NEW s \in Nat, NEW x, NEW new,
         new = IF s > old /\ s # x THEN s ELSE old
  PROVE  new \in Nat /\ new >= old /\ (s # x => s <= new)
<1>1. CASE s > old /\ s # x
  <2>1. new = s
    BY <1>1, Zenon
  <2>. QED
    BY <1>1, <2>1
<1>2. CASE ~(s > old /\ s # x)
  <2>1. new = old
    BY <1>2, Zenon
  <2>2. ~(s > old) => s <= old
    OBVIOUS
  <2>. QED
    BY <1>2, <2>1, <2>2
<1>. QED
  BY <1>1, <1>2, Zenon

LEMMA WriteRowMax ==
  ASSUME TypeOK, ThreadInv, RowMaxBound, NEW p \in Procs, Write(p)
  PROVE  RowMaxBound'
<1>w. PICK o \in Ids, c \in Seq(Node), d \in Seq(Node), n \in Node : WriteOf(p, o, c, d, n)
  BY WriteNamed
<1>a. o = obj[p] /\ c = chain[o] /\ d = chain'[o] /\ n.id = Row(p).id /\ n.snap = snap[p]
  BY <1>w, Zenon DEF WriteOf
<1>b. d[1] = n /\ \A j \in DOMAIN d : j = 1 \/ (j \in Nat /\ j - 1 \in DOMAIN c /\ d[j] = c[j - 1])
  BY <1>w DEF WriteOf, Prepended
<1>c. \A r \in Ids : r # o => chain'[r] = chain[r] /\ rowMax'[r] = rowMax[r]
  BY <1>w DEF WriteOf
<1>0. snap[p] \in Nat /\ rowMax[o] \in Nat
  <2>1. snap[p] \in Versions /\ rowMax[o] \in Snapshots \cup {0}
    BY DEF TypeOK
  <2>. QED
    BY <2>1, VersionsNat
<1>1. rowMax'[o] = IF snap[p] > rowMax[o] /\ snap[p] # INVALID_VERSION THEN snap[p] ELSE rowMax[o]
  BY <1>a DEF Write, RaiseRowMax, TypeOK
<1>2. PICK old \in Nat, new \in Nat, s \in Nat :
        /\ old = rowMax[o] /\ new = rowMax'[o] /\ s = snap[p]
        /\ new >= old /\ (s # INVALID_VERSION => s <= new)
  <2>1. /\ rowMax'[o] \in Nat /\ rowMax'[o] >= rowMax[o]
        /\ snap[p] # INVALID_VERSION => snap[p] <= rowMax'[o]
    BY <1>0, <1>1, Raised, Zenon
  <2>. QED
    BY <1>0, <2>1, Zenon
<1>3. ASSUME NEW j \in DOMAIN d, d[j].snap # INVALID_VERSION PROVE d[j].snap <= new
  <2>1. CASE j = 1
    <3>1. d[j].snap = s
      BY <1>a, <1>b, <1>2, <2>1, Zenon
    <3>. QED
      BY <1>2, <1>3, <3>1, Zenon
  <2>2. CASE j - 1 \in DOMAIN c /\ d[j] = c[j - 1]
    <3>0. chain[o][j - 1].snap # INVALID_VERSION /\ j - 1 \in DOMAIN chain[o]
      BY <1>a, <1>3, <2>2, Zenon
    <3>1. chain[o][j - 1].snap <= rowMax[o]
      BY <3>0, Zenon DEF RowMaxBound
    <3>2. c[j - 1].snap \in Nat
      BY <2>2, ChainVersions
    <3>3. PICK v \in Nat : v = d[j].snap /\ v <= old
      BY <1>a, <1>2, <2>2, <3>1, <3>2, Zenon
    <3>4. v <= new
      BY <1>2, <3>3, AtMost, Zenon
    <3>. QED
      BY <3>3, <3>4, Zenon
  <2>. QED
    BY <1>b, <2>1, <2>2, Zenon
<1>4. ASSUME NEW r \in Ids, NEW j \in DOMAIN chain'[r], chain'[r][j].snap # INVALID_VERSION
      PROVE  chain'[r][j].snap <= rowMax'[r]
  <2>1. CASE r = o
    BY <1>a, <1>2, <1>3, <1>4, <2>1, Zenon
  <2>2. CASE r # o
    <3>1. chain'[r] = chain[r] /\ rowMax'[r] = rowMax[r]
      BY <1>c, <2>2, Zenon
    <3>. QED
      BY <1>4, <3>1, ZenonT(30) DEF RowMaxBound
  <2>. QED
    BY <2>1, <2>2, Zenon
<1>. QED
  BY <1>4, Zenon DEF RowMaxBound

LEMMA WriteOrdered ==
  ASSUME TypeOK, ThreadInv, RowMaxBound, ChainOrdered, NEW p \in Procs, Write(p)
  PROVE  ChainOrdered'
<1>w. PICK o \in Ids, c \in Seq(Node), d \in Seq(Node), n \in Node : WriteOf(p, o, c, d, n)
  BY WriteNamed
<1>a. o = obj[p] /\ c = chain[o] /\ d = chain'[o] /\ n.id = Row(p).id /\ n.snap = snap[p]
  BY <1>w, Zenon DEF WriteOf
<1>b. d[1] = n /\ \A j \in DOMAIN d : j = 1 \/ (j \in Nat /\ j - 1 \in DOMAIN c /\ d[j] = c[j - 1])
  BY <1>w DEF WriteOf, Prepended
<1>c. \A r \in Ids : r # o => chain'[r] = chain[r] /\ rowMax'[r] = rowMax[r]
  BY <1>w DEF WriteOf
<1>0. snap[p] \in Nat /\ rowMax[o] \in Nat
  <2>1. snap[p] \in Versions /\ rowMax[o] \in Snapshots \cup {0}
    BY DEF TypeOK
  <2>. QED
    BY <2>1, VersionsNat
<1>1. PICK old \in Nat, s \in Nat :
        old = rowMax[o] /\ s = snap[p] /\ (s # INVALID_VERSION => old <= s)
  <2>1. ~(snap[p] # INVALID_VERSION /\ rowMax[o] > snap[p])
    BY <1>a, Zenon DEF Write, is_transaction_set_violation
  <2>. QED
    BY <1>0, <2>1
<1>2. ASSUME NEW i \in DOMAIN d, NEW j \in DOMAIN d,
             i < j, d[i].snap # INVALID_VERSION, d[j].snap # INVALID_VERSION
      PROVE  d[i].snap >= d[j].snap
  <2>1. i \in Nat /\ i >= 1 /\ j \in Nat /\ j # 1 /\ i - 1 < j - 1
    BY <1>2
  <2>2. j - 1 \in DOMAIN c /\ d[j] = c[j - 1]
    BY <1>b, <2>1, Zenon
  <2>3. CASE i = 1
    <3>0. chain[o][j - 1].snap # INVALID_VERSION /\ j - 1 \in DOMAIN chain[o]
      BY <1>a, <1>2, <2>2, Zenon
    <3>1. chain[o][j - 1].snap <= rowMax[o]
      BY <3>0, Zenon DEF RowMaxBound
    <3>2. c[j - 1].snap \in Nat
      BY <2>2, ChainVersions
    <3>3. d[i].snap = s
      BY <1>a, <1>b, <1>1, <2>3, Zenon
    <3>4. PICK v \in Nat : v = d[j].snap /\ v <= old
      BY <1>a, <1>1, <2>2, <3>1, <3>2, Zenon
    <3>5. old <= s
      BY <1>1, <1>2, <3>3, Zenon
    <3>6. s >= v
      BY <3>4, <3>5
    <3>. QED
      BY <3>3, <3>4, <3>6, Zenon
  <2>4. CASE i # 1
    <3>1. i - 1 \in DOMAIN c /\ d[i] = c[i - 1]
      BY <1>b, <2>4, Zenon
    <3>2. /\ i - 1 \in DOMAIN chain[o] /\ j - 1 \in DOMAIN chain[o]
          /\ chain[o][i - 1].snap # INVALID_VERSION /\ chain[o][j - 1].snap # INVALID_VERSION
      BY <1>a, <1>2, <2>2, <3>1, Zenon
    <3>3. chain[o][i - 1].snap >= chain[o][j - 1].snap
      BY <2>1, <3>2, Zenon DEF ChainOrdered
    <3>. QED
      BY <1>a, <2>2, <3>1, <3>3, Zenon
  <2>. QED
    BY <2>3, <2>4, ZenonT(30)
<1>3. ASSUME NEW r \in Ids, NEW i \in DOMAIN chain'[r], NEW j \in DOMAIN chain'[r],
             i < j, chain'[r][i].snap # INVALID_VERSION, chain'[r][j].snap # INVALID_VERSION
      PROVE  chain'[r][i].snap >= chain'[r][j].snap
  <2>1. CASE r = o
    BY <1>2, <1>3, <1>a, <2>1, Zenon
  <2>2. CASE r # o
    <3>1. chain'[r] = chain[r]
      BY <1>c, <2>2
    <3>. QED
      BY <1>3, <3>1, Zenon DEF ChainOrdered
  <2>. QED
    BY <2>1, <2>2
<1>. QED
  BY <1>3, Zenon DEF ChainOrdered

LEMMA NextChains ==
  ASSUME TypeOK, ThreadInv, LogInv, ChainLogged, ChainOrdered, RowMaxBound, [Next]_vars
  PROVE  ChainLogged' /\ ChainOrdered' /\ RowMaxBound'
<1>1. CASE \E p \in Procs : Write(p)
  BY <1>1, WriteChainLogged, WriteOrdered, WriteRowMax
<1>2. CASE chain' = chain /\ rowMax' = rowMax
  <2>1. LogKept
    BY NextKeepsLog
  <2>2. ASSUME NEW r \in Ids, NEW j \in DOMAIN chain'[r]
        PROVE  \E i \in DOMAIN wal' : wal'[i].id = chain'[r][j].id
    <3>1. PICK i \in DOMAIN wal : wal[i].id = chain[r][j].id
      BY <1>2, <2>2 DEF ChainLogged
    <3>2. i \in DOMAIN wal' /\ wal'[i] = wal[i]
      BY <2>1, Zenon DEF LogKept
    <3>. QED
      BY <1>2, <3>1, <3>2
  <2>3. ChainLogged'
    BY <2>2 DEF ChainLogged
  <2>. QED
    BY <1>2, <2>3 DEF ChainOrdered, RowMaxBound
<1>3. CASE Restarted
  <2>1. \A r \in Ids : \A j \in DOMAIN chain'[r] : FALSE
    BY <1>3 DEF Restarted
  <2>. QED
    BY <2>1 DEF ChainLogged, ChainOrdered, RowMaxBound
<1>4. CASE \E p \in Procs : Set(p)
  BY <1>1, <1>2, <1>4, SetChanges, Zenon
<1>5. CASE \E w \in Writers : Call(w)
  BY <1>2, <1>5 DEF Call, CallBatch, versions
<1>6. CASE Replay \/ Crash
  BY <1>2, <1>3, <1>6 DEF Replay, ReplayEntry, ReplayAborts, ReplayEnd, Crash, versions
<1>7. CASE set_frozen \/ UNCHANGED vars
  BY <1>2, <1>7 DEF set_frozen, vars, versions
<1>. QED
  BY <1>4, <1>5, <1>6, <1>7 DEF Next

-----------------------------------------------------------------------------
(* Recovery *)

\* A version that get finds stays there, unless its row is replaced in keyhash_.
LEMMA HasKept ==
  ASSUME TypeOK, ThreadInv, NEW p \in Procs, Set(p), NEW k \in Keys, NEW id, Has(k, id),
         pc[p] = "insert" => Key(p) # k
  PROVE  Has(k, id)'
<1>0. keyhash[k] \in Ids
  BY DEF TypeOK, Has
<1>1. keyhash'[k] = keyhash[k]
  BY SetChanges, Zenon DEF InsertRow, TypeOK
<1>2. CASE chain' = chain
  BY <1>1, <1>2, Zenon DEF Has
<1>3. CASE Write(p)
  <2>0. PICK o \in Ids, c \in Seq(Node), d \in Seq(Node), n \in Node : WriteOf(p, o, c, d, n)
    BY <1>3, WriteNamed
  <2>w. /\ c = chain[o] /\ d = chain'[o]
        /\ \A i \in DOMAIN c : i + 1 \in DOMAIN d /\ d[i + 1] = c[i]
        /\ \A r \in Ids : r # o => chain'[r] = chain[r]
    BY <2>0, Zenon DEF WriteOf, Prepended
  <2>1. PICK j \in DOMAIN chain[keyhash[k]] : chain[keyhash[k]][j].id = id
    BY Zenon DEF Has
  <2>2. CASE keyhash[k] = o
    <3>1. j + 1 \in DOMAIN chain'[o] /\ chain'[o][j + 1].id = id
      BY <2>w, <2>1, <2>2, Zenon
    <3>. QED
      BY <1>1, <2>2, <3>1, Zenon DEF Has
  <2>3. CASE keyhash[k] # o
    BY <1>0, <1>1, <2>w, <2>1, <2>3, Zenon DEF Has
  <2>. QED
    BY <2>2, <2>3, Zenon
<1>. QED
  BY <1>2, <1>3, SetChanges, Zenon

\* The steps of replay on its entry: it never fails, and it links what it was handed.
LEMMA ReplaySteps ==
  ASSUME TypeOK, ThreadInv, phase = "recovering", Set(Replayer)
  PROVE  /\ pc'[Replayer] \in Linked => pc[Replayer] \in Linked \/ Write(Replayer)
         /\ pc'[Replayer] \in {"create", "insert"} =>
              keyhash[Key(Replayer)] = None /\ keyhash' = keyhash
         /\ pc'[Replayer] \in {"index", "write"} =>
              \/ keyhash' = keyhash /\ obj'[Replayer] = keyhash[Key(Replayer)]
              \/ pc[Replayer] = "index" /\ keyhash' = keyhash /\ obj' = obj
              \/ InsertRow(Replayer)
<1>0. Replayer \in Procs /\ frozen = FALSE /\ snap[Replayer] = INVALID_VERSION
  BY Zenon DEF Procs, ThreadInv
<1>1. CASE SetEnter(Replayer)
  BY <1>0, <1>1 DEF SetEnter, Goto, TypeOK, Linked
<1>2. CASE SetLog(Replayer)
  BY <1>0, <1>2 DEF SetLog, Goto, TypeOK, Linked
<1>3. CASE SetLogFails(Replayer)
  BY <1>3, Zenon DEF SetLogFails
<1>4. CASE FindRow(Replayer)
  BY <1>0, <1>4 DEF FindRow, Goto, TypeOK, Linked, index
<1>5. CASE CreateRow(Replayer)
  BY <1>0, <1>5 DEF CreateRow, Goto, TypeOK, Linked, index
<1>6. CASE InsertRow(Replayer)
  BY <1>0, <1>6 DEF InsertRow, Goto, TypeOK, Linked
<1>7. CASE IndexRow(Replayer)
  BY <1>0, <1>7 DEF IndexRow, Goto, TypeOK, Linked
<1>8. CASE Write(Replayer)
  BY <1>0, <1>8 DEF Write, Goto, TypeOK, Linked
<1>9. CASE WriteRejected(Replayer)
  BY <1>0, <1>9, Zenon DEF WriteRejected, is_transaction_set_violation
<1>10. CASE EnsureKv(Replayer)
  BY <1>0, <1>10 DEF EnsureKv, Goto, TypeOK, Linked
<1>11. CASE LoadMax(Replayer)
  BY <1>0, <1>11 DEF LoadMax, Succeed, Goto, TypeOK, Linked
<1>12. CASE StoreMax(Replayer)
  BY <1>0, <1>12 DEF StoreMax, Succeed, Goto, TypeOK, Linked
<1>. QED
  BY <1>1, <1>2, <1>3, <1>4, <1>5, <1>6, <1>7, <1>8, <1>9, <1>10, <1>11, <1>12, Zenon DEF Set

LEMMA ReplayRecovers ==
  ASSUME TypeOK, ThreadInv, RecInv, phase = "recovering", Set(Replayer)
  PROVE  RecInv'
<1>. DEFINE R == Replayer
<1>0. R \in Procs /\ pc[R] # "idle" /\ Moves(R)
  BY SetMoves, Zenon DEF Procs, Moves
<1>1. phase' = "recovering" /\ rpos' = rpos /\ wal' = wal
  BY <1>0, Zenon DEF Moves
<1>2. Row(R) = todo[R][1] /\ Row(R) = wal[rpos] /\ Key(R) \in Keys /\ Len(todo[R]) = 1
  BY <1>0, RowFacts, Zenon DEF ThreadInv
<1>3. rpos \in DOMAIN wal /\ \A i \in DOMAIN wal : wal[i].key \in Keys
  <2>1. wal \in Seq(Rows) /\ rpos \in 0 .. Len(wal) /\ rpos >= 1
    BY <1>0, Zenon DEF TypeOK, ThreadInv
  <2>2. \A i \in DOMAIN wal : wal[i] \in Rows
    BY <2>1
  <2>3. rpos \in DOMAIN wal
    BY <2>1
  <2>4. \A r \in Rows : r.key \in Keys
    BY DEF Rows
  <2>. QED
    BY <2>2, <2>3, <2>4, Zenon
<1>4. ASSUME NEW i \in DOMAIN wal, Has(wal[i].key, wal[i].id) PROVE Has(wal[i].key, wal[i].id)'
  <2>. DEFINE k == wal[i].key
              d == wal[i].id
  <2>1. k \in Keys
    BY <1>3
  <2>2. pc[R] = "insert" => Key(R) # k
    BY <1>2, <1>4, Zenon DEF RecInv, Has, Key
  <2>. HIDE DEF k, d
  <2>3. \A kk \in Keys : \A dd : (Has(kk, dd) /\ (pc[R] = "insert" => Key(R) # kk)) => Has(kk, dd)'
    BY <1>0, HasKept
  <2>4. PICK kk \in Keys : kk = k
    BY <2>1
  <2>5. PICK dd : dd = d
    OBVIOUS
  <2>6. Has(kk, dd)'
    BY <1>4, <2>2, <2>3, <2>4, <2>5 DEF k, d
  <2>. QED
    BY <1>1, <2>4, <2>5, <2>6, ZenonT(30) DEF k, d, Has
<1>5. ASSUME NEW i \in DOMAIN wal, i < rpos \/ (i = rpos /\ pc'[R] \in Linked)
      PROVE  Has(wal[i].key, wal[i].id)'
  <2>1. CASE i < rpos \/ pc[R] \in Linked
    BY <1>4, <1>5, <2>1, ZenonT(30) DEF RecInv
  <2>2. CASE ~(i < rpos) /\ pc[R] \notin Linked
    <3>1. i = rpos /\ Write(R)
      BY <1>5, <2>2, ReplaySteps
    <3>2. keyhash' = keyhash /\ keyhash[Key(R)] = obj[R]
      BY <1>2, <3>1, Zenon DEF Write, index, RecInv, Key
    <3>3. /\ obj[R] \in Ids /\ 1 \in DOMAIN chain'[obj[R]]
          /\ chain'[obj[R]][1].id = Row(R).id
      <4>1. PICK o \in Ids, c \in Seq(Node), d \in Seq(Node), n \in Node : WriteOf(R, o, c, d, n)
        BY <1>0, <3>1, WriteNamed
      <4>. QED
        BY <4>1, Zenon DEF WriteOf, Prepended
    <3>4. 1 \in DOMAIN chain'[obj[R]] /\ chain'[obj[R]][1].id = wal[i].id
      BY <1>2, <3>1, <3>3, Zenon
    <3>5. obj[R] # None
      BY <3>3, NoneNotId, Zenon
    <3>6. wal[i].key = Key(R)
      BY <1>2, <3>1 DEF Key
    <3>. QED
      BY <1>1, <3>2, <3>4, <3>5, <3>6, ZenonT(30) DEF Has
  <2>. QED
    BY <1>5, <2>1, <2>2
<1>6. pc'[R] \in {"create", "insert"} => (keyhash[todo[R][1].key] = None)'
  <2>. SUFFICES ASSUME pc'[R] \in {"create", "insert"} PROVE (keyhash[todo[R][1].key] = None)'
    OBVIOUS
  <2>1. todo'[R] = todo[R]
    BY <1>0, Zenon DEF Moves
  <2>. QED
    BY <1>2, <2>1, ReplaySteps, Zenon DEF Key
<1>7. pc'[R] \in {"index", "write"} => (keyhash[todo[R][1].key] = obj[R])'
  <2>. SUFFICES ASSUME pc'[R] \in {"index", "write"} PROVE (keyhash[todo[R][1].key] = obj[R])'
    OBVIOUS
  <2>1. todo'[R] = todo[R]
    BY <1>0, Zenon DEF Moves
  <2>2. CASE keyhash' = keyhash /\ obj'[R] = keyhash[Key(R)]
    BY <1>2, <2>1, <2>2, Zenon DEF Key
  <2>3. CASE pc[R] = "index" /\ keyhash' = keyhash /\ obj' = obj
    BY <2>1, <2>3, Zenon DEF RecInv
  <2>4. CASE InsertRow(R)
    BY <1>2, <2>1, <2>4, Zenon DEF InsertRow, Key, TypeOK
  <2>. QED
    BY <2>2, <2>3, <2>4, ReplaySteps, Zenon
<1>8. \A i \in DOMAIN wal' : (i < rpos' \/ (i = rpos' /\ pc'[R] \in Linked)) => Has(wal[i].key, wal[i].id)'
  BY <1>1, <1>5
<1>. QED
  BY <1>1, <1>6, <1>7, <1>8, Zenon DEF RecInv

LEMMA WriterRecovers ==
  ASSUME TypeOK, ThreadInv, RecInv, phase = "up", NEW p \in Writers, Set(p)
  PROVE  RecInv'
<1>0. p \in Procs /\ Moves(p) /\ pc[p] # "idle"
  BY SetMoves, Zenon DEF Procs, Moves
<1>1. phase' = "up" /\ before' = before
  BY <1>0, Zenon DEF Moves
<1>2. Row(p) = todo[p][1] /\ Key(p) \in Keys
  BY <1>0, RowFacts, Zenon
<1>3. \A b \in before : Has(b.key, b.id)'
  <2>. SUFFICES ASSUME NEW b \in before PROVE Has(b.key, b.id)'
    OBVIOUS
  <2>1. b.key \in Keys
    BY DEF TypeOK, Rows
  <2>2. pc[p] = "insert" => Key(p) # b.key
    BY <1>2 DEF RecInv, Key
  <2>3. Has(b.key, b.id)
    BY Zenon DEF RecInv
  <2>. QED
    BY <1>0, <2>1, <2>2, <2>3, HasKept
<1>4. ASSUME NEW w \in Writers, pc'[w] = "insert", NEW b \in before PROVE b.key # todo'[w][1].key
  <2>1. todo'[w] = todo[w] /\ w \in Procs
    BY <1>0, <1>4, ZenonT(30) DEF Moves, Procs
  <2>2. CASE pc[w] = "insert"
    BY <2>1, <2>2, Zenon DEF RecInv
  <2>3. CASE pc[w] # "insert"
    <3>1. w = p
      BY <1>0, <1>4, <2>1, <2>3, ZenonT(30) DEF Moves
    <3>2. CreateRow(p) /\ keyhash[Key(p)] = None
      <4>1. SetEnter(p) => pc'[p] # "insert"
        BY <1>0, Zenon DEF SetEnter, Fail, Goto, TypeOK
      <4>2. SetLog(p) \/ SetLogFails(p) \/ FindRow(p) => pc'[p] # "insert"
        BY <1>0, Zenon DEF SetLog, SetLogFails, FindRow, Fail, Goto, TypeOK
      <4>3. InsertRow(p) \/ IndexRow(p) \/ Write(p) \/ WriteRejected(p) \/ EnsureKv(p) => pc'[p] # "insert"
        BY <1>0, Zenon DEF InsertRow, IndexRow, Write, WriteRejected, EnsureKv, Fail, Goto, TypeOK
      <4>4. LoadMax(p) \/ StoreMax(p) => pc'[p] # "insert"
        BY <1>0, Zenon DEF LoadMax, StoreMax, Succeed, Goto, TypeOK
      <4>5. CreateRow(p)
        BY <1>4, <3>1, <4>1, <4>2, <4>3, <4>4 DEF Set
      <4>. QED
        BY <1>0, <1>4, <3>1, <4>5 DEF CreateRow, Goto, TypeOK
    <3>3. keyhash[b.key] # None
      BY Zenon DEF RecInv, Has
    <3>. QED
      BY <1>2, <2>1, <3>1, <3>2, <3>3, Zenon DEF Key
  <2>. QED
    BY <2>2, <2>3, Zenon
<1>. QED
  BY <1>1, <1>3, <1>4, Zenon DEF RecInv

LEMMA NextRecovers ==
  ASSUME TypeOK, ThreadInv, LogInv, RecInv, [Next]_vars
  PROVE  RecInv'
<1>. USE MemtableConstants
<1>1. ASSUME NEW w \in Writers, Call(w) PROVE RecInv'
  <2>1. /\ phase = "up" /\ phase' = "up" /\ before' = before /\ keyhash' = keyhash /\ chain' = chain
        /\ w \in Procs /\ pc'[w] = "enter"
        /\ \A q \in Procs : q # w => pc'[q] = pc[q] /\ todo'[q] = todo[q]
    BY <1>1, Zenon DEF Call, CallBatch, Goto, TypeOK, Procs, index, versions
  <2>2. \A v \in Writers : pc'[v] = "insert" => pc[v] = "insert" /\ todo'[v] = todo[v]
    BY <2>1, Zenon DEF Procs
  <2>3. \A k, id : Has(k, id)' <=> Has(k, id)
    BY <2>1, Zenon DEF Has
  <2>4. /\ \A b \in before : Has(b.key, b.id)
        /\ \A v \in Writers : pc[v] = "insert" => \A b \in before : b.key # todo[v][1].key
    BY <2>1, Zenon DEF RecInv
  <2>5. \A b \in before' : Has(b.key, b.id)'
    BY <2>1, <2>3, <2>4, Zenon
  <2>6. \A v \in Writers : pc'[v] = "insert" => \A b \in before' : b.key # todo'[v][1].key
    BY <2>1, <2>2, <2>4, ZenonT(40)
  <2>. QED
    BY <2>1, <2>5, <2>6, ZenonT(30) DEF RecInv
<1>2. ASSUME NEW p \in Procs, Set(p) PROVE RecInv'
  <2>0. pc[p] # "idle"
    BY <1>2, SetMoves, Zenon DEF Moves
  <2>1. CASE phase = "recovering"
    <3>1. p = Replayer
      BY <2>0, <2>1 DEF ThreadInv, Procs
    <3>. QED
      BY <1>2, <2>1, <3>1, ReplayRecovers
  <2>2. CASE phase = "up"
    <3>1. p \in Writers
      BY <2>0, <2>2 DEF ThreadInv, Procs
    <3>. QED
      BY <1>2, <2>2, <3>1, WriterRecovers
  <2>. QED
    BY <2>1, <2>2 DEF TypeOK
<1>3. CASE ReplayEntry
  <2>1. /\ phase = "recovering" /\ phase' = "recovering" /\ wal' = wal /\ rpos' = rpos + 1
        /\ keyhash' = keyhash /\ chain' = chain /\ pc[Replayer] = "idle" /\ pc'[Replayer] = "enter"
    BY <1>3 DEF ReplayEntry, Goto, TypeOK, Procs, index, versions
  <2>2. ASSUME NEW i \in DOMAIN wal, i < rpos' PROVE Has(wal[i].key, wal[i].id)
    <3>1. rpos \in Nat /\ i \in Nat
      BY DEF TypeOK
    <3>2. i < rpos \/ i = rpos
      BY <2>1, <2>2, <3>1, Below, Zenon
    <3>. QED
      BY <2>1, <3>2, Zenon DEF RecInv, Linked
  <2>3. pc'[Replayer] \notin Linked /\ pc'[Replayer] \notin {"create", "insert", "index", "write"}
    BY <2>1 DEF Linked
  <2>4. \A i \in DOMAIN wal' : (i < rpos' \/ (i = rpos' /\ pc'[Replayer] \in Linked))
                                  => Has(wal[i].key, wal[i].id)'
    BY <2>1, <2>2, <2>3 DEF Has
  <2>. QED
    BY <2>1, <2>3, <2>4, Zenon DEF RecInv
<1>4. CASE Restarted /\ wal' = wal
  <2>1. phase' = "recovering" /\ rpos' = 0 /\ pc'[Replayer] = "idle"
    BY <1>4 DEF Restarted, Procs
  <2>2. \A i \in DOMAIN wal' : ~(i < rpos' \/ i = rpos')
    <3>1. wal' \in Seq(Rows)
      BY <1>4 DEF TypeOK
    <3>2. \A i \in DOMAIN wal' : i \in Nat /\ i >= 1
      BY <3>1
    <3>. QED
      BY <2>1, <3>2
  <2>. QED
    BY <2>1, <2>2, Zenon DEF RecInv
<1>5. CASE ReplayEnd
  <2>1. /\ phase = "recovering" /\ phase' = "up" /\ rpos = Len(wal) /\ pc[Replayer] = "idle"
        /\ before' = before /\ keyhash' = keyhash /\ chain' = chain /\ pc' = pc
    BY <1>5 DEF ReplayEnd, threads, index, versions
  <2>2. \A i \in DOMAIN wal : i < rpos \/ i = rpos
    <3>1. wal \in Seq(Rows)
      BY DEF TypeOK
    <3>. QED
      BY <2>1, <3>1
  <2>3. \A i \in DOMAIN wal : Has(wal[i].key, wal[i].id)
    BY <2>1, <2>2, Zenon DEF RecInv, Linked
  <2>4. \A b \in before : Has(b.key, b.id)
    BY <2>3 DEF LogInv, InLog
  <2>5. \A w \in Writers : pc'[w] # "insert"
    BY <2>1 DEF ThreadInv
  <2>6. \A b \in before' : Has(b.key, b.id)'
    BY <2>1, <2>4, ZenonT(40) DEF Has
  <2>. QED
    BY <2>1, <2>5, <2>6 DEF RecInv
<1>6. CASE set_frozen \/ UNCHANGED vars
  <2>1. /\ phase' = phase /\ wal' = wal /\ rpos' = rpos /\ before' = before
        /\ keyhash' = keyhash /\ chain' = chain /\ pc' = pc /\ todo' = todo /\ obj' = obj
    BY <1>6 DEF set_frozen, vars, threads, index, versions
  <2>2. \A k, id : Has(k, id)' <=> Has(k, id)
    BY <2>1, Zenon DEF Has
  <2>. QED
    BY <2>1, <2>2, Zenon DEF RecInv
<1>7. CASE Crash \/ ReplayAborts
  BY <1>4, <1>7 DEF Crash, ReplayAborts
<1>. QED
  BY <1>1, <1>2, <1>3, <1>5, <1>6, <1>7 DEF Next, Replay

-----------------------------------------------------------------------------
(* Theorems *)

\* MemInv holds in every state of the memtable.
THEOREM MemtableInvariant == Spec => []MemInv
<1>1. MemInv /\ [Next]_vars => MemInv'
  BY NextTypes, NextThreads, NextLogInv, NextChains, NextRecovers DEF MemInv
<1>. QED
  BY InitInv, <1>1, PTL DEF Spec

\* The variables keep their types; no row's highest version is ever "no snapshot".
THEOREM MemtableTypes == Spec => []TypeOK
<1>1. MemInv => TypeOK
  BY DEF MemInv
<1>. QED
  BY <1>1, MemtableInvariant, PTL

\* set writes the log before the memtable: every version is of a logged write.
THEOREM VersionsLogged == Spec => []LoggedFirst
<1>1. MemInv => LoggedFirst
  BY DEF MemInv, ChainLogged, LoggedFirst, Nodes
<1>. QED
  BY <1>1, MemtableInvariant, PTL

\* mvcc_write keeps the versions of a row in the order of their snapshots.
THEOREM VersionsOrdered == Spec => []ChainOrdered
<1>1. MemInv => ChainOrdered
  BY DEF MemInv
<1>. QED
  BY <1>1, MemtableInvariant, PTL

\* After any number of crashes, replay has brought back every row acknowledged before
\* the last one, and writers that race never take it away again.
THEOREM RowsRecovered == Spec => []AckedRecovered
<1>1. MemInv => AckedRecovered
  BY Zenon DEF MemInv, RecInv, AckedRecovered, Readable, Has, Nodes
<1>. QED
  BY <1>1, MemtableInvariant, PTL
=============================================================================
