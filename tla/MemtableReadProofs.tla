------------------------ MODULE MemtableReadProofs ------------------------
(***************************************************************************)
(* What reads of the memtable return when one thread writes, for any keys, *)
(* batches, snapshots, rows and crashes: the scene "one" of MCMemtable.    *)
(***************************************************************************)
EXTENDS MCMemtable, MemtableProofs

\* The two threads that work, one while the log is replayed and one afterwards.
Workers == {w1, Replayer}
Unlinked == Labels \ Linked
Storing == {"ensure", "load", "store"}

\* Ids are given out, logged and written in one order.
IdsInv ==
  /\ \A i \in DOMAIN wal : wal[i].id <= ops
  /\ \A i, j \in DOMAIN wal : i < j => wal[i].id < wal[j].id
  /\ pc[w1] # "idle" =>
       /\ \A i \in DOMAIN todo[w1] : todo[w1][i].id <= ops
       /\ \A i, j \in DOMAIN todo[w1] : i < j => todo[w1][i].id < todo[w1][j].id
       /\ \A i \in DOMAIN wal : wal[i].id <= todo[w1][1].id
       /\ pc[w1] \in {"enter", "log"} => \A i \in DOMAIN wal : wal[i].id < todo[w1][1].id
       /\ \A a \in acked \cup done[w1] : a.id < todo[w1][1].id

\* So a row's versions are in the order of their ids, and the next one comes above them.
ChainInv ==
  /\ \A r \in Ids : \A i, j \in DOMAIN chain[r] : i < j => chain[r][j].id < chain[r][i].id
  /\ \A p \in Workers : pc[p] \in Unlinked =>
       \A r \in Ids : \A j \in DOMAIN chain[r] : chain[r][j].id < todo[p][1].id
  /\ phase = "recovering" =>
       \A r \in Ids : \A j \in DOMAIN chain[r] :
         \E i \in DOMAIN wal : i <= rpos /\ wal[i].id = chain[r][j].id

\* The two indexes agree, but for the row that is just being put into the second one.
IndexInv ==
  /\ zero = None
  /\ \A k \in Keys :
       \/ keyhash[k] = None
       \/ btree[k] = keyhash[k] /\ keyhash[k] \in indexed
       \/ \E p \in Workers : pc[p] = "index" /\ todo[p][1].key = k
  /\ \A p \in Workers :
       /\ pc[p] \in {"create", "insert"} => keyhash[todo[p][1].key] = None
       /\ pc[p] \in {"index", "write"} \cup Storing => keyhash[todo[p][1].key] = obj[p]

\* What was acknowledged, and what will be, is readable.
ReadInv ==
  phase = "up" =>
    /\ \A a \in acked \cup done[w1] : Has(a.key, a.id)
    /\ pc[w1] \in Storing => Has(todo[w1][1].key, todo[w1][1].id)
    /\ pc[w1] = "index" => \A a \in acked \cup done[w1] : a.key # todo[w1][1].key

\* max_trans_version_ covers every version but the one whose writer has yet to store it.
MaxInv ==
  /\ \A r \in Ids : \A j \in DOMAIN chain[r] :
       \/ chain[r][j].snap <= maxv
       \/ \E p \in Workers : /\ pc[p] \in Storing
                            /\ chain[r][j].id = todo[p][1].id /\ chain[r][j].snap = snap[p]
  /\ \A p \in Workers : pc[p] = "store" => snap[p] > maxv

Alone == \A w \in Writers \ {w1} : pc[w] = "idle"

OneInv == Alone /\ IdsInv /\ ChainInv /\ IndexInv /\ ReadInv /\ MaxInv

SceneInv == scene \in {"race", "one"} /\ (scene = "one" => OneInv)

\* While a thread is in set, no other one is.
LEMMA WorksAlone ==
  ASSUME TypeOK, ThreadInv, Alone, NEW p \in Procs, pc[p] # "idle"
  PROVE  /\ (p = w1 /\ p \in Writers /\ phase = "up") \/ (p = Replayer /\ phase = "recovering")
         /\ \A q \in Procs : q = p \/ pc[q] = "idle"
<1>1. ASSUME NEW q \in Procs, pc[q] # "idle"
      PROVE  (q = w1 /\ q \in Writers /\ phase = "up") \/ (q = Replayer /\ phase = "recovering")
  <2>1. q \in Writers \/ q = Replayer
    BY DEF Procs
  <2>2. phase = "recovering" \/ phase = "up"
    BY DEF TypeOK
  <2>. QED
    BY <1>1, <2>1, <2>2 DEF ThreadInv, Alone
<1>. QED
  BY <1>1, MemtableConstants

\* What the steps of set have in common.
LEMMA SetFacts ==
  ASSUME TypeOK, NEW p \in Procs, Set(p)
  PROVE  /\ ops' = ops
         /\ pc'[p] \notin {"idle", "enter"} => done' = done /\ acked' = acked
         /\ pc'[p] = "enter" => acked' = acked /\ wal' = wal /\ pc[p] \in {"load", "store"}
         /\ pc'[p] = "log" => pc[p] = "enter" /\ wal' = wal
         /\ wal' = wal \/ pc'[p] = "find"
         /\ pc'[p] \in Unlinked \ {"enter"} => pc[p] \in Unlinked
         /\ pc'[p] \in Storing => pc[p] \in Storing \/ Write(p)
<1>. DEFINE G == /\ ops' = ops
                 /\ pc'[p] \notin {"idle", "enter"} => done' = done /\ acked' = acked
                 /\ pc'[p] = "enter" => acked' = acked /\ wal' = wal /\ pc[p] \in {"load", "store"}
                 /\ pc'[p] = "log" => pc[p] = "enter" /\ wal' = wal
                 /\ wal' = wal \/ pc'[p] = "find"
                 /\ pc'[p] \in Unlinked \ {"enter"} => pc[p] \in Unlinked
                 /\ pc'[p] \in Storing => pc[p] \in Storing \/ Write(p)
<1>t. pc \in [Procs -> Labels]
  BY DEF TypeOK
<1>. USE <1>t DEF Unlinked, Storing, Linked, Labels
<1>1. ASSUME NEW l, Goto(p, l) PROVE pc'[p] = l
  BY <1>1 DEF Goto
<1>2. CASE SetEnter(p)
  <2>1. CASE frozen
    BY <1>2, <2>1, <1>1, Zenon DEF SetEnter, Fail
  <2>2. CASE ~frozen
    BY <1>2, <2>2, <1>1 DEF SetEnter, results
  <2>. QED
    BY <2>1, <2>2
<1>3. CASE SetLog(p)
  BY <1>3, <1>1 DEF SetLog, results
<1>4. CASE SetLogFails(p) \/ WriteRejected(p)
  BY <1>4, <1>1, Zenon DEF SetLogFails, WriteRejected, Fail
<1>5. CASE FindRow(p)
  BY <1>5, <1>1 DEF FindRow, results
<1>6. CASE CreateRow(p)
  BY <1>6, <1>1, Zenon DEF CreateRow, results
<1>7. CASE InsertRow(p)
  BY <1>7, <1>1, Zenon DEF InsertRow, results
<1>8. CASE IndexRow(p)
  BY <1>8, <1>1, Zenon DEF IndexRow, results
<1>9. CASE Write(p)
  <2>1. pc'[p] = "ensure" /\ UNCHANGED <<wal, ops, done, acked>>
    BY <1>9, <1>1, Zenon DEF Write, results
  <2>. QED
    BY <1>9, <2>1
<1>10. CASE EnsureKv(p)
  BY <1>10, <1>1, Zenon DEF EnsureKv, results
<1>11. CASE LoadMax(p)
  <2>1. CASE snap[p] > maxv
    BY <1>11, <2>1, <1>1, Zenon DEF LoadMax, results
  <2>2. CASE ~(snap[p] > maxv)
    <3>1. pc'[p] = "idle" \/ (pc'[p] = "enter" /\ Len(todo[p]) > 1)
      BY <1>11, <2>2, <1>1 DEF LoadMax, Succeed
    <3>. QED
      BY <1>11, <2>2, <3>1, Zenon DEF LoadMax, Succeed
  <2>. QED
    BY <2>1, <2>2, Zenon
<1>12. CASE StoreMax(p)
  <2>1. pc'[p] = "idle" \/ (pc'[p] = "enter" /\ Len(todo[p]) > 1)
    BY <1>12, <1>1 DEF StoreMax, Succeed
  <2>. QED
    BY <1>12, <2>1, Zenon DEF StoreMax, Succeed
<1>. QED
  BY <1>2, <1>3, <1>4, <1>5, <1>6, <1>7, <1>8, <1>9, <1>10, <1>11, <1>12, Zenon DEF Set

LEMMA NatIds ==
  /\ \A i \in Ids : i \in Nat
  /\ \A r \in Rows : r.id \in Nat /\ r.id \in Ids /\ r.key \in Keys
  /\ \A n \in Node : n.id \in Nat /\ n.snap \in Nat
<1>1. \A i \in Ids : i \in Nat
  BY MemtableConstants DEF Ids
<1>. QED
  BY <1>1, VersionsNat DEF Rows, Node

\* The ids of the log are natural numbers.
LEMMA WalIds ==
  ASSUME TypeOK
  PROVE  /\ wal \in Seq(Rows) /\ DOMAIN wal = 1 .. Len(wal) /\ Len(wal) \in Nat
         /\ \A i \in DOMAIN wal : wal[i] \in Rows /\ wal[i].id \in Nat
<1>1. wal \in Seq(Rows)
  BY DEF TypeOK
<1>2. \A i \in DOMAIN wal : wal[i] \in Rows
  BY <1>1
<1>. QED
  BY <1>1, <1>2, NatIds

LEMMA TodoIds ==
  ASSUME TypeOK, NEW p \in Procs
  PROVE  /\ todo[p] \in Seq(Rows) /\ DOMAIN todo[p] = 1 .. Len(todo[p]) /\ Len(todo[p]) \in Nat
         /\ \A i \in DOMAIN todo[p] : todo[p][i] \in Rows /\ todo[p][i].id \in Nat
<1>1. todo[p] \in Seq(Rows)
  BY DEF TypeOK
<1>2. \A i \in DOMAIN todo[p] : todo[p][i] \in Rows
  BY <1>1
<1>. QED
  BY <1>1, <1>2, NatIds

LEMMA ChainIds ==
  ASSUME TypeOK, NEW r \in Ids
  PROVE  /\ chain[r] \in Seq(Node) /\ DOMAIN chain[r] = 1 .. Len(chain[r]) /\ Len(chain[r]) \in Nat
         /\ \A j \in DOMAIN chain[r] : chain[r][j] \in Node /\ chain[r][j].id \in Nat /\ chain[r][j].snap \in Nat
<1>1. chain[r] \in Seq(Node)
  BY Zenon DEF TypeOK, Node
<1>2. \A j \in DOMAIN chain[r] : chain[r][j] \in Node
  BY <1>1
<1>. QED
  BY <1>1, <1>2, NatIds

\* A step of set keeps the order of the ids.
LEMMA SetIds ==
  ASSUME TypeOK, TypeOK', ThreadInv, Alone, IdsInv, w1 \in Writers, NEW p \in Procs, Set(p)
  PROVE  IdsInv'
<1>0. /\ Moves(p) /\ w1 \in Procs /\ ops' = ops
      /\ (p = w1 /\ phase = "up") \/ (p = Replayer /\ phase = "recovering")
      /\ \A q \in Procs : q = p \/ pc[q] = "idle"
  BY SetMoves, SetFacts, WorksAlone, Zenon DEF Procs, Moves
<1>w. /\ DOMAIN wal = 1 .. Len(wal) /\ Len(wal) \in Nat /\ wal \in Seq(Rows)
      /\ \A i \in DOMAIN wal : wal[i].id \in Nat
  BY WalIds
<1>1. CASE p = Replayer
  <2>1. wal' = wal /\ pc'[w1] = "idle"
    BY <1>0, <1>1, MemtableConstants, Zenon DEF Moves
  <2>. QED
    BY <1>0, <2>1, Zenon DEF IdsInv
<1>2. CASE p = w1 /\ p # Replayer
  <2>0. /\ pc[w1] # "idle" /\ todo[w1] \in Seq(Rows) /\ DOMAIN todo[w1] = 1 .. Len(todo[w1])
        /\ Len(todo[w1]) \in Nat /\ Len(todo[w1]) >= 1 /\ Row(w1) = todo[w1][1] /\ Row(w1) \in Rows
        /\ \A i \in DOMAIN todo[w1] : todo[w1][i].id \in Nat
    BY <1>0, <1>2, TodoIds, RowFacts, Zenon DEF Moves, ThreadInv
  <2>1. CASE pc'[w1] = "idle"
    <3>1. wal' = wal
      BY <1>2, <2>1, SetFacts
    <3>. QED
      BY <1>0, <2>1, <3>1, Zenon DEF IdsInv
  <2>2. CASE pc'[w1] = "enter"
    <3>1. wal' = wal /\ acked' = acked
      BY <1>2, <2>2, SetFacts
    <3>2. Len(todo[w1]) > 1 /\ todo'[w1] = Tail(todo[w1])
      BY <1>0, <1>2, <2>2, Zenon DEF Moves
    <3>3. /\ DOMAIN todo'[w1] = 1 .. (Len(todo[w1]) - 1)
          /\ \A i \in 1 .. (Len(todo[w1]) - 1) : todo'[w1][i] = todo[w1][i + 1] /\ i + 1 \in DOMAIN todo[w1]
      BY <2>0, <3>2
    <3>4. todo'[w1][1] = todo[w1][2] /\ 1 \in DOMAIN todo[w1] /\ 2 \in DOMAIN todo[w1]
      BY <2>0, <3>2, <3>3
    <3>5. PICK a \in Nat, b \in Nat : a = todo[w1][1].id /\ b = todo[w1][2].id /\ a < b
      BY <2>0, <3>4 DEF IdsInv
    <3>6. \A r \in done'[w1] : r \in done[w1] \/ r = todo[w1][1]
      BY <1>2, SetResults, Zenon
    <3>7. \A i \in DOMAIN wal' : wal'[i].id < todo'[w1][1].id
      <4>1. \A i \in DOMAIN wal : wal[i].id <= a /\ wal[i].id \in Nat
        BY <1>w, <2>0, <3>5 DEF IdsInv
      <4>. QED
        BY <3>1, <3>4, <3>5, <4>1
    <3>8. ASSUME NEW r \in acked' \cup done'[w1] PROVE r.id < todo'[w1][1].id
      <4>1. r \in acked \cup done[w1] \/ r = todo[w1][1]
        BY <3>1, <3>6
      <4>2. CASE r = todo[w1][1]
        BY <3>4, <3>5, <4>2
      <4>3. CASE r \in acked \cup done[w1]
        <5>1. r.id < a /\ r \in Rows
          BY <1>0, <2>0, <3>5, <4>3, Zenon DEF IdsInv, TypeOK
        <5>2. r.id \in Nat
          BY <5>1, NatIds, Zenon
        <5>. QED
          BY <3>4, <3>5, <5>1, <5>2
      <4>. QED
        BY <4>1, <4>2, <4>3, Zenon
    <3>9. /\ \A i \in DOMAIN todo'[w1] : todo'[w1][i].id <= ops
          /\ \A i, j \in DOMAIN todo'[w1] : i < j => todo'[w1][i].id < todo'[w1][j].id
      <4>1. ASSUME NEW i \in DOMAIN todo'[w1] PROVE todo'[w1][i].id <= ops
        BY <2>0, <3>3, Zenon DEF IdsInv
      <4>2. ASSUME NEW i \in DOMAIN todo'[w1], NEW j \in DOMAIN todo'[w1], i < j
            PROVE  todo'[w1][i].id < todo'[w1][j].id
        <5>1. i + 1 \in DOMAIN todo[w1] /\ j + 1 \in DOMAIN todo[w1] /\ i + 1 < j + 1
          BY <2>0, <3>3, <4>2
        <5>2. todo'[w1][i] = todo[w1][i + 1] /\ todo'[w1][j] = todo[w1][j + 1]
          BY <3>3
        <5>3. todo[w1][i + 1].id < todo[w1][j + 1].id
          BY <2>0, <5>1, Zenon DEF IdsInv
        <5>. QED
          BY <5>2, <5>3
      <4>. QED
        BY <4>1, <4>2
    <3>10. \A i \in DOMAIN wal' : wal'[i].id <= todo'[w1][1].id
      BY <1>w, <3>1, <3>4, <3>5, <3>7
    <3>. QED
      BY <1>0, <3>1, <3>7, <3>8, <3>9, <3>10, Zenon DEF IdsInv
  <2>3. CASE pc'[w1] \notin {"idle", "enter"} /\ wal' = wal
    <3>1. todo'[w1] = todo[w1] /\ done' = done /\ acked' = acked
      BY <1>0, <1>2, <2>3, SetFacts, Zenon DEF Moves
    <3>2. pc'[w1] = "log" => pc[w1] = "enter"
      BY <1>2, SetFacts, Zenon
    <3>. QED
      BY <1>0, <2>0, <2>3, <3>1, <3>2, Zenon DEF IdsInv
  <2>4. CASE wal' # wal
    <3>1. pc'[w1] = "find" /\ pc[w1] = "log" /\ wal' = Append(wal, todo[w1][1]) /\ todo'[w1] = todo[w1]
      BY <1>0, <1>2, <2>0, <2>4, SetFacts, Zenon DEF Moves
    <3>2. done' = done /\ acked' = acked
      BY <1>2, <3>1, SetFacts, Zenon
    <3>3. /\ DOMAIN wal' = 1 .. (Len(wal) + 1) /\ wal'[Len(wal) + 1] = todo[w1][1]
          /\ \A i \in 1 .. Len(wal) : wal'[i] = wal[i]
      BY <1>w, <2>0, <3>1, AppendFacts
    <3>4. PICK a \in Nat : a = todo[w1][1].id /\ a <= ops /\ 1 \in DOMAIN todo[w1]
      BY <2>0 DEF IdsInv
    <3>5. \A i \in 1 .. Len(wal) : wal[i].id < a /\ wal[i].id <= a /\ wal[i].id \in Nat
      BY <1>w, <2>0, <3>1, <3>4, Zenon DEF IdsInv
    <3>6. /\ \A i \in DOMAIN wal' : wal'[i].id <= ops /\ wal'[i].id <= a
          /\ \A i, j \in DOMAIN wal' : i < j => wal'[i].id < wal'[j].id
      <4>1. \A i, j \in 1 .. Len(wal) : i < j => wal[i].id < wal[j].id
        BY <1>w DEF IdsInv
      <4>2. \A i \in 1 .. Len(wal) : wal[i].id <= ops
        BY <1>w DEF IdsInv
      <4>3. \A i \in DOMAIN wal' : wal'[i].id <= ops /\ wal'[i].id <= a
        BY <1>w, <3>3, <3>4, <3>5, <4>2
      <4>4. \A i, j \in DOMAIN wal' : i < j => wal'[i].id < wal'[j].id
        BY <1>w, <3>3, <3>4, <3>5, <4>1
      <4>. QED
        BY <4>3, <4>4
    <3>. QED
      BY <1>0, <2>0, <3>1, <3>2, <3>4, <3>6, Zenon DEF IdsInv
  <2>. QED
    BY <2>1, <2>2, <2>3, <2>4
<1>. QED
  BY <1>0, <1>1, <1>2

\* What a thread is about to link comes above all versions.
LEMMA SetChainsOne ==
  ASSUME TypeOK, TypeOK', ThreadInv, Alone, IdsInv, ChainLogged, ChainInv, w1 \in Writers,
         NEW p \in Procs, Set(p)
  PROVE  ChainInv'
<1>0. /\ Moves(p) /\ w1 \in Procs /\ Replayer \in Procs /\ p \in Workers
      /\ (p = w1 /\ phase = "up") \/ (p = Replayer /\ phase = "recovering")
      /\ \A q \in Procs : q = p \/ pc[q] = "idle"
  BY SetMoves, WorksAlone, Zenon DEF Procs, Moves, Workers
<1>p. \A q \in Workers : q = p \/ pc'[q] = "idle"
  BY <1>0, Zenon DEF Moves, Workers
<1>r. phase' = phase /\ rpos' = rpos /\ (phase = "recovering" => wal' = wal)
  BY <1>0, MemtableConstants DEF Moves
<1>1. CASE chain' = chain
  <2>1. ASSUME pc'[p] \in Unlinked, NEW r \in Ids, NEW j \in DOMAIN chain[r]
        PROVE  chain[r][j].id < todo'[p][1].id
    <3>1. CASE pc'[p] # "enter"
      <4>1. pc[p] \in Unlinked
        BY <2>1, <3>1, SetFacts, Zenon
      <4>2. todo'[p] = todo[p]
        BY <1>0, <2>1, <3>1, Zenon DEF Moves, Unlinked, Linked
      <4>. QED
        BY <1>0, <4>1, <4>2, Zenon DEF ChainInv
    <3>2. CASE pc'[p] = "enter"
      <4>1. Len(todo[p]) > 1 /\ todo'[p] = Tail(todo[p])
        BY <1>0, <3>2 DEF Moves
      <4>2. p = w1 /\ pc[w1] # "idle"
        <5>1. pc[p] # "idle"
          BY <1>0 DEF Moves
        <5>2. p # Replayer
          <6>. SUFFICES ASSUME p = Replayer PROVE FALSE
            OBVIOUS
          <6>1. Len(todo[p]) = 1
            BY <5>1, Zenon DEF ThreadInv
          <6>. QED
            BY <4>1, <6>1
        <5>. QED
          BY <1>0, <5>1, <5>2
      <4>3. /\ todo[w1] \in Seq(Rows) /\ DOMAIN todo[w1] = 1 .. Len(todo[w1]) /\ Len(todo[w1]) \in Nat
            /\ \A i \in DOMAIN todo[w1] : todo[w1][i].id \in Nat
        BY <1>0, TodoIds
      <4>4. todo'[p][1] = todo[w1][2] /\ 1 \in DOMAIN todo[w1] /\ 2 \in DOMAIN todo[w1]
        BY <4>1, <4>2, <4>3
      <4>5. PICK a \in Nat, b \in Nat : a = todo[w1][1].id /\ b = todo[w1][2].id /\ a < b
        BY <4>2, <4>3, <4>4 DEF IdsInv
      <4>6. PICK i \in DOMAIN wal : wal[i].id = chain[r][j].id
        BY DEF ChainLogged
      <4>7. wal[i].id <= a /\ wal[i].id \in Nat
        BY <4>2, <4>5, WalIds, Zenon DEF IdsInv
      <4>. QED
        BY <4>4, <4>5, <4>6, <4>7
    <3>. QED
      BY <3>1, <3>2, Zenon
  <2>2. \A q \in Workers : pc'[q] \in Unlinked =>
          \A r \in Ids : \A j \in DOMAIN chain'[r] : chain'[r][j].id < todo'[q][1].id
    <3>1. "idle" \notin Unlinked
      BY DEF Unlinked, Linked
    <3>. QED
      BY <1>1, <1>p, <2>1, <3>1, Zenon
  <2>3. phase' = "recovering" =>
          \A r \in Ids : \A j \in DOMAIN chain'[r] :
            \E i \in DOMAIN wal' : i <= rpos' /\ wal'[i].id = chain'[r][j].id
    BY <1>1, <1>r DEF ChainInv
  <2>. QED
    BY <1>1, <2>2, <2>3, Zenon DEF ChainInv
<1>2. CASE Write(p)
  <2>0. PICK o \in Ids, c \in Seq(Node), d \in Seq(Node), n \in Node : WriteOf(p, o, c, d, n)
    BY <1>2, WriteNamed
  <2>w. /\ c = chain[o] /\ d = chain'[o] /\ n.id = Row(p).id
        /\ Prepended(c, d, n)
        /\ \A r \in Ids : r # o => chain'[r] = chain[r]
    BY <2>0, Zenon DEF WriteOf
  <2>1. pc[p] = "write" /\ pc'[p] = "ensure" /\ Row(p) = todo[p][1] /\ todo[p][1].id \in Nat /\ wal' = wal
    BY <1>2, RowFacts, NatIds, Zenon DEF Write, Goto, TypeOK
  <2>2. pc[p] \in Unlinked
    BY <2>1, Zenon DEF Unlinked, Linked, Labels
  <2>3. \A j \in DOMAIN c : c[j].id < n.id /\ c[j].id \in Nat
    BY <1>0, <2>w, <2>1, <2>2, ChainIds, Zenon DEF ChainInv
  <2>4. \A i, j \in DOMAIN d : i < j => d[j].id < d[i].id
    <3>1. DOMAIN c = 1 .. Len(c) /\ Len(c) \in Nat
      OBVIOUS
    <3>2. \A i, j \in DOMAIN c : i < j => c[j].id < c[i].id
      BY <2>w, Zenon DEF ChainInv
    <3>3. ASSUME NEW i \in DOMAIN d, NEW j \in DOMAIN d, i < j PROVE d[j].id < d[i].id
      <4>0. /\ j \in Nat /\ j # 1 /\ j - 1 \in DOMAIN c /\ d[j] = c[j - 1]
            /\ (i = 1 /\ d[i] = n) \/ (i - 1 \in DOMAIN c /\ d[i] = c[i - 1])
        <5>1. \A x \in DOMAIN d : x \in Nat /\ x >= 1
          OBVIOUS
        <5>2. j # 1
          BY <3>3, <5>1
        <5>. QED
          BY <2>w, <5>1, <5>2, Zenon DEF Prepended
      <4>1. CASE i = 1 /\ d[i] = n
        BY <2>3, <4>0, <4>1, Zenon
      <4>2. CASE i - 1 \in DOMAIN c /\ d[i] = c[i - 1]
        <5>1. i - 1 < j - 1
          BY <3>1, <3>3, <4>0, <4>2
        <5>2. c[j - 1].id < c[i - 1].id
          BY <3>2, <4>0, <4>2, <5>1
        <5>. QED
          BY <4>0, <4>2, <5>2
      <4>. QED
        BY <4>0, <4>1, <4>2
    <3>. QED
      BY <3>3
  <2>5. \A r \in Ids : \A i, j \in DOMAIN chain'[r] : i < j => chain'[r][j].id < chain'[r][i].id
    BY <2>w, <2>4, Zenon DEF ChainInv
  <2>6. \A q \in Workers : pc'[q] \notin Unlinked
    BY <1>p, <2>1, Zenon DEF Unlinked, Linked
  <2>7. ASSUME phase = "recovering", NEW r \in Ids, NEW j \in DOMAIN chain'[r]
        PROVE  \E i \in DOMAIN wal : i <= rpos /\ wal[i].id = chain'[r][j].id
    <3>1. CASE r # o
      BY <2>7, <2>w, <3>1, Zenon DEF ChainInv
    <3>2. CASE r = o
      <4>1. p = Replayer /\ rpos \in DOMAIN wal /\ wal[rpos].id = n.id /\ rpos \in Nat
        <5>1. p = Replayer /\ rpos >= 1 /\ todo[p][1] = wal[rpos]
          BY <1>0, <2>1, <2>7, Zenon DEF ThreadInv
        <5>2. rpos \in 0 .. Len(wal)
          BY DEF TypeOK
        <5>. QED
          BY <2>w, <2>1, <5>1, <5>2, WalIds
      <4>2. j \in DOMAIN d
        BY <2>w, <3>2, Zenon
      <4>3. CASE d[j] = n
        BY <2>w, <3>2, <4>1, <4>3
      <4>4. CASE j - 1 \in DOMAIN c /\ d[j] = c[j - 1]
        <5>1. PICK i \in DOMAIN wal : i <= rpos /\ wal[i].id = c[j - 1].id
          BY <2>w, <2>7, <4>4, Zenon DEF ChainInv
        <5>. QED
          BY <2>w, <3>2, <4>4, <5>1, Zenon
      <4>. QED
        BY <2>w, <4>2, <4>3, <4>4, Zenon DEF Prepended
    <3>. QED
      BY <3>1, <3>2, Zenon
  <2>. QED
    BY <1>r, <2>5, <2>6, <2>7 DEF ChainInv
<1>. QED
  BY <1>1, <1>2, SetChanges, Zenon

\* The indexes change in the steps that look a row up, make it and index it; ensure_kv
\* finds the row indexed.
LEMMA SetIndexOne ==
  ASSUME TypeOK, TypeOK', ThreadInv, Alone, IndexInv, w1 \in Writers, NEW p \in Procs, Set(p)
  PROVE  IndexInv'
<1>0. /\ Moves(p) /\ p \in Workers
      /\ \A q \in Workers : q = p \/ (pc[q] = "idle" /\ pc'[q] = "idle")
  BY SetMoves, WorksAlone, Zenon DEF Procs, Moves, Workers
<1>r. /\ pc[p] # "idle" /\ Row(p) = todo[p][1] /\ Key(p) \in Keys /\ Row(p).id \in Ids
      /\ Key(p) = todo[p][1].key
  BY <1>0, RowFacts, Zenon DEF Moves, Key
<1>k. \A k \in Keys : (keyhash[k] = None \/ (btree[k] = keyhash[k] /\ keyhash[k] \in indexed)
                           \/ (pc[p] = "index" /\ Key(p) = k))
  <2>1. \A k \in Keys : (keyhash[k] = None \/ (btree[k] = keyhash[k] /\ keyhash[k] \in indexed)
                             \/ (\E q \in Workers : pc[q] = "index" /\ todo[q][1].key = k))
    BY Zenon DEF IndexInv
  <2>2. \A q \in Workers : pc[q] = "index" => q = p
    BY <1>0, Zenon
  <2>3. Key(p) = todo[p][1].key
    BY <1>r, Zenon
  <2>. QED
    BY <2>1, <2>2, <2>3, Zenon
<1>. DEFINE K == \A k \in Keys : (keyhash'[k] = None
                                  \/ (btree'[k] = keyhash'[k] /\ keyhash'[k] \in indexed')
                                  \/ (pc'[p] = "index" /\ todo'[p][1].key = k))
            M == pc'[p] \in {"create", "insert"} => keyhash'[todo'[p][1].key] = None
            O == pc'[p] \in {"index", "write"} \cup Storing => keyhash'[todo'[p][1].key] = obj'[p]
<1>g. SUFFICES zero' = None /\ K /\ M /\ O
  <2>1. ASSUME zero' = None, K, M, O PROVE IndexInv'
    <3>1. ASSUME NEW q \in Workers
          PROVE  /\ pc'[q] \in {"create", "insert"} => keyhash'[todo'[q][1].key] = None
                 /\ pc'[q] \in {"index", "write"} \cup Storing => keyhash'[todo'[q][1].key] = obj'[q]
      <4>1. CASE q = p
        BY <2>1, <4>1, Zenon
      <4>2. CASE pc'[q] = "idle"
        BY <4>2 DEF Storing
      <4>. QED
        BY <1>0, <4>1, <4>2, Zenon
    <3>2. \A k \in Keys : (keyhash'[k] = None
                            \/ (btree'[k] = keyhash'[k] /\ keyhash'[k] \in indexed')
                            \/ (\E q \in Workers : pc'[q] = "index" /\ todo'[q][1].key = k))
      BY <1>0, <2>1, Zenon
    <3>. QED
      BY <2>1, <3>1, <3>2, Zenon DEF IndexInv
  <2>. QED
    BY <2>1, Zenon
<1>z. zero = None
  BY Zenon DEF IndexInv
<1>t. pc \in [Procs -> Labels] /\ obj \in [Procs -> Ids \cup {None}]
  BY DEF TypeOK
<1>1. ASSUME UNCHANGED index, pc[p] # "index", pc'[p] \in {"idle", "enter", "log", "find"}
      PROVE  zero' = None /\ K /\ M /\ O
  <2>1. UNCHANGED <<keyhash, btree, zero, indexed>>
    BY <1>1 DEF index
  <2>2. K
    BY <1>1, <1>k, <2>1, Zenon
  <2>3. M /\ O
    BY <1>1, Zenon DEF Storing
  <2>. QED
    BY <1>z, <2>1, <2>2, <2>3, Zenon
<1>2. ASSUME NEW l, Goto(p, l) PROVE pc'[p] = l
  BY <1>2, <1>t DEF Goto
<1>3. CASE SetEnter(p)
  <2>1. UNCHANGED index /\ pc[p] = "enter" /\ pc'[p] \in {"idle", "log"}
    BY <1>3, <1>2, Zenon DEF SetEnter, Fail
  <2>. QED
    BY <1>1, <2>1
<1>4. CASE SetLog(p) \/ SetLogFails(p) \/ WriteRejected(p)
  <2>1. UNCHANGED index /\ pc[p] \in {"log", "write"} /\ pc'[p] \in {"idle", "find"}
    BY <1>4, <1>2, Zenon DEF SetLog, SetLogFails, WriteRejected, Fail
  <2>. QED
    BY <1>1, <2>1
<1>5. CASE FindRow(p) \/ CreateRow(p)
  <2>1. UNCHANGED <<keyhash, btree, zero, indexed, todo>> /\ pc[p] \in {"find", "create"}
    BY <1>5 DEF FindRow, CreateRow, index
  <2>2. \/ keyhash[Key(p)] # None /\ pc'[p] = "write" /\ obj'[p] = keyhash[Key(p)]
        \/ keyhash[Key(p)] = None /\ pc'[p] \in {"create", "insert"}
    BY <1>5, <1>2, <1>t DEF FindRow, CreateRow
  <2>3. K
    BY <1>k, <2>1
  <2>4. M /\ O
    BY <1>r, <2>1, <2>2 DEF Storing
  <2>. QED
    BY <1>z, <2>1, <2>3, <2>4
<1>6. CASE InsertRow(p)
  <2>1. /\ UNCHANGED <<btree, zero, indexed, todo, obj>> /\ pc[p] = "insert" /\ pc'[p] = "index"
        /\ keyhash' = [keyhash EXCEPT ![Key(p)] = obj[p]] /\ keyhash \in [Keys -> Ids \cup {None}]
    BY <1>6, <1>2 DEF InsertRow, TypeOK
  <2>2. keyhash'[Key(p)] = obj[p] /\ \A k \in Keys : k = Key(p) \/ keyhash'[k] = keyhash[k]
    BY <1>r, <2>1, Zenon
  <2>3. K
    BY <1>k, <1>r, <2>1, <2>2
  <2>4. M /\ O
    BY <1>r, <2>1, <2>2
  <2>. QED
    BY <1>z, <2>1, <2>3, <2>4
<1>7. CASE IndexRow(p)
  <2>1. /\ UNCHANGED <<keyhash, zero, todo, obj>> /\ pc[p] = "index" /\ pc'[p] = "write"
        /\ btree' = [btree EXCEPT ![Key(p)] = obj[p]] /\ btree \in [Keys -> Ids \cup {None}]
        /\ indexed' = indexed \cup {obj[p]}
    BY <1>7, <1>2 DEF IndexRow, TypeOK
  <2>2. btree'[Key(p)] = obj[p] /\ \A k \in Keys : k = Key(p) \/ btree'[k] = btree[k]
    BY <1>r, <2>1, Zenon
  <2>3. keyhash[Key(p)] = obj[p]
    BY <1>0, <1>r, <2>1 DEF IndexInv
  <2>4. K
    BY <1>k, <2>1, <2>2, <2>3
  <2>5. M /\ O
    BY <1>r, <2>1, <2>3
  <2>. QED
    BY <1>z, <2>1, <2>4, <2>5
<1>8. CASE Write(p)
  <2>1. UNCHANGED <<keyhash, btree, zero, indexed, todo, obj>> /\ pc[p] = "write" /\ pc'[p] = "ensure"
    BY <1>8, <1>2 DEF Write, index
  <2>2. keyhash[Key(p)] = obj[p]
    BY <1>0, <1>r, <2>1 DEF IndexInv
  <2>. QED
    BY <1>k, <1>r, <1>z, <2>1, <2>2
<1>9. CASE EnsureKv(p)
  <2>1. /\ UNCHANGED <<keyhash, btree, todo, obj>> /\ pc[p] = "ensure" /\ pc'[p] = "load"
        /\ zero' = IF obj[p] \in indexed THEN zero ELSE obj[p]
        /\ indexed' = indexed \cup {obj[p]}
    BY <1>9, <1>2 DEF EnsureKv
  <2>2. keyhash[Key(p)] = obj[p] /\ obj[p] \in Ids
    BY <1>0, <1>r, <2>1 DEF IndexInv, Storing, ThreadInv, HasRow
  <2>3. obj[p] \in indexed
    BY <1>k, <1>r, <2>1, <2>2, NoneNotId
  <2>. QED
    BY <1>k, <1>r, <1>z, <2>1, <2>2, <2>3
<1>10. CASE LoadMax(p)
  <2>1. CASE snap[p] > maxv
    <3>1. UNCHANGED <<keyhash, btree, zero, indexed, todo, obj>> /\ pc[p] = "load" /\ pc'[p] = "store"
      BY <1>10, <2>1, <1>2 DEF LoadMax, index
    <3>2. keyhash[Key(p)] = obj[p]
      BY <1>0, <1>r, <3>1 DEF IndexInv, Storing
    <3>. QED
      BY <1>k, <1>r, <1>z, <3>1, <3>2
  <2>2. CASE ~(snap[p] > maxv)
    <3>1. UNCHANGED index /\ pc[p] = "load" /\ pc'[p] \in {"idle", "enter"}
      BY <1>10, <2>2, <1>2 DEF LoadMax, Succeed
    <3>. QED
      BY <1>1, <3>1
  <2>. QED
    BY <2>1, <2>2
<1>11. CASE StoreMax(p)
  <2>1. UNCHANGED index /\ pc[p] = "store" /\ pc'[p] \in {"idle", "enter"}
    BY <1>11, <1>2, Zenon DEF StoreMax, Succeed
  <2>. QED
    BY <1>1, <2>1
<1>. QED
  BY <1>3, <1>4, <1>5, <1>6, <1>7, <1>8, <1>9, <1>10, <1>11, Zenon DEF Set

\* A row counts as written in the last step of its set; a key gets a new row only where
\* it had none.
LEMMA SetEnds ==
  ASSUME TypeOK, NEW p \in Procs, Set(p)
  PROVE  /\ (done' = done /\ acked' = acked) \/ pc[p] \in {"load", "store"}
         /\ pc'[p] = "index" => InsertRow(p)
         /\ (maxv' = maxv /\ (pc[p] \in Storing => pc'[p] \in Storing))
              \/ (LoadMax(p) /\ ~(snap[p] > maxv)) \/ StoreMax(p)
         /\ pc'[p] = "store" => LoadMax(p) /\ snap[p] > maxv
<1>. DEFINE G == /\ (done' = done /\ acked' = acked) \/ pc[p] \in {"load", "store"}
                 /\ pc'[p] = "index" => InsertRow(p)
                 /\ (maxv' = maxv /\ (pc[p] \in Storing => pc'[p] \in Storing))
                      \/ (LoadMax(p) /\ ~(snap[p] > maxv)) \/ StoreMax(p)
                 /\ pc'[p] = "store" => LoadMax(p) /\ snap[p] > maxv
<1>t. pc \in [Procs -> Labels]
  BY DEF TypeOK
<1>. USE DEF Storing
<1>1. ASSUME NEW l, Goto(p, l) PROVE pc'[p] = l
  BY <1>1, <1>t DEF Goto
<1>2. CASE SetEnter(p)
  <2>1. pc'[p] \in {"idle", "log"} /\ pc[p] = "enter" /\ UNCHANGED <<done, acked, maxv>>
    BY <1>2, <1>1 DEF SetEnter, Fail, results
  <2>. QED
    BY <2>1
<1>3. CASE SetLog(p) \/ SetLogFails(p) \/ WriteRejected(p)
  <2>1. pc'[p] \in {"idle", "find"} /\ pc[p] \in {"log", "write"} /\ UNCHANGED <<done, acked, maxv>>
    BY <1>3, <1>1, Zenon DEF SetLog, SetLogFails, WriteRejected, Fail, results
  <2>. QED
    BY <2>1
<1>4. CASE FindRow(p) \/ CreateRow(p)
  <2>1. pc'[p] \in {"write", "create", "insert"} /\ pc[p] \in {"find", "create"}
        /\ UNCHANGED <<done, acked, maxv>>
    BY <1>4, <1>1, Zenon DEF FindRow, CreateRow, results
  <2>. QED
    BY <2>1
<1>5. CASE InsertRow(p)
  <2>1. pc'[p] = "index" /\ pc[p] = "insert" /\ UNCHANGED <<done, acked, maxv>>
    BY <1>5, <1>1, Zenon DEF InsertRow, results
  <2>. QED
    BY <1>5, <2>1
<1>6. CASE IndexRow(p) \/ Write(p) \/ EnsureKv(p)
  <2>1. pc'[p] \in {"write", "ensure", "load"} /\ UNCHANGED <<done, acked, maxv>>
        /\ (pc[p] \in Storing => pc'[p] \in Storing)
    BY <1>6, <1>1, Zenon DEF IndexRow, Write, EnsureKv, results
  <2>. QED
    BY <2>1
<1>7. CASE LoadMax(p)
  <2>1. CASE snap[p] > maxv
    <3>1. pc'[p] = "store" /\ pc[p] = "load" /\ UNCHANGED <<done, acked, maxv>>
      BY <1>7, <2>1, <1>1, Zenon DEF LoadMax, results
    <3>. QED
      BY <1>7, <2>1, <3>1
  <2>2. CASE ~(snap[p] > maxv)
    <3>1. pc'[p] \in {"idle", "enter"} /\ pc[p] = "load" /\ maxv' = maxv
      BY <1>7, <2>2, <1>1 DEF LoadMax, Succeed
    <3>. QED
      BY <1>7, <2>2, <3>1
  <2>. QED
    BY <2>1, <2>2
<1>8. CASE StoreMax(p)
  <2>1. pc'[p] \in {"idle", "enter"} /\ pc[p] = "store"
    BY <1>8, <1>1 DEF StoreMax, Succeed
  <2>. QED
    BY <1>8, <2>1
<1>. QED
  BY <1>2, <1>3, <1>4, <1>5, <1>6, <1>7, <1>8, Zenon DEF Set

\* What was acknowledged stays readable: a key that has a row never gets another one.
LEMMA SetReadsOne ==
  ASSUME TypeOK, TypeOK', ThreadInv, Alone, IndexInv, ReadInv, w1 \in Writers, NEW p \in Procs, Set(p)
  PROVE  ReadInv'
<1>. SUFFICES ASSUME phase' = "up" PROVE ReadInv'
  BY DEF ReadInv
<1>0. Moves(p) /\ p = w1 /\ w1 \in Workers /\ phase = "up" /\ pc[w1] # "idle"
  BY SetMoves, WorksAlone, MemtableConstants, Zenon DEF Moves, Workers
<1>r. /\ Row(w1) = todo[w1][1] /\ Key(w1) \in Keys /\ Key(w1) = todo[w1][1].key
      /\ Row(w1) \in Rows
  BY <1>0, RowFacts DEF Key
<1>h. \A a \in acked \cup done[w1] : Has(a.key, a.id) /\ a.key \in Keys
  <2>1. acked \cup done[w1] \subseteq Rows
    BY <1>0 DEF TypeOK
  <2>. QED
    BY <1>0, <2>1, NatIds DEF ReadInv
<1>i. pc[w1] = "insert" => keyhash[Key(w1)] = None
  BY <1>0, <1>r, Zenon DEF IndexInv
<1>1. ASSUME NEW a \in acked \cup done[w1] PROVE Has(a.key, a.id)'
  <2>1. Has(a.key, a.id) /\ a.key \in Keys
    BY <1>h
  <2>2. pc[w1] = "insert" => Key(w1) # a.key
    BY <1>i, <2>1 DEF Has
  <2>. QED
    BY <1>0, <2>1, <2>2, HasKept, Zenon
<1>2. ASSUME pc[w1] \in Storing, NEW k \in Keys, NEW i, k = todo[w1][1].key, i = todo[w1][1].id
      PROVE  Has(k, i)'
  <2>1. Has(k, i) /\ pc[w1] # "insert"
    BY <1>0, <1>2, <1>r DEF ReadInv, Storing
  <2>. QED
    BY <1>0, <2>1, HasKept
<1>3. ASSUME NEW a \in acked' \cup done'[w1] PROVE Has(a.key, a.id)'
  <2>1. CASE a \in acked \cup done[w1]
    BY <1>1, <2>1
  <2>2. CASE a \notin acked \cup done[w1]
    <3>1. pc[w1] \in Storing /\ a = todo[w1][1]
      <4>1. pc[w1] \in {"load", "store"}
        BY <1>0, <1>3, <2>2, SetEnds
      <4>2. a = todo[w1][1]
        BY <1>0, <1>3, <2>2, SetResults
      <4>. QED
        BY <4>1, <4>2 DEF Storing
    <3>. QED
      BY <1>2, <1>r, <3>1
  <2>. QED
    BY <2>1, <2>2
<1>4. ASSUME pc'[w1] \in Storing PROVE (Has(todo[w1][1].key, todo[w1][1].id))'
  <2>0. todo'[w1] = todo[w1]
    BY <1>0, <1>4 DEF Moves, Storing
  <2>1. CASE pc[w1] \in Storing
    <3>1. PICK k \in Keys, i \in Ids : k = todo[w1][1].key /\ i = todo[w1][1].id
      BY <1>r, NatIds
    <3>2. Has(k, i)'
      BY <1>2, <2>1, <3>1
    <3>. QED
      BY <2>0, <3>1, <3>2
  <2>2. CASE Write(w1)
    <3>0. PICK o \in Ids, c \in Seq(Node), d \in Seq(Node), n \in Node : WriteOf(w1, o, c, d, n)
      BY <1>0, <2>2, WriteNamed
    <3>1. o = obj[w1] /\ 1 \in DOMAIN chain'[o] /\ chain'[o][1].id = Row(w1).id
      BY <3>0 DEF WriteOf, Prepended
    <3>2. keyhash' = keyhash /\ keyhash[todo[w1][1].key] = o
      BY <1>0, <2>2, <3>1, Zenon DEF Write, index, IndexInv
    <3>. QED
      BY <1>r, <2>0, <3>1, <3>2, NoneNotId DEF Has
  <2>. QED
    BY <1>0, <1>4, <2>1, <2>2, SetFacts, Zenon
<1>5. ASSUME pc'[w1] = "index", NEW a \in acked' \cup done'[w1] PROVE a.key # todo'[w1][1].key
  <2>1. InsertRow(w1)
    BY <1>0, <1>5, SetEnds, Zenon
  <2>2. pc[w1] = "insert" /\ todo' = todo /\ acked' = acked /\ done' = done
    BY <2>1, Zenon DEF InsertRow, results
  <2>3. keyhash[a.key] # None
    BY <1>h, <2>2, Zenon DEF Has
  <2>. QED
    BY <1>i, <1>r, <2>2, <2>3, Zenon
<1>. QED
  BY <1>3, <1>4, <1>5 DEF ReadInv

\* A version is covered by max_trans_version_ when the set that linked it returns.
LEMMA SetMaxOne ==
  ASSUME TypeOK, TypeOK', ThreadInv, Alone, MaxInv, w1 \in Writers, NEW p \in Procs, Set(p)
  PROVE  MaxInv'
<1>0. /\ Moves(p) /\ p \in Workers /\ snap' = snap
      /\ \A q \in Workers : q = p \/ (pc[q] = "idle" /\ pc'[q] = "idle")
  BY SetMoves, WorksAlone, Zenon DEF Procs, Moves, Workers
<1>r. pc[p] # "idle" /\ Row(p) = todo[p][1]
  BY <1>0, RowFacts, Zenon DEF Moves
<1>n. maxv \in Nat /\ maxv' \in Nat /\ snap[p] \in Nat
  BY VersionsNat, Zenon DEF TypeOK
<1>i. "idle" \notin Storing
  BY DEF Storing
<1>. DEFINE Own(x) == pc[p] \in Storing /\ x.id = todo[p][1].id /\ x.snap = snap[p]
            OwnNow(x) == pc'[p] \in Storing /\ x.id = todo'[p][1].id /\ x.snap = snap[p]
<1>b. \A r \in Ids : \A j \in DOMAIN chain[r] : chain[r][j].snap <= maxv \/ Own(chain[r][j])
  <2>. SUFFICES ASSUME NEW r \in Ids, NEW j \in DOMAIN chain[r]
                PROVE  chain[r][j].snap <= maxv \/ Own(chain[r][j])
    BY Zenon
  <2>1. chain[r][j].snap <= maxv
        \/ (\E q \in Workers : pc[q] \in Storing /\ chain[r][j].id = todo[q][1].id /\ chain[r][j].snap = snap[q])
    BY Zenon DEF MaxInv
  <2>. QED
    BY <1>0, <1>i, <2>1, Zenon
<1>1. pc'[p] = "store" => snap[p] > maxv'
  <2>1. LoadMax(p) => maxv' = maxv
    BY Zenon DEF LoadMax
  <2>. QED
    BY <2>1, SetEnds, Zenon
<1>2. maxv <= maxv'
  <2>1. CASE StoreMax(p)
    <3>1. maxv' = snap[p] /\ pc[p] = "store"
      BY <2>1, Zenon DEF StoreMax
    <3>2. snap[p] > maxv
      BY <1>0, <3>1, Zenon DEF MaxInv
    <3>3. \A a, b \in Nat : a > b => b <= a
      OBVIOUS
    <3>. QED
      BY <1>n, <3>1, <3>2, <3>3, Zenon
  <2>2. CASE maxv' = maxv
    BY <1>n, <2>2
  <2>3. CASE LoadMax(p)
    <3>1. maxv' = maxv
      BY <2>3, Zenon DEF LoadMax
    <3>. QED
      BY <1>n, <3>1
  <2>. QED
    BY <2>1, <2>2, <2>3, SetEnds, Zenon
<1>3. ASSUME NEW x \in Node, x.snap <= maxv \/ Own(x) PROVE x.snap <= maxv' \/ OwnNow(x)
  <2>0. x.snap \in Nat
    BY NatIds
  <2>1. CASE x.snap <= maxv
    BY <1>2, <1>n, <2>0, <2>1
  <2>2. CASE Own(x) /\ pc'[p] \in Storing
    <3>1. todo'[p] = todo[p]
      BY <1>0, <2>2 DEF Moves, Storing
    <3>. QED
      BY <2>2, <3>1
  <2>3. CASE Own(x) /\ pc'[p] \notin Storing
    <3>1. (LoadMax(p) /\ ~(snap[p] > maxv)) \/ StoreMax(p)
      BY <2>3, SetEnds
    <3>2. snap[p] <= maxv'
      <4>1. CASE LoadMax(p) /\ ~(snap[p] > maxv)
        BY <1>n, <1>2, <4>1
      <4>2. CASE StoreMax(p)
        <5>1. maxv' = snap[p]
          BY <4>2, Zenon DEF StoreMax
        <5>. QED
          BY <1>n, <5>1
      <4>. QED
        BY <3>1, <4>1, <4>2
    <3>. QED
      BY <2>3, <3>2
  <2>. QED
    BY <1>3, <2>1, <2>2, <2>3
<1>4. ASSUME NEW r \in Ids, NEW j \in DOMAIN chain'[r]
      PROVE  chain'[r][j].snap <= maxv' \/ OwnNow(chain'[r][j])
  <2>1. CASE chain' = chain
    <3>1. chain[r][j] \in Node /\ (chain[r][j].snap <= maxv \/ Own(chain[r][j]))
      BY <1>b, <1>4, <2>1, ChainIds
    <3>. QED
      BY <1>3, <2>1, <3>1, Zenon
  <2>2. CASE Write(p)
    <3>0. PICK o \in Ids, c \in Seq(Node), d \in Seq(Node), n \in Node : WriteOf(p, o, c, d, n)
      BY <2>2, WriteNamed
    <3>1. /\ c = chain[o] /\ d = chain'[o] /\ n.id = Row(p).id /\ n.snap = snap[p]
          /\ Prepended(c, d, n) /\ \A q \in Ids : q # o => chain'[q] = chain[q]
      BY <3>0 DEF WriteOf
    <3>2. pc'[p] = "ensure" /\ todo' = todo
      <4>1. pc \in [Procs -> Labels]
        BY DEF TypeOK
      <4>. QED
        BY <2>2, <4>1 DEF Write, Goto
    <3>3. CASE r # o
      <4>1. chain'[r] = chain[r]
        BY <3>1, <3>3, Zenon
      <4>2. chain[r][j] \in Node /\ (chain[r][j].snap <= maxv \/ Own(chain[r][j]))
        BY <1>b, <1>4, <4>1, ChainIds, Zenon
      <4>. QED
        BY <1>3, <4>1, <4>2, Zenon
    <3>4. CASE r = o /\ d[j] = n
      BY <1>r, <3>1, <3>2, <3>4, Zenon DEF Storing
    <3>5. CASE r = o /\ j - 1 \in DOMAIN c /\ d[j] = c[j - 1]
      <4>1. c[j - 1] \in Node /\ (c[j - 1].snap <= maxv \/ Own(c[j - 1]))
        BY <1>b, <3>1, <3>5, ChainIds, Zenon
      <4>. QED
        BY <1>3, <3>1, <3>5, <4>1, Zenon
    <3>. QED
      BY <1>4, <3>1, <3>3, <3>4, <3>5, Zenon DEF Prepended
  <2>. QED
    BY <2>1, <2>2, SetChanges, Zenon
<1>. QED
  BY <1>0, <1>1, <1>4, <1>i, Zenon DEF MaxInv

LEMMA SetOne ==
  ASSUME MemInv, TypeOK', OneInv, w1 \in Writers, NEW p \in Procs, Set(p)
  PROVE  OneInv'
<1>1. Alone'
  <2>1. Moves(p) /\ (p = w1 \/ p = Replayer)
    BY SetMoves, WorksAlone, Zenon DEF Moves, MemInv, OneInv
  <2>. QED
    BY <2>1, MemtableConstants, Zenon DEF Moves, Alone, OneInv, Procs
<1>. QED
  BY <1>1, SetIds, SetChainsOne, SetIndexOne, SetReadsOne, SetMaxOne DEF OneInv, MemInv

\* A call gives its rows ids above all that were given out.
LEMMA CallOne ==
  ASSUME TypeOK, ThreadInv, LogInv, ChainLogged, RecInv, Alone, IdsInv, ChainInv, IndexInv, ReadInv, MaxInv,
         TypeOK', w1 \in Writers, Call(w1)
  PROVE  OneInv'
<1>0. PICK n \in Batches, s \in Versions : \E ks \in [1 .. n -> Keys] : CallBatch(w1, ks, s)
  BY DEF Call
<1>1. PICK ks \in [1 .. n -> Keys] : CallBatch(w1, ks, s)
  BY <1>0
<1>2. /\ phase = "up" /\ phase' = "up" /\ pc[w1] = "idle" /\ pc' = [pc EXCEPT ![w1] = "enter"]
      /\ todo' = [todo EXCEPT ![w1] = [i \in DOMAIN ks |-> [key |-> ks[i], id |-> ops + i]]]
      /\ done' = [done EXCEPT ![w1] = {}] /\ ops' = ops + Len(ks)
      /\ UNCHANGED <<wal, maxv, keyhash, btree, zero, indexed, chain, rpos, acked>>
  BY <1>1 DEF CallBatch, Goto, index, versions, results
<1>3. n \in Nat /\ n >= 1 /\ Len(ks) = n /\ DOMAIN ks = 1 .. n
  <2>1. n \in Nat /\ n >= 1
    BY MemtableConstants
  <2>. QED
    BY <2>1
<1>4. w1 \in Procs /\ ops \in Nat
  BY MemtableConstants DEF Procs, TypeOK
<1>5. /\ pc'[w1] = "enter" /\ done'[w1] = {} /\ DOMAIN todo'[w1] = 1 .. n
      /\ \A i \in 1 .. n : todo'[w1][i].id = ops + i
      /\ \A q \in Procs : q # w1 => pc'[q] = pc[q]
  <2>1. pc \in [Procs -> Labels] /\ todo \in [Procs -> Seq(Rows)] /\ done \in [Procs -> SUBSET Rows]
    BY DEF TypeOK
  <2>2. todo'[w1] = [i \in 1 .. n |-> [key |-> ks[i], id |-> ops + i]]
    BY <1>2, <1>3, <1>4, <2>1
  <2>. QED
    BY <1>2, <1>4, <2>1, <2>2
<1>6. pc[Replayer] = "idle" /\ Replayer \in Procs /\ \A q \in Workers : pc[q] = "idle"
  BY <1>2, Zenon DEF ThreadInv, Procs, Workers
<1>7. \A q \in Workers : pc'[q] = "enter" \/ pc'[q] = "idle"
  BY <1>4, <1>5, <1>6, Zenon DEF Workers
<1>f. todo'[w1][1].id = ops + 1
  <2>1. 1 \in 1 .. n
    BY <1>3
  <2>. QED
    BY <1>5, <2>1, Zenon
<1>w. \A i \in DOMAIN wal : wal[i].id <= ops /\ wal[i].id \in Nat
  BY WalIds, Zenon DEF IdsInv
<1>8. Alone'
  BY <1>5, Zenon DEF Alone, Procs
<1>9. IdsInv'
  <2>1. \A i \in DOMAIN wal' : wal'[i].id <= ops' /\ wal'[i].id < todo'[w1][1].id
                              /\ wal'[i].id <= todo'[w1][1].id
    <3>1. ops' \in Nat /\ ops <= ops' /\ wal' = wal /\ todo'[w1][1].id = ops + 1
      BY <1>2, <1>3, <1>4, <1>f
    <3>. QED
      BY <1>4, <1>w, <3>1
  <2>2. \A i, j \in DOMAIN wal' : i < j => wal'[i].id < wal'[j].id
    BY <1>2, Zenon DEF IdsInv
  <2>3. ASSUME NEW i \in DOMAIN todo'[w1] PROVE todo'[w1][i].id <= ops'
    <3>1. i \in 1 .. n /\ todo'[w1][i].id = ops + i /\ ops' = ops + n
      BY <1>2, <1>3, <1>5, Zenon
    <3>. QED
      BY <1>3, <1>4, <3>1
  <2>4. ASSUME NEW i \in DOMAIN todo'[w1], NEW j \in DOMAIN todo'[w1], i < j
        PROVE  todo'[w1][i].id < todo'[w1][j].id
    <3>1. /\ i \in 1 .. n /\ todo'[w1][i].id = ops + i
          /\ j \in 1 .. n /\ todo'[w1][j].id = ops + j
      BY <1>5, Zenon
    <3>. QED
      BY <1>3, <1>4, <2>4, <3>1
  <2>5. ASSUME NEW a \in acked' \cup done'[w1] PROVE a.id < todo'[w1][1].id
    <3>1. InLog(a)
      BY <1>2, <1>5, Zenon DEF LogInv
    <3>2. PICK i \in DOMAIN wal : wal[i] = a
      BY <3>1 DEF InLog
    <3>3. a.id <= ops /\ a.id \in Nat
      BY <1>w, <3>2, Zenon
    <3>. QED
      BY <1>4, <1>f, <3>3
  <2>. QED
    BY <2>1, <2>2, <2>3, <2>4, <2>5, Zenon DEF IdsInv
<1>10. ChainInv'
  <2>1. ASSUME NEW r \in Ids, NEW j \in DOMAIN chain[r] PROVE chain[r][j].id < ops + 1
    <3>1. PICK i \in DOMAIN wal : wal[i].id = chain[r][j].id
      BY DEF ChainLogged
    <3>. QED
      BY <1>4, <1>w, <3>1
  <2>2. "idle" \notin Unlinked
    BY DEF Unlinked, Linked
  <2>3. \A q \in Workers : pc'[q] \in Unlinked => q = w1
    BY <1>4, <1>5, <1>6, <2>2 DEF Workers
  <2>. QED
    <3>1. \A r \in Ids : \A i, j \in DOMAIN chain'[r] : i < j => chain'[r][j].id < chain'[r][i].id
      BY <1>2, Zenon DEF ChainInv
    <3>2. \A q \in Workers : pc'[q] \in Unlinked =>
            \A r \in Ids : \A j \in DOMAIN chain'[r] : chain'[r][j].id < todo'[q][1].id
      BY <1>2, <1>f, <2>1, <2>3, Zenon
    <3>3. phase' # "recovering"
      BY <1>2
    <3>. QED
      BY <3>1, <3>2, <3>3, Zenon DEF ChainInv
<1>11. IndexInv'
  <2>1. \A k \in Keys : keyhash[k] = None \/ (btree[k] = keyhash[k] /\ keyhash[k] \in indexed)
    BY <1>6, Zenon DEF IndexInv
  <2>2. \A q \in Workers : pc'[q] \notin {"create", "insert"} /\ pc'[q] \notin {"index", "write"} \cup Storing
    BY <1>7 DEF Storing
  <2>3. zero' = None
    BY <1>2, Zenon DEF IndexInv
  <2>. QED
    BY <1>2, <2>1, <2>2, <2>3, Zenon DEF IndexInv
<1>12. ReadInv'
  <2>1. \A a \in acked' \cup done'[w1] : Has(a.key, a.id)'
    <3>1. \A a \in acked : Has(a.key, a.id)
      BY <1>2, Zenon DEF ReadInv
    <3>2. \A k, id : Has(k, id)' <=> Has(k, id)
      BY <1>2, Zenon DEF Has
    <3>3. acked' \cup done'[w1] = acked
      BY <1>2, <1>5
    <3>. QED
      BY <3>1, <3>2, <3>3, Zenon
  <2>. QED
    BY <1>5, <2>1, Zenon DEF ReadInv, Storing
<1>13. MaxInv'
  <2>1. \A r \in Ids : \A j \in DOMAIN chain[r] : chain[r][j].snap <= maxv
    BY <1>6, Zenon DEF MaxInv, Storing
  <2>2. \A q \in Workers : pc'[q] # "store"
    BY <1>7
  <2>. QED
    BY <1>2, <2>1, <2>2, Zenon DEF MaxInv
<1>. QED
  BY <1>8, <1>9, <1>10, <1>11, <1>12, <1>13 DEF OneInv

\* Replay hands out the entries of the log in order.
LEMMA ReplayOne ==
  ASSUME TypeOK, ThreadInv, LogInv, ChainLogged, RecInv, Alone, IdsInv, ChainInv, IndexInv, ReadInv, MaxInv,
         TypeOK', w1 \in Writers, ReplayEntry
  PROVE  OneInv'
<1>0. Replayer \in Procs /\ w1 \in Procs /\ w1 # Replayer
  BY MemtableConstants DEF Procs
<1>1. /\ phase = "recovering" /\ phase' = "recovering" /\ pc[Replayer] = "idle"
      /\ pc' = [pc EXCEPT ![Replayer] = "enter"] /\ rpos < Len(wal) /\ rpos' = rpos + 1
      /\ todo' = [todo EXCEPT ![Replayer] = <<wal[rpos + 1]>>]
      /\ UNCHANGED <<wal, maxv, keyhash, btree, zero, indexed, chain, ops, acked, done>>
  BY DEF ReplayEntry, Goto, index, versions, results
<1>2. /\ pc'[Replayer] = "enter" /\ todo'[Replayer][1] = wal[rpos + 1]
      /\ \A q \in Procs : q # Replayer => pc'[q] = pc[q]
  BY <1>0, <1>1, Zenon DEF TypeOK
<1>3. \A w \in Writers : pc[w] = "idle" /\ pc'[w] = "idle"
  BY <1>1, <1>2, MemtableConstants, Zenon DEF ThreadInv, Procs
<1>4. \A q \in Workers : pc[q] = "idle" /\ (pc'[q] = "enter" \/ pc'[q] = "idle")
  BY <1>1, <1>2, <1>3 DEF Workers
<1>w. /\ DOMAIN wal = 1 .. Len(wal) /\ Len(wal) \in Nat /\ rpos \in Nat
      /\ \A i \in DOMAIN wal : wal[i].id \in Nat
  <2>1. rpos \in 0 .. Len(wal)
    BY DEF TypeOK
  <2>2. Len(wal) \in Nat
    BY WalIds, Zenon
  <2>3. rpos \in Nat
    BY <2>1, <2>2
  <2>. QED
    BY <2>3, WalIds, Zenon
<1>5. Alone'
  BY <1>3 DEF Alone
<1>6. IdsInv'
  BY <1>1, <1>3, Zenon DEF IdsInv
<1>7. ChainInv'
  <2>1. ASSUME NEW r \in Ids, NEW j \in DOMAIN chain[r]
        PROVE  /\ chain[r][j].id < wal[rpos + 1].id
               /\ \E i \in DOMAIN wal : i <= rpos + 1 /\ wal[i].id = chain[r][j].id
    <3>1. PICK i \in DOMAIN wal : i <= rpos /\ wal[i].id = chain[r][j].id
      BY <1>1 DEF ChainInv
    <3>2. i < rpos + 1 /\ i <= rpos + 1 /\ rpos + 1 \in DOMAIN wal
      <4>1. i \in Nat /\ i <= rpos
        BY <1>w, <3>1
      <4>2. rpos + 1 \in 1 .. Len(wal)
        BY <1>1, <1>w
      <4>. QED
        BY <1>w, <4>1, <4>2
    <3>3. wal[i].id < wal[rpos + 1].id
      BY <3>2 DEF IdsInv
    <3>. QED
      BY <3>1, <3>2, <3>3, Zenon
  <2>2. "idle" \notin Unlinked
    BY DEF Unlinked, Linked
  <2>3. \A q \in Workers : pc'[q] \in Unlinked => q = Replayer
    BY <1>3, <2>2 DEF Workers
  <2>4. \A r \in Ids : \A i, j \in DOMAIN chain'[r] : i < j => chain'[r][j].id < chain'[r][i].id
    BY <1>1, Zenon DEF ChainInv
  <2>. QED
    BY <1>1, <1>2, <2>1, <2>3, <2>4, Zenon DEF ChainInv
<1>8. IndexInv'
  <2>1. \A k \in Keys : keyhash[k] = None \/ (btree[k] = keyhash[k] /\ keyhash[k] \in indexed)
    BY <1>4, Zenon DEF IndexInv
  <2>2. \A q \in Workers : pc'[q] \notin {"create", "insert"} /\ pc'[q] \notin {"index", "write"} \cup Storing
    BY <1>4, Zenon DEF Storing
  <2>3. zero' = None
    BY <1>1, Zenon DEF IndexInv
  <2>. QED
    BY <1>1, <2>1, <2>2, <2>3, Zenon DEF IndexInv
<1>9. ReadInv'
  BY <1>1, Zenon DEF ReadInv
<1>10. MaxInv'
  <2>1. \A r \in Ids : \A j \in DOMAIN chain[r] : chain[r][j].snap <= maxv
    BY <1>4, Zenon DEF MaxInv, Storing
  <2>2. \A q \in Workers : pc'[q] # "store"
    BY <1>4, Zenon
  <2>. QED
    BY <1>1, <2>1, <2>2, Zenon DEF MaxInv
<1>. QED
  BY <1>5, <1>6, <1>7, <1>8, <1>9, <1>10 DEF OneInv

\* The memory of a new process is empty; the log and the ids it gave out stay.
LEMMA RestartedOne ==
  ASSUME TypeOK, IdsInv, w1 \in Writers, Restarted, wal' = wal, ops' = ops
  PROVE  OneInv'
<1>1. /\ \A q \in Procs : pc'[q] = "idle"
      /\ \A r \in Ids : chain'[r] = <<>>
      /\ \A k \in Keys : keyhash'[k] = None
      /\ phase' = "recovering" /\ zero' = None
  BY DEF Restarted
<1>2. Alone' /\ pc'[w1] = "idle" /\ \A q \in Workers : pc'[q] = "idle"
  BY <1>1 DEF Alone, Workers, Procs
<1>3. \A r \in Ids : \A j \in DOMAIN chain'[r] : FALSE
  BY <1>1
<1>4. IdsInv'
  BY <1>2, Zenon DEF IdsInv
<1>5. ChainInv'
  BY <1>3, Zenon DEF ChainInv
<1>6. IndexInv'
  BY <1>1, <1>2, Zenon DEF IndexInv, Storing
<1>7. ReadInv'
  BY <1>1, Zenon DEF ReadInv
<1>8. MaxInv'
  BY <1>2, <1>3, Zenon DEF MaxInv
<1>. QED
  BY <1>2, <1>4, <1>5, <1>6, <1>7, <1>8 DEF OneInv

\* When replay ends, all rows of the log are readable, and so are the acknowledged ones.
LEMMA RecoveredOne ==
  ASSUME TypeOK, ThreadInv, LogInv, ChainLogged, RecInv, Alone, IdsInv, ChainInv, IndexInv, ReadInv, MaxInv,
         w1 \in Writers, ReplayEnd
  PROVE  OneInv'
<1>1. /\ phase = "recovering" /\ phase' = "up" /\ rpos = Len(wal) /\ pc[Replayer] = "idle"
      /\ UNCHANGED <<wal, rpos, maxv, keyhash, btree, zero, indexed, chain, pc, obj, todo, snap, done, ops, acked>>
  BY DEF ReplayEnd, threads, index, versions, results
<1>2. pc[w1] = "idle" /\ w1 \in Procs
  BY <1>1 DEF ThreadInv, Procs
<1>3. \A i \in DOMAIN wal : Has(wal[i].key, wal[i].id)
  <2>1. \A i \in DOMAIN wal : i < rpos \/ i = rpos
    BY <1>1, WalIds
  <2>. QED
    BY <1>1, <2>1 DEF RecInv, Linked
<1>4. \A a \in acked \cup done[w1] : Has(a.key, a.id)
  <2>1. \A a \in acked \cup done[w1] : InLog(a)
    BY <1>2, Zenon DEF LogInv
  <2>. QED
    BY <1>3, <2>1, Zenon DEF InLog
<1>5. ReadInv'
  <2>1. \A a \in acked' \cup done'[w1] : Has(a.key, a.id)'
    BY <1>1, <1>4, Zenon DEF Has
  <2>2. pc'[w1] \notin Storing /\ pc'[w1] # "index"
    BY <1>1, <1>2 DEF Storing
  <2>. QED
    BY <2>1, <2>2 DEF ReadInv
<1>6. Alone' /\ IdsInv' /\ IndexInv' /\ MaxInv'
  <2>1. Alone' /\ IdsInv'
    BY <1>1, Zenon DEF Alone, IdsInv
  <2>2. IndexInv'
    BY <1>1, Zenon DEF IndexInv
  <2>3. MaxInv'
    BY <1>1, Zenon DEF MaxInv
  <2>. QED
    BY <2>1, <2>2, <2>3
<1>7. ChainInv'
  BY <1>1, Zenon DEF ChainInv
<1>. QED
  BY <1>5, <1>6, <1>7 DEF OneInv

LEMMA OneStep ==
  ASSUME MemInv, MemInv', OneInv, w1 \in Writers, Alone', [Next]_vars
  PROVE  OneInv'
<1>t. TypeOK'
  BY DEF MemInv
<1>1. ASSUME NEW w \in Writers, Call(w) PROVE OneInv'
  <2>1. pc'[w] = "enter"
    BY <1>1, Zenon DEF Call, CallBatch, Goto, MemInv, TypeOK, Procs
  <2>2. w = w1
    BY <2>1 DEF Alone
  <2>. QED
    BY <1>1, <1>t, <2>2, CallOne DEF MemInv, OneInv
<1>2. ASSUME NEW p \in Procs, Set(p) PROVE OneInv'
  BY <1>2, <1>t, SetOne
<1>3. CASE ReplayEntry
  BY <1>3, <1>t, ReplayOne DEF MemInv, OneInv
<1>4. CASE ReplayAborts \/ Crash
  <2>1. Restarted /\ wal' = wal /\ ops' = ops
    BY <1>4 DEF ReplayAborts, Crash
  <2>. QED
    BY <2>1, RestartedOne DEF MemInv, OneInv
<1>5. CASE ReplayEnd
  BY <1>5, RecoveredOne DEF MemInv, OneInv
<1>6. CASE set_frozen \/ UNCHANGED vars
  <2>1. UNCHANGED <<wal, phase, rpos, maxv, keyhash, btree, zero, indexed, chain, pc, obj, todo, snap,
                    done, ops, acked>>
    BY <1>6 DEF set_frozen, vars, threads, index, versions, results
  <2>2. IdsInv' /\ IndexInv'
    BY <2>1, Zenon DEF OneInv, IdsInv, IndexInv
  <2>3. MaxInv' /\ ChainInv'
    BY <2>1, Zenon DEF OneInv, MaxInv, ChainInv
  <2>4. ReadInv'
    <3>1. \A k, id : Has(k, id)' <=> Has(k, id)
      BY <2>1, Zenon DEF Has
    <3>. QED
      BY <2>1, <3>1, Zenon DEF OneInv, ReadInv
  <2>. QED
    BY <2>2, <2>3, <2>4 DEF OneInv
<1>. QED
  BY <1>1, <1>2, <1>3, <1>4, <1>5, <1>6 DEF Next, Replay

\* What the invariant says of reads.
LEMMA OneInvReads ==
  ASSUME TypeOK, ThreadInv, LogInv, ChainLogged, RecInv, Alone, IdsInv, ChainInv, IndexInv, ReadInv, MaxInv,
         w1 \in Writers
  PROVE  AckedReadable /\ ScanAgrees /\ MaxCovers
<1>. SUFFICES ASSUME phase = "up" PROVE AckedReadable /\ ScanAgrees /\ MaxCovers
  BY Zenon DEF AckedReadable, ScanAgrees, MaxCovers
<1>0. w1 \in Procs /\ w1 \in Workers /\ pc[Replayer] = "idle"
  BY Zenon DEF Procs, Workers, ThreadInv
<1>1. ASSUME NEW a \in acked
      PROVE  /\ keyhash[a.key] \in Ids /\ a.key \in Keys
             /\ \E j \in DOMAIN chain[keyhash[a.key]] : chain[keyhash[a.key]][j].id = a.id
  <2>1. Has(a.key, a.id)
    BY Zenon DEF ReadInv
  <2>2. a.key \in Keys
    BY NatIds DEF TypeOK
  <2>. QED
    BY <2>1, <2>2, NoneNotId, Zenon DEF Has, TypeOK
<1>2. AckedReadable
  <2>. SUFFICES ASSUME NEW a \in acked PROVE Newest(a.key) >= a.id
    BY DEF AckedReadable
  <2>1. PICK o \in Ids : o = keyhash[a.key]
    BY <1>1
  <2>2. PICK j \in DOMAIN chain[o] : chain[o][j].id = a.id
    BY <1>1, <2>1
  <2>3. /\ j \in Nat /\ j >= 1 /\ 1 \in DOMAIN chain[o] /\ chain[o][1].id \in Nat /\ chain[o][j].id \in Nat
    BY <2>2, ChainIds
  <2>4. chain[o][1].id >= chain[o][j].id
    <3>1. CASE j = 1
      BY <2>3, <3>1
    <3>2. CASE j > 1
      <4>1. chain[o][j].id < chain[o][1].id
        BY <2>2, <2>3, <3>2 DEF ChainInv
      <4>. QED
        BY <2>3, <4>1
    <3>. QED
      BY <2>3, <3>1, <3>2
  <2>5. Readable(a.key) # {} /\ Newest(a.key) = chain[o][1].id
    BY <2>1, <2>2, NoneNotId, Zenon DEF Readable, Nodes, Newest
  <2>. QED
    BY <2>2, <2>4, <2>5
<1>3. ScanAgrees
  <2>. SUFFICES ASSUME NEW a \in acked PROVE ScanHits(a.key, keyhash[a.key]) = 1
    BY DEF ScanAgrees
  <2>1. keyhash[a.key] # None /\ a.key \in Keys /\ zero = None
    BY <1>1, NoneNotId DEF IndexInv
  <2>2. ~ \E p \in Workers : pc[p] = "index" /\ todo[p][1].key = a.key
    <3>1. pc[w1] = "index" => a.key # todo[w1][1].key
      BY Zenon DEF ReadInv
    <3>. QED
      BY <1>0, <3>1 DEF Workers
  <2>3. btree[a.key] = keyhash[a.key]
    BY <2>1, <2>2, Zenon DEF IndexInv
  <2>. QED
    BY <2>1, <2>3 DEF ScanHits
<1>4. MaxCovers
  <2>. SUFFICES ASSUME NEW r \in Ids, NEW j \in DOMAIN chain[r], NEW a \in acked, a.id = chain[r][j].id
                PROVE  chain[r][j].snap <= maxv
    BY Zenon DEF MaxCovers, Nodes
  <2>1. ASSUME NEW p \in Workers, pc[p] \in Storing, chain[r][j].id = todo[p][1].id PROVE FALSE
    <3>1. p = w1 /\ pc[w1] # "idle"
      BY <1>0, <2>1 DEF Workers, Storing
    <3>2. a.id < todo[w1][1].id
      BY <3>1, Zenon DEF IdsInv
    <3>3. chain[r][j].id \in Nat
      BY ChainIds
    <3>. QED
      BY <2>1, <3>1, <3>2, <3>3
  <2>. QED
    BY <2>1, Zenon DEF MaxInv
<1>. QED
  BY <1>2, <1>3, <1>4

\* With one writer, whatever it writes, however often the process dies, and whether or
\* not appends fail: get returns the row that set acknowledged or a later one, scan the
\* row that get returns, once, and get_max_trans_version covers what was acknowledged.
THEOREM OneWriterReads ==
  ASSUME w1 \in Writers
  PROVE  MCSpec => []OneReads
<1>1. MCInit => SceneInv
  <2>. SUFFICES ASSUME MCInit PROVE SceneInv
    OBVIOUS
  <2>1. /\ \A q \in Procs : pc[q] = "idle"
        /\ \A r \in Ids : chain[r] = <<>>
        /\ \A k \in Keys : keyhash[k] = None
        /\ phase = "recovering" /\ zero = None /\ wal = <<>>
    BY DEF MCInit, Init
  <2>2. Alone /\ pc[w1] = "idle" /\ \A q \in Workers : pc[q] = "idle"
    BY <2>1 DEF Alone, Workers, Procs
  <2>3. (\A r \in Ids : \A j \in DOMAIN chain[r] : FALSE) /\ \A i \in DOMAIN wal : FALSE
    BY <2>1
  <2>4. IdsInv /\ ChainInv
    BY <2>2, <2>3, Zenon DEF IdsInv, ChainInv
  <2>5. IndexInv
    BY <2>1, <2>2, Zenon DEF IndexInv, Storing
  <2>6. ReadInv /\ MaxInv
    BY <2>1, <2>2, <2>3, Zenon DEF ReadInv, MaxInv
  <2>. QED
    BY <2>2, <2>4, <2>5, <2>6 DEF SceneInv, OneInv, MCInit
<1>2. MemInv /\ MemInv' /\ SceneInv /\ [MCNext]_<<vars, scene>> => SceneInv'
  <2>. SUFFICES ASSUME MemInv, MemInv', SceneInv, [MCNext]_<<vars, scene>>, scene' = "one"
                PROVE  OneInv'
    BY DEF SceneInv, MCNext
  <2>1. scene = "one" /\ [Next]_vars /\ OneInv
    BY DEF SceneInv, MCNext
  <2>2. Alone'
    <3>1. CASE MCNext
      BY <2>1, <3>1 DEF MCNext, InScene, Alone
    <3>2. CASE UNCHANGED <<vars, scene>>
      BY <2>1, <3>2 DEF vars, threads, Alone, OneInv
    <3>. QED
      BY <3>1, <3>2
  <2>. QED
    BY <2>1, <2>2, OneStep
<1>3. MemInv /\ SceneInv => OneReads
  BY OneInvReads DEF SceneInv, OneReads, MemInv, OneInv
<1>4. MCInit => Init
  BY DEF MCInit
<1>5. [MCNext]_<<vars, scene>> => [Next]_vars
  BY DEF MCNext
<1>. QED
  BY <1>1, <1>2, <1>3, <1>4, <1>5, MemtableInvariant, PTL DEF MCSpec, Spec
=============================================================================
