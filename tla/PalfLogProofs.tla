--------------------------- MODULE PalfLogProofs ---------------------------
(***************************************************************************)
(* Proofs about PalfLog, and about the walk of replay_ls over it, for all  *)
(* block, header, buffer and payload sizes.                                *)
(***************************************************************************)
EXTENDS PalfLog, TLAPS

\* The two faults the theorems exclude: a write cut short inside a header, and
\* load(), which drops a log of one block.
NoTornHeader == \A n \in ShortWrites : n = 0 \/ n >= HeaderSize
InitOnly == "load" \notin Openers

\* A cell's value after LogStorage::append wrote n cells of entry u at l.
LEMMA WrittenCells ==
  ASSUME NEW l, NEW u, NEW n, NEW a \in Addr
  PROVE  Written(l, u, n)[a] =
           IF a >= l /\ a < l + n /\ lsn_2_offset(l) + (a - l) < BlockSize
           THEN [uid |-> u, pos |-> a - l] ELSE cells[a]
  BY DEF Written

\* Offsets and block ids are naturals.
LEMMA OffsetNat ==
  ASSUME NEW l \in Nat
  PROVE  lsn_2_offset(l) \in Nat /\ lsn_2_block(l) \in Nat
  BY PalfConstants DEF lsn_2_offset, lsn_2_block

\* Appends only lengthen block files.
LEMMA ExtendedType ==
  ASSUME TypeOK, NEW l \in Nat, NEW n \in Nat
  PROVE  /\ DOMAIN Extended(l, n) = DOMAIN eof \cup {lsn_2_block(l)}
         /\ \A b \in DOMAIN Extended(l, n) : Extended(l, n)[b] \in Nat
         /\ \A b \in DOMAIN eof : Extended(l, n)[b] >= eof[b]
         /\ DOMAIN Extended(l, n) \subseteq Nat
  <1>1. lsn_2_offset(l) \in Nat /\ lsn_2_block(l) \in Nat
    BY OffsetNat
  <1>2. DOMAIN Extended(l, n) = DOMAIN eof \cup {lsn_2_block(l)}
    BY DEF Extended
  <1>3. DOMAIN Extended(l, n) \subseteq Nat
    BY <1>1, <1>2 DEF TypeOK
  <1>4. ASSUME NEW b \in DOMAIN eof \cup {lsn_2_block(l)}, b # lsn_2_block(l)
        PROVE  Extended(l, n)[b] = eof[b] /\ eof[b] \in Nat
    BY <1>4 DEF Extended, TypeOK
  <1>5. /\ Extended(l, n)[lsn_2_block(l)] \in Nat
        /\ lsn_2_block(l) \in DOMAIN eof =>
             Extended(l, n)[lsn_2_block(l)] >= eof[lsn_2_block(l)]
    <2> DEFINE old == IF lsn_2_block(l) \in DOMAIN eof THEN eof[lsn_2_block(l)] ELSE 0
    <2>1. old \in Nat
      BY DEF TypeOK
    <2>2. Extended(l, n)[lsn_2_block(l)] =
            IF n = 0 THEN old ELSE Larger(old, Smaller(BlockSize, lsn_2_offset(l) + n))
      BY DEF Extended
    <2> HIDE DEF old
    <2>3. Extended(l, n)[lsn_2_block(l)] \in Nat /\ Extended(l, n)[lsn_2_block(l)] >= old
      BY <1>1, <2>1, <2>2, PalfConstants DEF Smaller, Larger
    <2>4. QED
      BY <2>3 DEF old
  <1>6. QED
    BY <1>2, <1>3, <1>4, <1>5 DEF TypeOK

\* The header of the entry just written is covered by its block file.
LEMMA ExtendedCovers ==
  ASSUME TypeOK, NEW l \in Nat, NEW n \in Nat, n >= HeaderSize,
         lsn_2_offset(l) + HeaderSize <= BlockSize
  PROVE  lsn_2_offset(l) + HeaderSize <= Extended(l, n)[lsn_2_block(l)]
  <1>1. lsn_2_offset(l) \in Nat /\ lsn_2_block(l) \in Nat
    BY OffsetNat
  <1>2. QED
    BY <1>1, PalfConstants DEF Extended, TypeOK, Smaller, Larger

\* What a readable header says is an LSN.
LEMMA CommittedEndType ==
  ASSUME TypeOK, NEW l \in Lsn
  PROVE  CommittedEnd(l) \in Lsn
  <1>1. l + HeaderSize - 1 \in Addr
    BY PalfConstants DEF Lsn, Addr
  <1>2. cells[l + HeaderSize - 1] \in [uid : 0 .. Len(appends), pos : Nat]
    BY <1>1 DEF TypeOK
  <1>3. \A i \in 1 .. Len(appends) : appends[i].end \in Lsn
    <2>1. \A i \in 1 .. Len(appends) : appends[i] \in EntryType
      BY DEF TypeOK
    <2>2. QED
      BY <2>1 DEF EntryType
  <1>4. 0 \in Lsn
    BY PalfConstants DEF Lsn
  <1>5. Len(appends) \in Nat
    BY DEF TypeOK
  <1>6. QED
    BY <1>2, <1>3, <1>4, <1>5 DEF CommittedEnd

\* A call of do_append_ adds one entry, allocated at max_lsn_, to the history.
LEMMA AllocateStep ==
  ASSUME TypeOK, NEW p \in PayloadSizes, NEW ok \in BOOLEAN, Allocate(p, ok)
  PROVE  /\ appends' \in Seq(EntryType)
         /\ Len(appends') = Len(appends) + 1
         /\ Len(appends) \in Nat
         /\ \A i \in 1 .. Len(appends) : appends'[i] = appends[i]
         /\ appends'[Len(appends) + 1] = Entry(p, ok)
         /\ DOMAIN appends = 1 .. Len(appends)
         /\ DOMAIN appends' = 1 .. (Len(appends) + 1)
         /\ p \in Nat /\ p > 0
         /\ maxLsn + HeaderSize + p \in Lsn
         /\ logId' \in Nat \ {0}
  <1>1. p \in Nat /\ p > 0
    BY PalfConstants
  <1>2. maxLsn + HeaderSize + p \in Lsn
    BY <1>1, PalfConstants DEF Allocate, TypeOK, Lsn
  <1>3. Entry(p, ok) \in EntryType
    BY <1>1, <1>2, PalfConstants DEF Entry, EntryType, TypeOK
  <1>4. QED
    BY <1>1, <1>2, <1>3 DEF Allocate, TypeOK

\* The cells keep their type when one more entry may own cells.
LEMMA WrittenType ==
  ASSUME TypeOK, NEW l \in Lsn, NEW n \in Nat, Len(appends') = Len(appends) + 1
  PROVE  Written(l, Len(appends) + 1, n) \in [Addr -> [uid : 0 .. Len(appends'), pos : Nat]]
  <1>1. Len(appends) \in Nat
    BY DEF TypeOK
  <1>2. Addr \subseteq Nat /\ Lsn \subseteq Nat
    BY PalfConstants DEF Addr, Lsn
  <1>3. ASSUME NEW a \in Addr
        PROVE  Written(l, Len(appends) + 1, n)[a] \in [uid : 0 .. Len(appends'), pos : Nat]
    <2>1. cells[a] \in [uid : 0 .. Len(appends), pos : Nat]
      BY DEF TypeOK
    <2>2. cells[a] \in [uid : 0 .. Len(appends'), pos : Nat]
      BY <2>1, <1>1
    <2>3. a >= l => a - l \in Nat
      BY <1>2
    <2>4. Len(appends) + 1 \in 0 .. Len(appends')
      BY <1>1
    <2>5. CASE a >= l /\ a < l + n /\ lsn_2_offset(l) + (a - l) < BlockSize
      BY <2>3, <2>4, <2>5 DEF Written
    <2>6. CASE ~(a >= l /\ a < l + n /\ lsn_2_offset(l) + (a - l) < BlockSize)
      <3>1. Written(l, Len(appends) + 1, n)[a] = cells[a]
        BY <2>6 DEF Written
      <3>2. QED
        BY <2>2, <3>1
    <2>7. QED
      BY <2>5, <2>6
  <1>4. Written(l, Len(appends) + 1, n) = [a \in Addr |-> Written(l, Len(appends) + 1, n)[a]]
    BY DEF Written
  <1>5. QED
    BY <1>3, <1>4

\* Every step of the log stream keeps the types of its state.
THEOREM TypeCorrect == Spec => []TypeOK
  <1>1. Init => TypeOK
    <2> SUFFICES ASSUME Init PROVE TypeOK
      OBVIOUS
    <2>1. appends = <<>> /\ Len(appends) = 0 /\ appends \in Seq(EntryType)
      BY DEF Init
    <2>2. cells \in [Addr -> [uid : 0 .. Len(appends), pos : Nat]]
      BY <2>1 DEF Init, Blank
    <2>3. DOMAIN eof = {}
      BY DEF Init
    <2>4. QED
      BY <2>1, <2>2, <2>3, PalfConstants DEF Init, TypeOK, Lsn, NoBlock
  <1>2. TypeOK /\ [Next]_vars => TypeOK'
    <2> SUFFICES ASSUME TypeOK, [Next]_vars PROVE TypeOK'
      OBVIOUS
    <2>0. maxLsn \in Nat /\ Lsn \subseteq Nat
      BY PalfConstants DEF TypeOK, Lsn
    <2>1. ASSUME NEW p \in PayloadSizes, AppendOk(p) PROVE TypeOK'
      <3>1. Allocate(p, TRUE)
        BY <2>1, Zenon DEF AppendOk
      <3>2. HeaderSize + p \in Nat
        BY PalfConstants
      <3>3. cells' \in [Addr -> [uid : 0 .. Len(appends'), pos : Nat]]
        BY <2>1, <3>1, <3>2, AllocateStep, WrittenType, Zenon DEF AppendOk, TypeOK
      <3>4. DOMAIN eof' \subseteq Nat /\ \A b \in DOMAIN eof' : eof'[b] \in Nat
        BY <2>0, <2>1, <3>2, ExtendedType, Zenon DEF AppendOk
      <3>5. curBlock' \in Int
        BY <2>0, <2>1, OffsetNat DEF AppendOk, open_block_
      <3>6. QED
        BY <2>0, <2>1, <3>1, <3>3, <3>4, <3>5, AllocateStep, Zenon DEF AppendOk, Allocate, TypeOK
    <2>2. ASSUME NEW p \in PayloadSizes, NEW n \in ShortWrites, AppendShort(p, n) PROVE TypeOK'
      <3>1. Allocate(p, FALSE)
        BY <2>2, Zenon DEF AppendShort
      <3>2. n \in Nat
        BY PalfConstants
      <3>3. cells' \in [Addr -> [uid : 0 .. Len(appends'), pos : Nat]]
        BY <2>2, <3>1, <3>2, AllocateStep, WrittenType, Zenon DEF AppendShort, TypeOK
      <3>4. DOMAIN eof' \subseteq Nat /\ \A b \in DOMAIN eof' : eof'[b] \in Nat
        BY <2>0, <2>2, <3>2, ExtendedType, Zenon DEF AppendShort
      <3>5. curBlock' \in Int
        BY <2>0, <2>2, OffsetNat DEF AppendShort, open_block_
      <3>6. QED
        BY <2>2, <3>1, <3>3, <3>4, <3>5, AllocateStep, Zenon DEF AppendShort, Allocate, TypeOK
    <2>3. ASSUME NEW p \in PayloadSizes, AppendOpenFails(p) PROVE TypeOK'
      <3>1. Allocate(p, FALSE)
        BY <2>3, Zenon DEF AppendOpenFails
      <3>2. cells' \in [Addr -> [uid : 0 .. Len(appends'), pos : Nat]]
        <4>1. cells' = cells /\ Len(appends') = Len(appends) + 1 /\ Len(appends) \in Nat
          BY <2>3, <3>1, AllocateStep, Zenon DEF AppendOpenFails, disk
        <4>2. 0 .. Len(appends) \subseteq 0 .. Len(appends')
          BY <4>1
        <4>3. [uid : 0 .. Len(appends), pos : Nat] \subseteq [uid : 0 .. Len(appends'), pos : Nat]
          BY <4>2
        <4>4. QED
          BY <4>1, <4>3 DEF TypeOK
      <3>3. curBlock' \in Int /\ UNCHANGED <<eof, endLsn, maxLsn>>
        BY <2>3 DEF AppendOpenFails, disk, NoBlock
      <3>4. UNCHANGED <<state, opener, scanLsn, restarts>>
        BY <3>1 DEF Allocate
      <3>5. QED
        BY <3>1, <3>2, <3>3, <3>4, AllocateStep, Zenon DEF TypeOK
    <2>4. ASSUME NEW o \in Openers, StorageInit(o) PROVE TypeOK'
      <3>1. DOMAIN eof' \subseteq Nat /\ \A b \in DOMAIN eof' : eof'[b] \in Nat
        <4>1. CASE 0 \in DOMAIN eof
          BY <2>4, <4>1 DEF StorageInit, TypeOK
        <4>2. CASE 0 \notin DOMAIN eof
          <5>1. eof' = [b \in DOMAIN eof \cup {0} |-> IF b = 0 THEN BlockSize ELSE eof[b]]
            BY <2>4, <4>2 DEF StorageInit
          <5>2. QED
            BY <5>1, PalfConstants DEF TypeOK
        <4>3. QED
          BY <4>1, <4>2
      <3>2. curBlock' \in Int
        BY <2>4 DEF StorageInit, TypeOK
      <3>3. scanLsn' \in Lsn
        BY <2>4, PalfConstants DEF StorageInit, Lsn
      <3>4. UNCHANGED <<cells, endLsn, maxLsn, logId, appends, restarts>>
            /\ state' = "scan" /\ opener' = o
        BY <2>4 DEF StorageInit, handle
      <3>5. QED
        BY <3>1, <3>2, <3>3, <3>4 DEF TypeOK
    <2>5. CASE ScanStep
      BY <2>5, CommittedEndType DEF ScanStep, TypeOK, disk, handle
    <2>6. CASE ScanStop
      <3>1. CommittedEnd(scanLsn) \in Lsn /\ scanLsn \in Lsn
        BY CommittedEndType DEF TypeOK
      <3>2. LastValid \in Lsn /\ 0 \in Lsn
        BY <3>1, PalfConstants DEF LastValid, Lsn
      <3>3. QED
        BY <2>0, <2>6, <3>2 DEF ScanStop, TypeOK, disk
    <2>7. ASSUME NEW l \in SeekTargets, seek(l) PROVE TypeOK'
      BY <2>7, PalfConstants DEF seek, TypeOK, disk
    <2>8. CASE Stop
      BY <2>8 DEF Stop, TypeOK, disk, handle, NoBlock
    <2>9. CASE UNCHANGED vars
      BY <2>9 DEF vars, TypeOK
    <2>10. QED
      BY <2>1, <2>2, <2>3, <2>4, <2>5, <2>6, <2>7, <2>8, <2>9 DEF Next, PalfAppend, PalfOpen
  <1>3. QED
    BY <1>1, <1>2, PTL DEF Spec
-----------------------------------------------------------------------------
\* A complete header at a is what the recovery scan needs: one read returns it,
\* and it leads behind itself.
LEMMA HeaderLeadsOn ==
  ASSUME TypeOK, NEW a \in Lsn, is_valid(a), WholeHeader(a)
  PROVE  /\ HeaderReadable(a)
         /\ cells[a].uid \in DOMAIN appends
         /\ CommittedEnd(a) = appends[cells[a].uid].end
         /\ CommittedEnd(a) > a
         /\ CommittedEnd(a) \in Lsn
  <1>1. a \in Nat /\ a \in Addr
    BY PalfConstants DEF Lsn, Addr
  <1>2. cells[a].uid \in 0 .. Len(appends) /\ DOMAIN appends = 1 .. Len(appends)
        /\ Len(appends) \in Nat
    BY <1>1 DEF TypeOK
  <1>3. cells[a].uid \in DOMAIN appends
    BY <1>2 DEF is_valid
  <1>4. CommittedEnd(a) = appends[cells[a].uid].end
    BY <1>3 DEF CommittedEnd, WholeHeader, is_valid
  <1>5. CommittedEnd(a) \in Lsn
    BY CommittedEndType
  <1>6. CommittedEnd(a) > a
    BY <1>1, <1>4, <1>5, PalfConstants DEF WholeHeader, Lsn
  <1>7. ReadLen(a) >= HeaderSize
    <2>1. lsn_2_offset(a) \in Nat /\ eof[lsn_2_block(a)] \in Nat
      BY <1>1, OffsetNat DEF TypeOK, WholeHeader
    <2>2. QED
      BY <2>1, PalfConstants DEF ReadLen, Smaller, WholeHeader
  <1>8. QED
    BY <1>3, <1>4, <1>5, <1>6, <1>7 DEF HeaderReadable

\* A step that keeps the cells below max_lsn_, shortens no file, rewrites no
\* history and does not lower max_lsn_.
KeepsLog ==
  /\ \A b \in DOMAIN eof : b \in DOMAIN eof' /\ eof'[b] >= eof[b]
  /\ \A a \in Addr : a < maxLsn => cells'[a] = cells[a]
  /\ \A i \in DOMAIN appends : i \in DOMAIN appends' /\ appends'[i] = appends[i]
  /\ maxLsn' >= maxLsn

\* And after which no header starts behind the old max_lsn_.
GrowsAtEnd == KeepsLog /\ \A a \in Addr : a > maxLsn => ~is_valid(a)'

\* Such a step keeps the headers below max_lsn_ and the acknowledged entries.
LEMMA LogKept ==
  ASSUME TypeOK, TypeOK', HeaderChain, AckedDurable, KeepsLog
  PROVE  /\ \A a \in Lsn : a < maxLsn =>
              /\ is_valid(a)' = is_valid(a)
              /\ is_valid(a) => /\ WholeHeader(a)'
                                /\ cells'[a] = cells[a]
                                /\ appends'[cells[a].uid] = appends[cells[a].uid]
         /\ \A i \in DOMAIN appends : appends[i].ok => OnDisk(i)'
  <1>0. Lsn \subseteq Nat /\ Lsn \subseteq Addr /\ Addr \subseteq Nat
    BY PalfConstants DEF Lsn, Addr
  <1>1. ASSUME NEW a \in Lsn, a < maxLsn
        PROVE  /\ is_valid(a)' = is_valid(a)
               /\ is_valid(a) => /\ WholeHeader(a)'
                                 /\ cells'[a] = cells[a]
                                 /\ appends'[cells[a].uid] = appends[cells[a].uid]
    <2>1. cells'[a] = cells[a]
      BY <1>0, <1>1 DEF KeepsLog
    <2>2. ASSUME is_valid(a)
          PROVE  WholeHeader(a)' /\ appends'[cells[a].uid] = appends[cells[a].uid]
      <3>1. maxLsn \in Nat
        BY <1>0 DEF TypeOK
      <3>2. WholeHeader(a)
        BY <1>0, <1>1, <2>2, <3>1 DEF HeaderChain
      <3>3. cells[a].uid \in DOMAIN appends
        BY <2>2, <3>2, HeaderLeadsOn
      <3>4. appends'[cells[a].uid] = appends[cells[a].uid]
        BY <3>3 DEF KeepsLog
      <3>5. appends[cells[a].uid].end \in Lsn
        BY <2>2, <3>2, HeaderLeadsOn
      <3>6. appends[cells[a].uid].end <= maxLsn
        <4>1. appends[cells[a].uid].end = maxLsn \/ appends[cells[a].uid].end < maxLsn
          BY <1>1, <2>2 DEF HeaderChain
        <4>2. appends[cells[a].uid].end \in Nat
          BY <1>0, <3>5, Zenon
        <4>3. QED
          BY <3>1, <4>1, <4>2
      <3>7. a + HeaderSize - 1 \in Addr /\ a + HeaderSize - 1 < maxLsn
        BY <1>0, <1>1, <3>1, <3>2, <3>5, <3>6, PalfConstants DEF WholeHeader, Lsn, Addr
      <3>8. cells'[a + HeaderSize - 1] = cells[a + HeaderSize - 1]
        BY <3>7 DEF KeepsLog
      <3>9. lsn_2_block(a) \in DOMAIN eof' /\ lsn_2_offset(a) + HeaderSize <= eof'[lsn_2_block(a)]
        <4>1. lsn_2_offset(a) \in Nat
          BY <1>0, OffsetNat
        <4>2. /\ lsn_2_block(a) \in DOMAIN eof'
              /\ eof'[lsn_2_block(a)] >= eof[lsn_2_block(a)]
              /\ eof[lsn_2_block(a)] \in Nat /\ eof'[lsn_2_block(a)] \in Nat
          BY <3>2 DEF WholeHeader, KeepsLog, TypeOK
        <4>3. QED
          BY <3>2, <4>1, <4>2, PalfConstants DEF WholeHeader
      <3>10. QED
        BY <2>1, <3>2, <3>4, <3>8, <3>9 DEF WholeHeader
    <2>3. QED
      BY <2>1, <2>2 DEF is_valid
  <1>2. ASSUME NEW i \in DOMAIN appends, appends[i].ok
        PROVE  OnDisk(i)'
    <2>1. OnDisk(i) /\ appends'[i] = appends[i] /\ maxLsn' >= maxLsn
      BY <1>2 DEF AckedDurable, KeepsLog
    <2>2. appends[i].lsn \in Nat /\ appends[i].end \in Nat /\ maxLsn \in Nat /\ maxLsn' \in Nat
      <3>1. appends[i] \in EntryType
        BY DEF TypeOK
      <3>2. QED
        BY <1>0, <3>1, Zenon DEF EntryType, TypeOK
    <2>3. ASSUME NEW a \in Addr, a >= appends[i].lsn, a < appends[i].end,
                 lsn_2_offset(appends[i].lsn) + (a - appends[i].lsn) < BlockSize
          PROVE  cells'[a] = [uid |-> i, pos |-> a - appends[i].lsn]
      <3>1. cells[a] = [uid |-> i, pos |-> a - appends[i].lsn]
        BY <2>1, <2>3 DEF OnDisk
      <3>2. a < maxLsn
        BY <1>0, <2>1, <2>2, <2>3 DEF OnDisk
      <3>3. QED
        BY <3>1, <3>2 DEF KeepsLog
    <2>4. ReadLen(appends[i].lsn)' >= HeaderSize
      <3> DEFINE l == appends[i].lsn
      <3>1. lsn_2_block(l) \in DOMAIN eof
        BY <2>1, PalfConstants DEF OnDisk, ReadLen
      <3>2. /\ lsn_2_block(l) \in DOMAIN eof'
            /\ eof'[lsn_2_block(l)] >= eof[lsn_2_block(l)]
            /\ eof[lsn_2_block(l)] \in Nat /\ eof'[lsn_2_block(l)] \in Nat
        BY <3>1 DEF KeepsLog, TypeOK
      <3>3. lsn_2_offset(l) \in Nat
        BY <2>2, OffsetNat
      <3>4. Smaller(ReadBufSize, eof[lsn_2_block(l)] - lsn_2_offset(l)) >= HeaderSize
        BY <2>1, <3>1 DEF OnDisk, ReadLen
      <3> HIDE DEF l
      <3>5. Smaller(ReadBufSize, eof'[lsn_2_block(l)] - lsn_2_offset(l)) >= HeaderSize
        BY <3>2, <3>3, <3>4, PalfConstants DEF Smaller
      <3>6. QED
        BY <2>1, <3>2, <3>5 DEF ReadLen, l
    <2>5. QED
      BY <2>1, <2>2, <2>3, <2>4 DEF OnDisk
  <1>3. QED
    BY <1>1, <1>2
-----------------------------------------------------------------------------
\* Headers that fit the grown history fit the history before.
LEMMA FitsBefore ==
  ASSUME HeadersFit',
         \A i \in DOMAIN appends : i \in DOMAIN appends' /\ appends'[i] = appends[i]
  PROVE  HeadersFit
  BY DEF HeadersFit

\* do_append_ reaching LogStorage::append at m, n cells of the entry getting to
\* disk: no file shrinks, nothing below m changes, no header appears behind m, and
\* the header at m is complete if there is one.
LEMMA WriteStep ==
  ASSUME TypeOK, HeaderChain, HeadersFit', NEW p \in PayloadSizes, NEW ok \in BOOLEAN,
         Allocate(p, ok), NEW m \in Lsn, m = maxLsn,
         NEW n \in Nat, n = 0 \/ n >= HeaderSize,
         cells' = Written(m, Len(appends) + 1, n), eof' = Extended(m, n)
  PROVE  /\ \A b \in DOMAIN eof : b \in DOMAIN eof' /\ eof'[b] >= eof[b]
         /\ \A a \in Addr : a < m => cells'[a] = cells[a]
         /\ \A a \in Addr : a > m => ~is_valid(a)'
         /\ is_valid(m)' => WholeHeader(m)'
         /\ n >= HeaderSize => is_valid(m)' /\ cells'[m].uid = Len(appends) + 1
  <1> DEFINE u == Len(appends) + 1
  <1>0. /\ Lsn \subseteq Nat /\ Lsn \subseteq Addr /\ Addr \subseteq Nat
        /\ m \in Nat /\ m \in Addr /\ u \in Nat /\ u # 0
    BY PalfConstants DEF Lsn, Addr, TypeOK
  <1>1. lsn_2_offset(m) \in Nat /\ lsn_2_block(m) \in Nat
    BY <1>0, OffsetNat
  <1>2. /\ appends'[u] = Entry(p, ok) /\ u \in DOMAIN appends' /\ p \in Nat
        /\ \A i \in DOMAIN appends : appends'[i] = appends[i]
    BY AllocateStep
  <1>3. appends'[u].lsn = m /\ appends'[u].end = m + HeaderSize + p
    BY <1>2 DEF Entry
  <1>4. lsn_2_offset(m) + HeaderSize <= BlockSize
    BY <1>2, <1>3 DEF HeadersFit
  <1>5. \A b \in DOMAIN eof : b \in DOMAIN eof' /\ eof'[b] >= eof[b]
    <2>1. /\ DOMAIN Extended(m, n) = DOMAIN eof \cup {lsn_2_block(m)}
          /\ \A b \in DOMAIN eof : Extended(m, n)[b] >= eof[b]
      BY <1>0, ExtendedType, Zenon
    <2>2. QED
      BY <2>1
  <1>6. \A a \in Addr : a < m => cells'[a] = cells[a]
    BY <1>0 DEF Written
  <1>7. ASSUME NEW a \in Addr, a > m PROVE ~is_valid(a)'
    <2>1. CASE a < m + n /\ lsn_2_offset(m) + (a - m) < BlockSize
      <3>1. cells'[a] = [uid |-> u, pos |-> a - m] /\ a - m # 0
        BY <1>0, <1>7, <2>1 DEF Written
      <3>2. QED
        BY <3>1 DEF is_valid
    <2>2. CASE ~(a < m + n /\ lsn_2_offset(m) + (a - m) < BlockSize)
      <3>1. cells'[a] = cells[a] /\ ~is_valid(a)
        BY <1>7, <2>2 DEF Written, HeaderChain
      <3>2. QED
        BY <3>1 DEF is_valid
    <2>3. QED
      BY <2>1, <2>2
  <1>8. CASE n >= HeaderSize
    <2>1. cells'[m] = [uid |-> u, pos |-> 0]
      <3>1. /\ m < m + n /\ lsn_2_offset(m) + (m - m) < BlockSize
            /\ m - m = 0 /\ m >= m
        BY <1>0, <1>1, <1>4, <1>8, PalfConstants
      <3>2. QED
        BY <1>0, <3>1 DEF Written
    <2>2. cells'[m + HeaderSize - 1] = [uid |-> u, pos |-> HeaderSize - 1]
      <3> DEFINE h == m + HeaderSize - 1
      <3>1. /\ h \in Addr /\ h >= m /\ h < m + n /\ h - m = HeaderSize - 1
            /\ lsn_2_offset(m) + (h - m) < BlockSize
        BY <1>0, <1>1, <1>4, <1>8, PalfConstants DEF Addr, Lsn
      <3> HIDE DEF h
      <3>2. cells'[h] = [uid |-> u, pos |-> h - m]
        BY <3>1 DEF Written
      <3>3. QED
        BY <3>1, <3>2 DEF h
    <2>3. is_valid(m)' /\ cells'[m].uid = u
      BY <1>0, <2>1 DEF is_valid
    <2>4. /\ lsn_2_block(m) \in DOMAIN eof'
          /\ lsn_2_offset(m) + HeaderSize <= eof'[lsn_2_block(m)]
      <3>1. DOMAIN eof' = DOMAIN eof \cup {lsn_2_block(m)}
        BY <1>0, ExtendedType, Zenon
      <3>2. lsn_2_offset(m) + HeaderSize <= Extended(m, n)[lsn_2_block(m)]
        BY <1>0, <1>4, <1>8, ExtendedCovers
      <3>3. QED
        BY <3>1, <3>2
    <2>5. appends'[u].end >= m + HeaderSize
      BY <1>0, <1>2, <1>3, PalfConstants
    <2>6. WholeHeader(m)'
      BY <1>3, <2>2, <2>3, <2>4, <2>5 DEF WholeHeader
    <2>7. QED
      BY <1>5, <1>6, <1>7, <2>3, <2>6
  <1>9. CASE n = 0
    <2>1. ASSUME NEW a \in Addr PROVE cells'[a] = cells[a]
      <3>1. ~(a >= m /\ a < m + n)
        BY <1>0, <1>9
      <3>2. QED
        BY <3>1 DEF Written
    <2>2. ASSUME is_valid(m)' PROVE WholeHeader(m)'
      <3>1. is_valid(m) /\ cells'[m] = cells[m]
        BY <1>0, <2>1, <2>2 DEF is_valid
      <3>2. WholeHeader(m)
        <4>1. m <= maxLsn
          BY <1>0
        <4>2. QED
          BY <3>1, <4>1 DEF HeaderChain
      <3>3. cells[m].uid \in DOMAIN appends
        BY <3>1, <3>2, HeaderLeadsOn
      <3>4. appends'[cells[m].uid] = appends[cells[m].uid]
        BY <1>2, <3>3
      <3>5. m + HeaderSize - 1 \in Addr
        BY <1>0, PalfConstants DEF Addr, Lsn
      <3>6. /\ lsn_2_block(m) \in DOMAIN eof'
            /\ lsn_2_offset(m) + HeaderSize <= eof'[lsn_2_block(m)]
        <4>1. /\ lsn_2_block(m) \in DOMAIN eof'
              /\ eof'[lsn_2_block(m)] >= eof[lsn_2_block(m)]
              /\ eof[lsn_2_block(m)] \in Nat /\ eof'[lsn_2_block(m)] \in Nat
          BY <1>0, <1>5, <3>2, ExtendedType, Zenon DEF WholeHeader, TypeOK
        <4>2. QED
          BY <1>1, <3>2, <4>1, PalfConstants, SMTT(90) DEF WholeHeader
      <3>7. QED
        BY <2>1, <3>1, <3>2, <3>4, <3>5, <3>6 DEF WholeHeader
    <2>3. ~(n >= HeaderSize)
      BY <1>9, PalfConstants
    <2>4. QED
      BY <1>5, <1>6, <1>7, <2>2, <2>3
  <1>10. QED
    BY <1>8, <1>9
\* A step that keeps the log and max_lsn_, and leaves a complete header or none at
\* max_lsn_ and none behind it, keeps the chain of headers.
LEMMA SameTail ==
  ASSUME TypeOK, TypeOK', HeaderChain, AckedDurable, KeepsLog,
         NEW m \in Lsn, m = maxLsn, maxLsn' = m,
         \A a \in Addr : a > m => ~is_valid(a)',
         is_valid(m)' => WholeHeader(m)'
  PROVE  HeaderChain'
  <1>0. Lsn \subseteq Nat /\ Lsn \subseteq Addr /\ 0 \in Lsn /\ m \in Nat
    BY PalfConstants DEF Lsn, Addr
  <1>1. m = 0 \/ is_valid(0)'
    BY <1>0, LogKept DEF HeaderChain
  <1>2. ASSUME NEW a \in Lsn, a <= m, is_valid(a)' PROVE WholeHeader(a)'
    <2>1. CASE a = m
      BY <1>2, <2>1
    <2>2. CASE a < m
      BY <1>2, <2>2, LogKept
    <2>3. QED
      BY <1>0, <1>2, <2>1, <2>2
  <1>3. ASSUME NEW a \in Lsn, a < m, is_valid(a)'
        PROVE  (LET e == appends[cells[a].uid].end
                IN e = maxLsn \/ (e < maxLsn /\ is_valid(e)))'
    <2>1. is_valid(a) /\ cells'[a] = cells[a] /\ appends'[cells[a].uid] = appends[cells[a].uid]
      BY <1>3, LogKept
    <2>2. a <= m
      BY <1>0, <1>3
    <2>3. appends[cells[a].uid].end \in Lsn
      BY <2>1, <2>2, HeaderLeadsOn DEF HeaderChain
    <2>4. PICK e \in Lsn : e = appends[cells[a].uid].end
      BY <2>3, Zenon
    <2>5. e = m \/ (e < m /\ is_valid(e))
      BY <1>3, <2>1, <2>4 DEF HeaderChain
    <2>6. e = m \/ (e < m /\ is_valid(e)')
      BY <2>5, LogKept
    <2>7. appends'[cells'[a].uid].end = e
      BY <2>1, <2>4
    <2>8. QED
      BY <2>6, <2>7 DEF is_valid
  <1>4. QED
    BY <1>1, <1>2, <1>3 DEF HeaderChain
\* A step that moves max_lsn_ from m over one complete entry at m keeps the chain.
LEMMA LongerTail ==
  ASSUME TypeOK, TypeOK', HeaderChain, AckedDurable, KeepsLog,
         NEW m \in Lsn, m = maxLsn, maxLsn' > m,
         \A a \in Addr : a > m => ~is_valid(a)',
         is_valid(m)', WholeHeader(m)', appends'[cells'[m].uid].end = maxLsn'
  PROVE  HeaderChain'
  <1>0. /\ Lsn \subseteq Nat /\ Lsn \subseteq Addr /\ Addr \subseteq Nat
        /\ 0 \in Lsn /\ m \in Nat /\ maxLsn' \in Nat
    BY PalfConstants DEF Lsn, Addr, TypeOK
  <1>1. is_valid(0)'
    <2>1. CASE m = 0
      BY <2>1
    <2>2. CASE m # 0
      BY <1>0, <2>2, LogKept DEF HeaderChain
    <2>3. QED
      BY <2>1, <2>2
  <1>2. ASSUME NEW a \in Lsn, is_valid(a)' PROVE WholeHeader(a)' /\ a <= m
    <2>1. CASE a = m
      BY <1>0, <1>2, <2>1
    <2>2. CASE a < m
      BY <1>0, <1>2, <2>2, LogKept
    <2>3. CASE a > m
      BY <1>0, <1>2, <2>3
    <2>4. QED
      BY <1>0, <2>1, <2>2, <2>3
  <1>3. ASSUME NEW a \in Lsn, is_valid(a)'
        PROVE  (LET e == appends[cells[a].uid].end
                IN e = maxLsn \/ (e < maxLsn /\ is_valid(e)))'
    <2>1. CASE a = m
      BY <2>1
    <2>2. CASE a < m
      <3>1. is_valid(a) /\ cells'[a] = cells[a] /\ appends'[cells[a].uid] = appends[cells[a].uid]
        BY <1>3, <2>2, LogKept
      <3>2. a <= m
        BY <1>0, <2>2
      <3>3. appends[cells[a].uid].end \in Lsn
        BY <3>1, <3>2, HeaderLeadsOn DEF HeaderChain
      <3>4. PICK e \in Lsn : e = appends[cells[a].uid].end
        BY <3>3, Zenon
      <3>5. e = m \/ (e < m /\ is_valid(e))
        BY <2>2, <3>1, <3>4, Zenon DEF HeaderChain
      <3>6. is_valid(e)'
        BY <3>5, LogKept
      <3>7. e < maxLsn'
        BY <1>0, <3>5
      <3>8. appends'[cells'[a].uid].end = e
        BY <3>1, <3>4
      <3>9. QED
        BY <3>6, <3>7, <3>8 DEF is_valid
    <2>3. QED
      BY <1>0, <1>2, <1>3, <2>1, <2>2
  <1>4. ASSUME NEW a \in Addr, a > maxLsn' PROVE ~is_valid(a)'
    <2>1. a \in Nat
      BY <1>0
    <2>2. a > m
      BY <1>0, <1>4, <2>1
    <2>3. QED
      BY <2>2
  <1>5. QED
    BY <1>1, <1>2, <1>3, <1>4 DEF HeaderChain
-----------------------------------------------------------------------------
\* No step rewrites the history of append calls.
LEMMA HistoryKept ==
  ASSUME TypeOK, [Next]_vars
  PROVE  \A i \in DOMAIN appends : i \in DOMAIN appends' /\ appends'[i] = appends[i]
  <1>1. ASSUME NEW p \in PayloadSizes, NEW ok \in BOOLEAN, Allocate(p, ok)
        PROVE  \A i \in DOMAIN appends : i \in DOMAIN appends' /\ appends'[i] = appends[i]
    BY <1>1, AllocateStep
  <1>2. CASE PalfAppend
    <2>1. PICK p \in PayloadSizes : Allocate(p, TRUE) \/ Allocate(p, FALSE)
      BY <1>2, Zenon DEF PalfAppend, AppendOk, AppendShort, AppendOpenFails
    <2>2. QED
      BY <1>1, <2>1, Zenon
  <1>3. CASE ~PalfAppend
    <2>1. appends' = appends
      BY <1>3 DEF Next, vars, PalfOpen, StorageInit, ScanStep, ScanStop, seek, Stop
    <2>2. QED
      BY <2>1
  <1>4. QED
    BY <1>2, <1>3

LEMMA NotLast ==
  ASSUME NEW n \in Nat, NEW u, u = n + 1, NEW i \in 1 .. u, i # u
  PROVE  i \in 1 .. n
BY SMTT(90)

\* An append that succeeds lengthens the chain and is on disk.
LEMMA AppendOkStep ==
  ASSUME TypeOK, TypeOK', HeaderChain, AckedDurable, HeadersFit',
         NEW p \in PayloadSizes, AppendOk(p)
  PROVE  HeaderChain' /\ ScanOnChain' /\ AckedDurable' /\ GrowsAtEnd
  <1> DEFINE n == HeaderSize + p
  <1>u. PICK u \in Nat : u = Len(appends) + 1
    BY DEF TypeOK
  <1>0. PICK m \in Lsn : m = maxLsn
    BY DEF TypeOK
  <1>1. /\ Allocate(p, TRUE) /\ cells' = Written(m, u, n) /\ eof' = Extended(m, n)
        /\ maxLsn' = m + HeaderSize + p /\ state' = "up"
    BY <1>0, <1>u DEF AppendOk, Allocate
  <1>2. /\ appends'[u] = Entry(p, TRUE)
        /\ DOMAIN appends = 1 .. Len(appends) /\ DOMAIN appends' = 1 .. u
        /\ Len(appends) \in Nat /\ p \in Nat
        /\ \A i \in 1 .. Len(appends) : appends'[i] = appends[i]
    BY <1>1, <1>u, AllocateStep, Zenon
  <1>3. /\ m \in Nat /\ n \in Nat /\ n >= HeaderSize /\ maxLsn' > m /\ Lsn \subseteq Nat
        /\ appends'[u].lsn = m /\ appends'[u].end = maxLsn'
    BY <1>0, <1>1, <1>2, PalfConstants DEF Lsn, Entry
  <1> HIDE DEF n
  <1>4. /\ \A b \in DOMAIN eof : b \in DOMAIN eof' /\ eof'[b] >= eof[b]
        /\ \A a \in Addr : a < m => cells'[a] = cells[a]
        /\ \A a \in Addr : a > m => ~is_valid(a)'
        /\ is_valid(m)' /\ WholeHeader(m)' /\ cells'[m].uid = u
    BY <1>0, <1>1, <1>3, <1>u, WriteStep, Zenon
  <1>5. \A i \in DOMAIN appends : i \in DOMAIN appends' /\ appends'[i] = appends[i]
    BY <1>2, <1>u
  <1>6. maxLsn' >= maxLsn
    BY <1>0, <1>1, <1>2, <1>3, PalfConstants
  <1>7. KeepsLog
    BY <1>0, <1>4, <1>5, <1>6 DEF KeepsLog
  <1>8. HeaderChain'
    BY <1>0, <1>3, <1>4, <1>7, LongerTail
  <1>9. OnDisk(u)'
    <2>1. ASSUME NEW a \in Addr, a >= m, a < maxLsn', lsn_2_offset(m) + (a - m) < BlockSize
          PROVE  cells'[a] = [uid |-> u, pos |-> a - m]
      <3>1. m + HeaderSize + p = m + n
        BY <1>2, <1>3, PalfConstants DEF n
      <3>2. a < m + n
        BY <1>1, <2>1, <3>1
      <3>3. QED
        BY <1>1, <2>1, <3>2 DEF Written
    <2>2. ReadLen(m)' >= HeaderSize
      <3>1. lsn_2_offset(m) \in Nat /\ lsn_2_block(m) \in DOMAIN eof' /\ eof'[lsn_2_block(m)] \in Nat
        BY <1>3, <1>4, OffsetNat, Zenon DEF WholeHeader, TypeOK
      <3>2. QED
        BY <1>4, <3>1, PalfConstants DEF ReadLen, Smaller, WholeHeader
    <2>3. ReadLen(appends[u].lsn)' >= HeaderSize
      BY <1>3, <2>2 DEF ReadLen
    <2>4. appends'[u].end <= maxLsn'
      <3>1. maxLsn' \in Nat
        BY <1>3, Zenon DEF TypeOK
      <3>2. QED
        BY <1>3, <3>1
    <2>5. QED
      BY <1>3, <2>1, <2>3, <2>4 DEF OnDisk
  <1>10. AckedDurable'
    <2>1. ASSUME NEW i \in DOMAIN appends', appends'[i].ok PROVE OnDisk(i)'
      <3>1. CASE i = u
        BY <1>9, <3>1
      <3>2. CASE i \in DOMAIN appends
        BY <1>5, <1>7, <2>1, <3>2, LogKept
      <3>3. QED
        BY <1>2, <1>u, <3>1, <3>2
    <2>2. QED
      BY <2>1 DEF AckedDurable
  <1>11. QED
    BY <1>0, <1>1, <1>4, <1>7, <1>8, <1>10, Zenon DEF ScanOnChain, GrowsAtEnd

\* An append that fails leaves the chain as it was, with at most a complete header
\* of its own at max_lsn_.
LEMMA AppendFailsStep ==
  ASSUME NoTornHeader, TypeOK, TypeOK', HeaderChain, AckedDurable, HeadersFit',
         NEW p \in PayloadSizes,
         AppendOpenFails(p) \/ \E n \in ShortWrites : AppendShort(p, n)
  PROVE  HeaderChain' /\ ScanOnChain' /\ AckedDurable' /\ GrowsAtEnd
  <1>u. PICK u \in Nat : u = Len(appends) + 1
    BY DEF TypeOK
  <1>0. PICK m \in Lsn : m = maxLsn
    BY DEF TypeOK
  <1>1. Allocate(p, FALSE) /\ maxLsn' = m /\ state' = "up"
    BY <1>0, Zenon DEF AppendOpenFails, AppendShort, Allocate
  <1>2. /\ appends'[u] = Entry(p, FALSE)
        /\ DOMAIN appends = 1 .. Len(appends) /\ DOMAIN appends' = 1 .. u
        /\ Len(appends) \in Nat
        /\ \A i \in 1 .. Len(appends) : appends'[i] = appends[i]
    BY <1>1, <1>u, AllocateStep, Zenon
  <1>3. /\ m \in Nat /\ m \in Addr /\ Addr \subseteq Nat
        /\ \A i \in DOMAIN appends : i \in DOMAIN appends' /\ appends'[i] = appends[i]
    BY <1>2, <1>u, PalfConstants DEF Lsn, Addr
  <1>4. /\ \A b \in DOMAIN eof : b \in DOMAIN eof' /\ eof'[b] >= eof[b]
        /\ \A a \in Addr : a < m => cells'[a] = cells[a]
        /\ \A a \in Addr : a > m => ~is_valid(a)'
        /\ is_valid(m)' => WholeHeader(m)'
    <2>1. CASE AppendOpenFails(p)
      <3>1. eof' = eof /\ cells' = cells
        BY <2>1 DEF AppendOpenFails, disk
      <3>2. \A b \in DOMAIN eof : b \in DOMAIN eof' /\ eof'[b] >= eof[b]
        BY <3>1 DEF TypeOK
      <3>3. \A a \in Addr : a > m => ~is_valid(a)'
        BY <1>0, <3>1 DEF HeaderChain, is_valid
      <3>4. ASSUME is_valid(m)' PROVE WholeHeader(m)'
        <4>1. is_valid(m)
          BY <3>1, <3>4 DEF is_valid
        <4>2. WholeHeader(m)
          <5>1. m <= maxLsn
            BY <1>0, <1>3
          <5>2. QED
            BY <4>1, <5>1 DEF HeaderChain
        <4>3. cells[m].uid \in DOMAIN appends
          BY <4>1, <4>2, HeaderLeadsOn
        <4>4. appends'[cells[m].uid] = appends[cells[m].uid]
          BY <1>3, <4>3
        <4>5. QED
          BY <3>1, <4>2, <4>4 DEF WholeHeader
      <3>5. QED
        BY <3>1, <3>2, <3>3, <3>4
    <2>2. CASE \E n \in ShortWrites : AppendShort(p, n)
      <3>1. PICK n \in ShortWrites : AppendShort(p, n)
        BY <2>2
      <3>2. /\ n \in Nat /\ (n = 0 \/ n >= HeaderSize)
            /\ cells' = Written(m, Len(appends) + 1, n) /\ eof' = Extended(m, n)
        BY <1>0, <3>1, PalfConstants DEF NoTornHeader, AppendShort
      <3>3. QED
        BY <1>0, <1>1, <3>2, WriteStep, Zenon
    <2>3. QED
      BY <2>1, <2>2
  <1>5. KeepsLog
    <2>1. maxLsn' >= maxLsn
      BY <1>0, <1>1, <1>3
    <2>2. QED
      BY <1>0, <1>3, <1>4, <2>1 DEF KeepsLog
  <1>6. HeaderChain'
    BY <1>0, <1>1, <1>4, <1>5, SameTail
  <1>7. AckedDurable'
    <2>1. ~appends'[u].ok
      <3>1. Entry(p, FALSE).ok = FALSE
        BY DEF Entry
      <3>2. QED
        BY <1>2, <3>1, Zenon
    <2>2. ASSUME NEW i \in DOMAIN appends', appends'[i].ok PROVE OnDisk(i)'
      <3>1. i \in DOMAIN appends
        <4>1. i # u
          BY <2>1, <2>2
        <4>2. i \in 1 .. u /\ i \in Nat
          BY <1>2
        <4>3. i \in 1 .. Len(appends)
          BY <1>2, <1>u, <4>1, <4>2, NotLast, Zenon
        <4>4. QED
          BY <1>2, <4>3
      <3>2. QED
        BY <1>3, <1>5, <2>2, <3>1, LogKept, Zenon
    <2>3. QED
      BY <2>2, Zenon DEF AckedDurable
  <1>8. QED
    BY <1>0, <1>1, <1>4, <1>5, <1>6, <1>7 DEF ScanOnChain, GrowsAtEnd

\* LogStorage::init starts the scan at LSN 0, the head of the chain.
LEMMA StorageInitStep ==
  ASSUME TypeOK, TypeOK', HeaderChain, AckedDurable, NEW o \in Openers, StorageInit(o)
  PROVE  HeaderChain' /\ ScanOnChain' /\ AckedDurable' /\ GrowsAtEnd
  <1>0. PICK m \in Lsn : m = maxLsn
    BY DEF TypeOK
  <1>1. m \in Nat /\ m \in Addr /\ 0 \in Lsn
    BY PalfConstants DEF Lsn, Addr
  <1>2. UNCHANGED <<cells, appends, maxLsn>> /\ scanLsn' = 0
    BY DEF StorageInit, handle
  <1>3. \A b \in DOMAIN eof : b \in DOMAIN eof' /\ eof'[b] = eof[b]
    BY DEF StorageInit
  <1>4. KeepsLog
    <2>1. \A b \in DOMAIN eof : b \in DOMAIN eof' /\ eof'[b] >= eof[b]
      BY <1>3 DEF TypeOK
    <2>2. maxLsn' >= maxLsn
      BY <1>0, <1>1, <1>2
    <2>3. QED
      BY <1>2, <2>1, <2>2 DEF KeepsLog
  <1>5. \A a \in Addr : a > m => ~is_valid(a)'
    BY <1>0, <1>2 DEF HeaderChain, is_valid
  <1>6. ASSUME is_valid(m)' PROVE WholeHeader(m)'
    <2>1. is_valid(m)
      BY <1>2, <1>6 DEF is_valid
    <2>2. WholeHeader(m)
      BY <1>0, <1>1, <2>1 DEF HeaderChain
    <2>3. QED
      BY <1>2, <1>3, <2>2 DEF WholeHeader
  <1>7. HeaderChain'
    BY <1>0, <1>2, <1>4, <1>5, <1>6, SameTail
  <1>8. AckedDurable'
    BY <1>2, <1>4, LogKept DEF AckedDurable
  <1>9. ScanOnChain'
    <2>1. m = 0 \/ is_valid(0)'
      BY <1>0, <1>2 DEF HeaderChain, is_valid
    <2>2. scanLsn' = maxLsn' \/ (scanLsn' < maxLsn' /\ is_valid(scanLsn)')
      BY <1>0, <1>1, <1>2, <2>1 DEF is_valid
    <2>3. QED
      BY <2>2 DEF ScanOnChain
  <1>10. QED
    BY <1>0, <1>4, <1>5, <1>7, <1>8, <1>9 DEF GrowsAtEnd
\* The chain and the acknowledged entries depend on these four variables only.
LEMMA SameDisk ==
  ASSUME TypeOK, HeaderChain, AckedDurable, UNCHANGED <<eof, cells, appends, maxLsn>>
  PROVE  HeaderChain' /\ AckedDurable' /\ GrowsAtEnd
  <1>1. \A a : is_valid(a)' = is_valid(a)
    BY DEF is_valid
  <1>2. \A a : WholeHeader(a)' = WholeHeader(a)
    BY DEF WholeHeader
  <1>3. \A i : OnDisk(i)' = OnDisk(i)
    BY DEF OnDisk, ReadLen
  <1>4. HeaderChain'
    BY <1>1, <1>2 DEF HeaderChain
  <1>5. AckedDurable'
    BY <1>3 DEF AckedDurable
  <1>6. GrowsAtEnd
    <2>1. maxLsn' >= maxLsn /\ \A b \in DOMAIN eof : eof'[b] >= eof[b]
      BY PalfConstants DEF TypeOK, Lsn
    <2>2. \A a \in Addr : a > maxLsn => ~is_valid(a)'
      BY <1>1 DEF HeaderChain
    <2>3. QED
      BY <2>1, <2>2 DEF GrowsAtEnd, KeepsLog
  <1>7. QED
    BY <1>4, <1>5, <1>6

\* The scan moves along the chain.
LEMMA ScanStepStep ==
  ASSUME TypeOK, HeaderChain, ScanOnChain, AckedDurable, ScanStep
  PROVE  HeaderChain' /\ ScanOnChain' /\ AckedDurable' /\ GrowsAtEnd
  <1>1. UNCHANGED <<eof, cells, appends, maxLsn>>
    BY DEF ScanStep, disk, handle
  <1>2. PICK s \in Lsn : s = scanLsn
    BY DEF TypeOK
  <1>3. s \in Nat /\ s \in Addr /\ maxLsn \in Nat /\ is_valid(s)
    BY <1>2, PalfConstants DEF Lsn, Addr, TypeOK, ScanStep, HeaderReadable
  <1>4. s <= maxLsn
    BY <1>3 DEF HeaderChain
  <1>5. WholeHeader(s)
    BY <1>3, <1>4 DEF HeaderChain
  <1>6. scanLsn' = appends[cells[s].uid].end /\ scanLsn' > s
    BY <1>2, <1>3, <1>5, HeaderLeadsOn DEF ScanStep
  <1>7. \/ scanLsn' = maxLsn
        \/ scanLsn' < maxLsn /\ is_valid(scanLsn')
        \/ scanLsn' > maxLsn /\ is_valid(maxLsn) /\ scanLsn' = appends[cells[maxLsn].uid].end
    <2>1. CASE s = maxLsn
      BY <1>3, <1>6, <2>1
    <2>2. CASE s < maxLsn
      BY <1>3, <1>6, <2>2 DEF HeaderChain
    <2>3. QED
      BY <1>3, <1>4, <2>1, <2>2
  <1>8. ScanOnChain'
    BY <1>1, <1>7 DEF ScanOnChain, is_valid
  <1>9. HeaderChain' /\ AckedDurable' /\ GrowsAtEnd
    BY <1>1, SameDisk
  <1>10. QED
    BY <1>8, <1>9

\* The scan of init ends at max_lsn_, or behind the one entry that a failed append
\* left there.
LEMMA ScanEnd ==
  ASSUME InitOnly, TypeOK, HeaderChain, ScanOnChain, ScanStop
  PROVE  /\ maxLsn' = scanLsn
         /\ \/ scanLsn = maxLsn
            \/ /\ scanLsn > maxLsn /\ is_valid(maxLsn) /\ WholeHeader(maxLsn)
               /\ scanLsn = appends[cells[maxLsn].uid].end
  <1>1. opener = "init"
    BY PalfConstants DEF TypeOK, InitOnly
  <1>2. scanLsn \in Lsn /\ maxLsn \in Lsn /\ scanLsn \in Nat /\ maxLsn \in Nat
    BY PalfConstants DEF TypeOK, Lsn
  <1>3. ~(is_valid(scanLsn) /\ WholeHeader(scanLsn))
    BY <1>2, HeaderLeadsOn DEF ScanStop
  <1>4. ~(scanLsn <= maxLsn /\ is_valid(scanLsn))
    BY <1>2, <1>3 DEF HeaderChain
  <1>5. scanLsn > maxLsn => ~is_valid(scanLsn)
    BY <1>2, PalfConstants DEF HeaderChain, Addr, Lsn
  <1>6. ~is_valid(scanLsn)
    BY <1>2, <1>4, <1>5
  <1>7. maxLsn' = scanLsn
    BY <1>1, <1>6 DEF ScanStop, LastValid, HeaderReadable
  <1>8. is_valid(maxLsn) => WholeHeader(maxLsn)
    BY <1>2 DEF HeaderChain
  <1>9. QED
    BY <1>6, <1>7, <1>8 DEF ScanOnChain, ScanStop

\* The end of the scan keeps the chain, one entry longer if a failed append is
\* taken over.
LEMMA ScanStopStep ==
  ASSUME InitOnly, TypeOK, TypeOK', HeaderChain, ScanOnChain, AckedDurable, ScanStop
  PROVE  HeaderChain' /\ ScanOnChain' /\ AckedDurable' /\ GrowsAtEnd
  <1>0. PICK m \in Lsn : m = maxLsn
    BY DEF TypeOK
  <1>1. UNCHANGED <<eof, cells, appends>> /\ state' = "up"
    BY DEF ScanStop, disk
  <1>2. m \in Nat /\ scanLsn \in Nat
    BY PalfConstants DEF Lsn, TypeOK
  <1>3. maxLsn' = scanLsn /\ (scanLsn = m \/ scanLsn > m)
    BY <1>0, ScanEnd
  <1>4. KeepsLog
    <2>1. maxLsn' >= maxLsn
      BY <1>0, <1>2, <1>3
    <2>2. \A b \in DOMAIN eof : eof'[b] >= eof[b]
      BY <1>1 DEF TypeOK
    <2>3. QED
      BY <1>1, <2>1, <2>2 DEF KeepsLog
  <1>5. \A a \in Addr : a > m => ~is_valid(a)'
    BY <1>0, <1>1, Zenon DEF HeaderChain, is_valid
  <1>6. HeaderChain'
    <2>1. CASE scanLsn = m
      <3>1. ASSUME is_valid(m)' PROVE WholeHeader(m)'
        <4>1. is_valid(m)
          BY <1>1, <3>1 DEF is_valid
        <4>2. WholeHeader(m)
          BY <1>0, <1>2, <4>1 DEF HeaderChain
        <4>3. QED
          BY <1>1, <4>2 DEF WholeHeader
      <3>2. QED
        BY <1>0, <1>3, <1>4, <1>5, <2>1, <3>1, SameTail
    <2>2. CASE scanLsn > m
      <3>1. is_valid(m) /\ WholeHeader(m) /\ appends[cells[m].uid].end = scanLsn
        BY <1>0, <1>2, <2>2, ScanEnd, SMTT(90)
      <3>2. is_valid(m)' /\ WholeHeader(m)' /\ appends'[cells'[m].uid].end = maxLsn'
        <4>1. is_valid(m)'
          BY <1>1, <3>1 DEF is_valid
        <4>2. WholeHeader(m)'
          BY <1>1, <3>1, Zenon DEF WholeHeader
        <4>3. QED
          BY <1>1, <1>3, <3>1, <4>1, <4>2
      <3>3. QED
        BY <1>0, <1>3, <1>4, <1>5, <2>2, <3>2, LongerTail, Zenon
    <2>3. QED
      BY <1>3, <2>1, <2>2
  <1>7. AckedDurable'
    BY <1>1, <1>4, LogKept, Zenon DEF AckedDurable
  <1>8. QED
    BY <1>0, <1>1, <1>4, <1>5, <1>6, <1>7 DEF ScanOnChain, GrowsAtEnd
-----------------------------------------------------------------------------
\* The inductive invariant.
LogInv == TypeOK /\ ChainIfFits /\ AckedDurableIfFits /\ LsnOrder

\* Every step keeps the chain and the acknowledged entries, and adds only at its end.
LEMMA ChainStep ==
  ASSUME NoTornHeader, InitOnly, TypeOK, TypeOK', ChainIfFits, AckedDurableIfFits, [Next]_vars
  PROVE  ChainIfFits' /\ AckedDurableIfFits' /\ (HeadersFit' => GrowsAtEnd)
  <1> SUFFICES ASSUME HeadersFit' PROVE HeaderChain' /\ ScanOnChain' /\ AckedDurable' /\ GrowsAtEnd
    BY DEF ChainIfFits, AckedDurableIfFits
  <1>1. HeaderChain /\ ScanOnChain /\ AckedDurable
    BY HistoryKept, FitsBefore DEF ChainIfFits, AckedDurableIfFits
  <1>2. ASSUME NEW p \in PayloadSizes, AppendOk(p)
        PROVE  HeaderChain' /\ ScanOnChain' /\ AckedDurable' /\ GrowsAtEnd
    BY <1>1, <1>2, AppendOkStep
  <1>3. ASSUME NEW p \in PayloadSizes,
               AppendOpenFails(p) \/ \E n \in ShortWrites : AppendShort(p, n)
        PROVE  HeaderChain' /\ ScanOnChain' /\ AckedDurable' /\ GrowsAtEnd
    BY <1>1, <1>3, AppendFailsStep
  <1>4. ASSUME NEW o \in Openers, StorageInit(o)
        PROVE  HeaderChain' /\ ScanOnChain' /\ AckedDurable' /\ GrowsAtEnd
    BY <1>1, <1>4, StorageInitStep
  <1>5. CASE ScanStep
    BY <1>1, <1>5, ScanStepStep
  <1>6. CASE ScanStop
    BY <1>1, <1>6, ScanStopStep
  <1>7. CASE Stop \/ (\E l \in SeekTargets : seek(l)) \/ UNCHANGED vars
    <2>1. UNCHANGED <<eof, cells, appends, maxLsn, scanLsn>> /\ (state' = "scan" => state = "scan")
      BY <1>7 DEF Stop, seek, vars, disk, handle
    <2>2. HeaderChain' /\ AckedDurable' /\ GrowsAtEnd
      BY <1>1, <2>1, SameDisk
    <2>3. ScanOnChain'
      BY <1>1, <2>1 DEF ScanOnChain, is_valid
    <2>4. QED
      BY <2>2, <2>3
  <1>8. QED
    BY <1>2, <1>3, <1>4, <1>5, <1>6, <1>7 DEF Next, PalfAppend, PalfOpen

\* Every step keeps the LSN order: a new entry starts at max_lsn_, and every
\* acknowledged one ends there or before.
LEMMA OrderStep ==
  ASSUME TypeOK, AckedDurableIfFits, LsnOrder, [Next]_vars
  PROVE  LsnOrder'
  <1> SUFFICES ASSUME HeadersFit',
                      NEW i \in DOMAIN appends', NEW j \in DOMAIN appends', i < j,
                      appends'[i].ok, appends'[j].ok
               PROVE  appends'[i].end <= appends'[j].lsn
    BY DEF LsnOrder
  <1>1. HeadersFit
    BY HistoryKept, FitsBefore
  <1>2. CASE i \in DOMAIN appends /\ j \in DOMAIN appends
    <2>1. appends'[i] = appends[i] /\ appends'[j] = appends[j]
      BY <1>2, HistoryKept
    <2>2. QED
      BY <1>1, <1>2, <2>1 DEF LsnOrder
  <1>3. CASE ~(i \in DOMAIN appends /\ j \in DOMAIN appends)
    <2>1. PalfAppend
      <3>1. appends' # appends
        BY <1>3
      <3>2. QED
        BY <3>1 DEF Next, vars, PalfOpen, StorageInit, ScanStep, ScanStop, seek, Stop
    <2>2. PICK p \in PayloadSizes, ok \in BOOLEAN : Allocate(p, ok)
      BY <2>1, Zenon DEF PalfAppend, AppendOk, AppendShort, AppendOpenFails
    <2>3. /\ DOMAIN appends = 1 .. Len(appends) /\ DOMAIN appends' = 1 .. (Len(appends) + 1)
          /\ Len(appends) \in Nat /\ appends'[Len(appends) + 1] = Entry(p, ok)
      BY <2>2, AllocateStep, Zenon
    <2>4. i \in DOMAIN appends /\ j = Len(appends) + 1
      BY <1>3, <2>3
    <2>5. appends'[j].lsn = maxLsn /\ appends'[i] = appends[i]
      BY <2>3, <2>4, HistoryKept, SMTT(90) DEF Entry
    <2>6. appends[i].end <= maxLsn
      BY <1>1, <2>4, <2>5, Zenon DEF AckedDurableIfFits, AckedDurable, OnDisk
    <2>7. QED
      BY <2>5, <2>6
  <1>4. QED
    BY <1>2, <1>3

\* LogInv holds throughout.
LEMMA LogInvariant ==
  ASSUME NoTornHeader, InitOnly
  PROVE  Spec => []LogInv
  <1>1. Init => ChainIfFits /\ AckedDurableIfFits /\ LsnOrder
    <2> SUFFICES ASSUME Init PROVE HeaderChain /\ ScanOnChain /\ AckedDurable /\ LsnOrder
      BY DEF ChainIfFits, AckedDurableIfFits
    <2>1. DOMAIN appends = {} /\ maxLsn = 0 /\ state = "down"
      BY DEF Init
    <2>2. \A a \in Addr : ~is_valid(a)
      BY DEF Init, is_valid, Blank
    <2>3. Lsn \subseteq Addr
      BY PalfConstants DEF Lsn, Addr
    <2>4. HeaderChain
      BY <2>1, <2>2, <2>3 DEF HeaderChain
    <2>5. QED
      BY <2>1, <2>4 DEF ScanOnChain, AckedDurable, LsnOrder
  <1>2. LogInv /\ TypeOK' /\ [Next]_vars => LogInv'
    BY ChainStep, OrderStep DEF LogInv
  <1>3. QED
    <2>1. Spec => []TypeOK
      BY TypeCorrect
    <2>2. TypeOK /\ Init => LogInv
      BY <1>1 DEF LogInv
    <2>3. QED
      BY <1>2, <2>1, <2>2, PTL DEF Spec

\* Every append that returned 0 stays on disk below max_lsn_, and can be reached by
\* the scan of init, over any number of failed appends, crashes and restarts.
THEOREM AcknowledgedDurable ==
  ASSUME NoTornHeader, InitOnly
  PROVE  Spec => []AckedDurableIfFits
  <1>1. LogInv => AckedDurableIfFits
    BY DEF LogInv
  <1>2. QED
    BY <1>1, LogInvariant, PTL

\* The headers on disk always lead from LSN 0 to max_lsn_, and the scan of init
\* follows them.
THEOREM AlwaysRecoverable ==
  ASSUME NoTornHeader, InitOnly
  PROVE  Spec => []ChainIfFits
  <1>1. LogInv => ChainIfFits
    BY DEF LogInv
  <1>2. QED
    BY <1>1, LogInvariant, PTL

\* Acknowledged appends keep the order of their LSNs over restarts.
THEOREM LsnsOrdered ==
  ASSUME NoTornHeader, InitOnly
  PROVE  Spec => []LsnOrder
  <1>1. LogInv => LsnOrder
    BY DEF LogInv
  <1>2. QED
    BY <1>1, LogInvariant, PTL

\* A restart resumes at the old max_lsn_, or behind the one failed append there.
THEOREM RestartAtTail ==
  ASSUME NoTornHeader, InitOnly
  PROVE  Spec => RecoveredTail
  <1> DEFINE A == state = "scan" /\ state' = "up" /\ HeadersFit
                    => \/ maxLsn' = maxLsn
                       \/ \E i \in DOMAIN appends :
                            ~appends[i].ok /\ appends[i].lsn = maxLsn /\ appends[i].end = maxLsn'
  <1>1. LogInv /\ [Next]_vars => [A]_vars
    <2> SUFFICES ASSUME LogInv, [Next]_vars, state = "scan", state' = "up", HeadersFit
                 PROVE  \/ maxLsn' = maxLsn
                        \/ \E i \in DOMAIN appends :
                             ~appends[i].ok /\ appends[i].lsn = maxLsn /\ appends[i].end = maxLsn'
      OBVIOUS
    <2>1. ScanStop
      BY Zenon DEF Next, PalfAppend, AppendOk, AppendShort, AppendOpenFails, Allocate, PalfOpen,
             StorageInit, ScanStep, seek, Stop, vars
    <2>2. TypeOK /\ HeaderChain /\ ScanOnChain /\ AckedDurable
      BY DEF LogInv, ChainIfFits, AckedDurableIfFits
    <2>3. CASE scanLsn = maxLsn
      BY <2>1, <2>2, <2>3, ScanEnd
    <2>4. CASE scanLsn # maxLsn
      <3> DEFINE i == cells[maxLsn].uid
      <3>1. /\ maxLsn' = scanLsn /\ scanLsn > maxLsn /\ scanLsn = appends[i].end
            /\ is_valid(maxLsn) /\ WholeHeader(maxLsn)
        BY <2>1, <2>2, <2>4, ScanEnd
      <3>2. i \in DOMAIN appends /\ maxLsn \in Nat /\ scanLsn \in Nat
        <4>1. maxLsn \in Lsn /\ maxLsn \in Nat /\ scanLsn \in Nat
          BY <2>2, PalfConstants DEF TypeOK, Lsn
        <4>2. QED
          BY <2>2, <3>1, <4>1, HeaderLeadsOn
      <3>3. appends[i].lsn = maxLsn
        BY <3>1, Zenon DEF WholeHeader
      <3>4. ~appends[i].ok
        <4>1. appends[i].ok => appends[i].end <= maxLsn
          BY <2>2, <3>2, Zenon DEF AckedDurable, OnDisk
        <4>2. QED
          BY <3>1, <3>2, <4>1
      <3>5. QED
        BY <3>1, <3>2, <3>3, <3>4
    <2>5. QED
      BY <2>3, <2>4
  <1>2. QED
    BY <1>1, LogInvariant, PTL DEF Spec, RecoveredTail

-----------------------------------------------------------------------------
(* The walk of replay_ls *)

\* No header starts inside an entry that the chain leads over.
NoneInside ==
  \A a \in Lsn, b \in Addr :
    is_valid(a) /\ a < b /\ b < appends[cells[a].uid].end => ~is_valid(b)

\* The block file of an acknowledged entry reaches to its end, or to the block's.
FileCovers ==
  \A i \in DOMAIN appends : appends[i].ok =>
    LET l == appends[i].lsn
    IN  /\ lsn_2_block(l) \in DOMAIN eof
        /\ eof[lsn_2_block(l)] >= Smaller(BlockSize, lsn_2_offset(l) + (appends[i].end - l))

\* An entry is at least as long as its header.
LongEnough == \A i \in DOMAIN appends : appends[i].lsn + HeaderSize <= appends[i].end

BodyInv == FileCovers /\ LongEnough /\ (HeadersFit => NoneInside)

ReplayTypes ==
  /\ rstate \in {"idle", "run", "done"} /\ (rstate = "run" => state = "up")
  /\ current \in Lsn /\ rend \in Nat /\ known \in 0 .. Len(appends)
  /\ delivered \in Seq([uid : 1 .. Len(appends), whole : BOOLEAN])

\* The walk stands behind what it handed over last.
AtLast == current = IF delivered = <<>> THEN 0 ELSE appends[delivered[Len(delivered)].uid].end

\* Append i was handed over, intact if one read can return it.
HandedOver(i) == \E k \in DOMAIN delivered : delivered[k].uid = i /\ (Fits(i) => delivered[k].whole)

\* What replay_ls owes: the appends acknowledged when it began, below its end_lsn.
Owed(i) == i <= known /\ appends[i].ok /\ appends[i].end <= rend

\* An entry owed was handed over, or a readable header leads on to it.
WalkInv ==
  /\ ReplayContiguous
  /\ rstate = "run" =>
       /\ AtLast
       /\ \A i \in DOMAIN appends : Owed(i) =>
            HandedOver(i) \/ (is_valid(current) /\ current <= appends[i].lsn)
  /\ rstate = "done" => \A i \in DOMAIN appends : Owed(i) => HandedOver(i)

ReplayInv == ReplayTypes /\ (HeadersFit => WalkInv)

\* No header comes to start inside an entry: the log grows at its end.
LEMMA NoneInsideStep ==
  ASSUME TypeOK, TypeOK', HeaderChain, AckedDurable, GrowsAtEnd, NoneInside
  PROVE  NoneInside'
  <1> SUFFICES ASSUME NEW a \in Lsn, NEW b \in Addr,
                      is_valid(a)', a < b, b < appends'[cells'[a].uid].end
               PROVE  ~is_valid(b)'
    BY DEF NoneInside, is_valid
  <1>0. a \in Nat /\ b \in Nat /\ maxLsn \in Nat /\ Lsn \subseteq Nat
    BY PalfConstants DEF Lsn, Addr, TypeOK
  <1>1. CASE a >= maxLsn
    BY <1>0, <1>1 DEF GrowsAtEnd
  <1>2. CASE a < maxLsn
    <2>1. is_valid(a) /\ cells'[a] = cells[a] /\ appends'[cells[a].uid] = appends[cells[a].uid]
      BY <1>2, LogKept, Zenon DEF GrowsAtEnd
    <2>2. appends[cells[a].uid].end \in Nat /\ appends[cells[a].uid].end <= maxLsn
      <3>1. WholeHeader(a)
        BY <1>0, <1>2, <2>1 DEF HeaderChain
      <3>2. appends[cells[a].uid].end \in Lsn
        BY <2>1, <3>1, HeaderLeadsOn
      <3>3. appends[cells[a].uid].end = maxLsn \/ appends[cells[a].uid].end < maxLsn
        BY <1>2, <2>1 DEF HeaderChain
      <3>4. PICK e \in Nat : e = appends[cells[a].uid].end
        BY <1>0, <3>2, Zenon
      <3>5. QED
        BY <1>0, <3>3, <3>4
    <2>3. b < appends[cells[a].uid].end /\ b < maxLsn
      BY <1>0, <2>1, <2>2
    <2>4. ~is_valid(b) /\ cells'[b] = cells[b]
      BY <2>1, <2>3 DEF NoneInside, GrowsAtEnd, KeepsLog
    <2>5. QED
      BY <2>4 DEF is_valid
  <1>3. QED
    BY <1>0, <1>1, <1>2

\* The file of an entry reaches as far as it was written, and files do not shrink.
LEMMA FileCoversStep ==
  ASSUME TypeOK, TypeOK', FileCovers, [Next]_vars
  PROVE  FileCovers'
  <1> DEFINE Covers(e, l, end) == /\ lsn_2_block(l) \in DOMAIN e
                                  /\ e[lsn_2_block(l)] >= Smaller(BlockSize, lsn_2_offset(l) + (end - l))
  <1>1. \A b \in DOMAIN eof : b \in DOMAIN eof' /\ eof'[b] >= eof[b] /\ eof[b] \in Nat /\ eof'[b] \in Nat
    <2>1. ASSUME NEW p \in PayloadSizes, NEW n \in Nat, eof' = Extended(maxLsn, n)
          PROVE  \A b \in DOMAIN eof : b \in DOMAIN eof' /\ eof'[b] >= eof[b]
      <3>1. PICK m \in Nat : m = maxLsn
        BY PalfConstants DEF TypeOK, Lsn
      <3>2. /\ DOMAIN Extended(m, n) = DOMAIN eof \cup {lsn_2_block(m)}
            /\ \A b \in DOMAIN eof : Extended(m, n)[b] >= eof[b]
        BY ExtendedType, Zenon
      <3>3. QED
        BY <2>1, <3>1, <3>2
    <2>2. CASE PalfAppend
      <3>1. PICK p \in PayloadSizes : \/ AppendOk(p) \/ (\E n \in ShortWrites : AppendShort(p, n))
                                      \/ AppendOpenFails(p)
        BY <2>2 DEF PalfAppend
      <3>2. eof' = eof \/ \E n \in Nat : eof' = Extended(maxLsn, n)
        <4>1. HeaderSize + p \in Nat /\ ShortWrites \subseteq Nat
          BY PalfConstants
        <4>2. CASE AppendOk(p)
          BY <4>1, <4>2 DEF AppendOk
        <4>3. ASSUME NEW n \in ShortWrites, AppendShort(p, n) PROVE \E k \in Nat : eof' = Extended(maxLsn, k)
          BY <4>1, <4>3 DEF AppendShort
        <4>4. CASE AppendOpenFails(p)
          BY <4>4 DEF AppendOpenFails, disk
        <4>5. QED
          BY <3>1, <4>2, <4>3, <4>4, Zenon
      <3>3. QED
        BY <2>1, <3>1, <3>2 DEF TypeOK
    <2>3. CASE ~PalfAppend
      <3>1. \A b \in DOMAIN eof : b \in DOMAIN eof' /\ eof'[b] = eof[b]
        BY <2>3 DEF Next, PalfOpen, StorageInit, ScanStep, ScanStop, seek, Stop, vars, disk
      <3>2. QED
        BY <3>1 DEF TypeOK
    <2>4. QED
      BY <2>2, <2>3 DEF TypeOK
  <1>2. ASSUME NEW i \in DOMAIN appends, appends[i].ok
        PROVE  Covers(eof', appends[i].lsn, appends[i].end)
    <2>1. PICK l \in Nat, end \in Nat : l = appends[i].lsn /\ end = appends[i].end
      <3>1. appends[i] \in EntryType
        BY DEF TypeOK
      <3>2. QED
        BY <3>1, PalfConstants DEF EntryType, Lsn
    <2>2. Covers(eof, l, end)
      BY <1>2, <2>1 DEF FileCovers
    <2>3. lsn_2_offset(l) \in Nat
      BY OffsetNat
    <2>4. QED
      <3> DEFINE b == lsn_2_block(l)
                 x == Smaller(BlockSize, lsn_2_offset(l) + (end - l))
      <3>1. x \in Int
        BY <2>3, PalfConstants DEF Smaller
      <3>2. b \in DOMAIN eof /\ eof[b] >= x
        BY <2>2
      <3> HIDE DEF b, x
      <3>3. b \in DOMAIN eof' /\ eof'[b] >= x
        BY <1>1, <3>1, <3>2
      <3>4. QED
        BY <2>1, <3>3, Zenon DEF b, x
  <1>3. ASSUME NEW i \in DOMAIN appends', appends'[i].ok, i \notin DOMAIN appends
        PROVE  Covers(eof', appends'[i].lsn, appends'[i].end)
    <2>1. PalfAppend
      <3>1. appends' # appends
        BY <1>3
      <3>2. QED
        BY <3>1 DEF Next, vars, PalfOpen, StorageInit, ScanStep, ScanStop, seek, Stop
    <2>2. PICK p \in PayloadSizes : \/ AppendOk(p) \/ (\E n \in ShortWrites : AppendShort(p, n))
                                    \/ AppendOpenFails(p)
      BY <2>1 DEF PalfAppend
    <2>3. ASSUME NEW ok \in BOOLEAN, Allocate(p, ok)
          PROVE  i = Len(appends) + 1 /\ appends'[i] = Entry(p, ok) /\ p \in Nat /\ p > 0
      <3>1. /\ DOMAIN appends = 1 .. Len(appends) /\ DOMAIN appends' = 1 .. (Len(appends) + 1)
            /\ Len(appends) \in Nat /\ appends'[Len(appends) + 1] = Entry(p, ok) /\ p \in Nat /\ p > 0
        BY <2>3, AllocateStep
      <3>2. QED
        BY <1>3, <3>1
    <2>4. AppendOk(p)
      <3>1. ~Allocate(p, FALSE)
        <4>1. Entry(p, FALSE).ok = FALSE
          BY DEF Entry
        <4>2. QED
          BY <1>3, <2>3, <4>1, Zenon
      <3>2. QED
        BY <2>2, <3>1, Zenon DEF AppendShort, AppendOpenFails
    <2>5. PICK m \in Nat : m = maxLsn
      BY PalfConstants DEF TypeOK, Lsn
    <2>6. /\ appends'[i].lsn = m /\ appends'[i].end = m + HeaderSize + p
          /\ eof' = Extended(m, HeaderSize + p) /\ p \in Nat /\ p > 0
      <3>1. Allocate(p, TRUE) /\ eof' = Extended(m, HeaderSize + p)
        BY <2>4, <2>5, Zenon DEF AppendOk
      <3>2. appends'[i] = Entry(p, TRUE) /\ p \in Nat /\ p > 0
        BY <2>3, <3>1, Zenon
      <3>3. Entry(p, TRUE).lsn = m /\ Entry(p, TRUE).end = m + HeaderSize + p
        BY <2>5 DEF Entry
      <3>4. QED
        BY <3>1, <3>2, <3>3, Zenon
    <2>7. lsn_2_offset(m) \in Nat /\ lsn_2_block(m) \in Nat
      BY OffsetNat
    <2>8. (m + HeaderSize + p) - m = HeaderSize + p /\ HeaderSize + p # 0 /\ HeaderSize + p \in Nat
      BY <2>6, PalfConstants
    <2>9. Covers(Extended(m, HeaderSize + p), m, m + HeaderSize + p)
      <3> DEFINE b == lsn_2_block(m)
                 old == IF b \in DOMAIN eof THEN eof[b] ELSE 0
                 new == Smaller(BlockSize, lsn_2_offset(m) + (HeaderSize + p))
      <3>1. Extended(m, HeaderSize + p)[b] = Larger(old, new) /\ b \in DOMAIN Extended(m, HeaderSize + p)
        BY <2>8 DEF Extended
      <3>2. old \in Nat
        BY DEF TypeOK
      <3>3. new \in Nat
        BY <2>7, <2>8, PalfConstants DEF Smaller
      <3> HIDE DEF old, new
      <3>4. new <= Larger(old, new)
        BY <3>2, <3>3 DEF Larger
      <3>5. QED
        BY <2>8, <3>1, <3>4 DEF new
    <2>10. QED
      BY <2>6, <2>9
  <1>4. \A i \in DOMAIN appends : appends'[i] = appends[i]
    BY HistoryKept
  <1>5. \A i \in DOMAIN appends' : appends'[i].ok => Covers(eof', appends'[i].lsn, appends'[i].end)
    BY <1>2, <1>3, <1>4, Zenon
  <1>6. QED
    BY <1>5 DEF FileCovers

LEMMA LongEnoughStep ==
  ASSUME TypeOK, LongEnough, [Next]_vars
  PROVE  LongEnough'
  <1>1. CASE PalfAppend
    <2>1. PICK p \in PayloadSizes, ok \in BOOLEAN : Allocate(p, ok)
      BY <1>1, Zenon DEF PalfAppend, AppendOk, AppendShort, AppendOpenFails
    <2>2. /\ DOMAIN appends = 1 .. Len(appends) /\ DOMAIN appends' = 1 .. (Len(appends) + 1)
          /\ Len(appends) \in Nat /\ appends'[Len(appends) + 1] = Entry(p, ok) /\ p \in Nat
          /\ \A i \in 1 .. Len(appends) : appends'[i] = appends[i]
      BY <2>1, AllocateStep, Zenon
    <2>3. Entry(p, ok).lsn + HeaderSize <= Entry(p, ok).end
      <3>1. maxLsn \in Nat
        BY PalfConstants DEF TypeOK, Lsn
      <3>2. Entry(p, ok).lsn = maxLsn /\ Entry(p, ok).end = maxLsn + HeaderSize + p
        BY DEF Entry
      <3>3. QED
        BY <2>2, <3>1, <3>2, PalfConstants
    <2>4. ASSUME NEW i \in DOMAIN appends' PROVE appends'[i].lsn + HeaderSize <= appends'[i].end
      <3>1. CASE i = Len(appends) + 1
        BY <2>2, <2>3, <3>1
      <3>2. CASE i \in DOMAIN appends
        BY <2>2, <3>2 DEF LongEnough
      <3>3. QED
        BY <2>2, <3>1, <3>2
    <2>5. QED
      BY <2>4, Zenon DEF LongEnough
  <1>2. CASE ~PalfAppend
    <2>1. appends' = appends
      BY <1>2 DEF Next, vars, PalfOpen, StorageInit, ScanStep, ScanStop, seek, Stop
    <2>2. QED
      BY <2>1 DEF LongEnough
  <1>3. QED
    BY <1>1, <1>2, Zenon

\* BodyInv holds throughout.
LEMMA BodiesKept ==
  ASSUME NoTornHeader, InitOnly
  PROVE  Spec => []BodyInv
  <1>1. Init => BodyInv
    BY PalfConstants DEF Init, BodyInv, FileCovers, LongEnough, NoneInside, is_valid, Blank, Lsn, Addr
  <1>2. LogInv /\ LogInv' /\ BodyInv /\ [Next]_vars => BodyInv'
    <2> SUFFICES ASSUME LogInv, LogInv', BodyInv, [Next]_vars PROVE BodyInv'
      OBVIOUS
    <2>1. FileCovers'
      BY FileCoversStep DEF LogInv, BodyInv
    <2>0. LongEnough'
      BY LongEnoughStep DEF LogInv, BodyInv
    <2>2. ASSUME HeadersFit' PROVE NoneInside'
      <3>1. HeadersFit
        BY <2>2, HistoryKept, FitsBefore DEF LogInv
      <3>2. HeaderChain /\ AckedDurable /\ NoneInside /\ GrowsAtEnd
        BY <2>2, <3>1, ChainStep, Zenon DEF LogInv, ChainIfFits, AckedDurableIfFits, BodyInv
      <3>3. QED
        BY <3>2, NoneInsideStep DEF LogInv
    <2>3. QED
      BY <2>0, <2>1, <2>2 DEF BodyInv
  <1>3. QED
    BY <1>1, <1>2, LogInvariant, PTL DEF Spec

\* An acknowledged entry lies below max_lsn_, and a header of its own starts it.
LEMMA AckedHeader ==
  ASSUME LogInv, BodyInv, HeadersFit, NEW i \in DOMAIN appends, appends[i].ok
  PROVE  /\ appends[i].lsn \in Lsn /\ appends[i].lsn \in Nat /\ appends[i].end \in Nat
         /\ appends[i].lsn + HeaderSize <= appends[i].end /\ appends[i].end <= maxLsn
         /\ appends[i].lsn < maxLsn
         /\ is_valid(appends[i].lsn) /\ cells[appends[i].lsn].uid = i
  <1>1. appends[i] \in EntryType /\ maxLsn \in Nat
    BY PalfConstants DEF LogInv, TypeOK, Lsn
  <1>2. PICK l \in Lsn, end \in Nat : l = appends[i].lsn /\ end = appends[i].end
    BY <1>1, PalfConstants DEF EntryType, Lsn
  <1>3. l \in Nat /\ l \in Addr /\ lsn_2_offset(l) \in Nat
    BY OffsetNat, PalfConstants DEF Lsn, Addr
  <1>4. l + HeaderSize <= end /\ end <= maxLsn /\ lsn_2_offset(l) + HeaderSize <= BlockSize
    BY <1>2, Zenon DEF LogInv, BodyInv, LongEnough, AckedDurableIfFits, AckedDurable, OnDisk, HeadersFit
  <1>5. l >= l /\ l < end /\ l < maxLsn /\ lsn_2_offset(l) + (l - l) < BlockSize /\ l - l = 0
    BY <1>1, <1>3, <1>4, PalfConstants
  <1>6. cells[l] = [uid |-> i, pos |-> 0]
    BY <1>2, <1>3, <1>5, Zenon DEF LogInv, AckedDurableIfFits, AckedDurable, OnDisk
  <1>7. i # 0
    BY DEF LogInv, TypeOK
  <1>8. QED
    <2>1. cells[l].uid = i /\ cells[l].pos = 0
      BY <1>6
    <2>2. is_valid(l)
      BY <1>7, <2>1, Zenon DEF is_valid
    <2>3. QED
      BY <1>2, <1>3, <1>4, <1>5, <2>1, <2>2, Zenon

\* One read returns an acknowledged entry whole if it fits the buffer and the block.
LEMMA FittingReadWhole ==
  ASSUME LogInv, BodyInv, HeadersFit, NEW i \in DOMAIN appends, appends[i].ok, Fits(i)
  PROVE  ReadWhole(appends[i].lsn)
  <1>1. PICK l \in Nat, end \in Nat : l = appends[i].lsn /\ end = appends[i].end
    BY AckedHeader
  <1>2. l + HeaderSize <= end /\ end <= maxLsn /\ cells[l].uid = i /\ maxLsn \in Nat /\ maxLsn <= LogLimit
    <2>1. l + HeaderSize <= end /\ end <= maxLsn /\ cells[l].uid = i
      BY <1>1, AckedHeader, Zenon
    <2>2. maxLsn \in Nat /\ maxLsn <= LogLimit
      BY PalfConstants DEF LogInv, TypeOK, Lsn
    <2>3. QED
      BY <2>1, <2>2, Zenon
  <1>3. PICK size \in Nat : size = end - l
    BY <1>2, PalfConstants
  <1>4. GroupEntrySize(l) = size /\ size <= ReadBufSize /\ lsn_2_offset(l) + size <= BlockSize
    BY <1>1, <1>2, <1>3 DEF GroupEntrySize, Fits
  <1>5. lsn_2_offset(l) \in Nat
    BY OffsetNat
  <1>6. size <= ReadLen(l)
    <2>1. lsn_2_block(l) \in DOMAIN eof /\ eof[lsn_2_block(l)] >= Smaller(BlockSize, lsn_2_offset(l) + size)
      BY <1>1, <1>3, Zenon DEF BodyInv, FileCovers
    <2>2. eof[lsn_2_block(l)] \in Nat
      BY <2>1 DEF LogInv, TypeOK
    <2>3. QED
      BY <1>4, <1>5, <2>1, <2>2, PalfConstants DEF ReadLen, Smaller
  <1>7. ASSUME NEW k \in 0 .. size - 1 PROVE cells[l + k] = [uid |-> i, pos |-> k]
    <2>1. /\ l + k \in Addr /\ l + k >= l /\ l + k < end /\ (l + k) - l = k
          /\ lsn_2_offset(l) + ((l + k) - l) < BlockSize
      BY <1>2, <1>3, <1>4, <1>5, PalfConstants DEF Addr
    <2>2. OnDisk(i)
      BY DEF LogInv, AckedDurableIfFits, AckedDurable
    <2>3. QED
      BY <1>1, <2>1, <2>2, Zenon DEF OnDisk
  <1>8. ReadWhole(l)
    BY <1>2, <1>4, <1>6, <1>7 DEF ReadWhole
  <1>9. QED
    BY <1>1, <1>8

\* replay_ls writes nothing: a walk is a behaviour of the log stream.
LEMMA ReplayIsLog ==
  /\ ReplayInit => Init
  /\ [ReplayNext]_allVars => [Next]_vars
  BY Zenon DEF ReplayInit, ReplayNext, Next, allVars, ReplayStart, ReplayStep, ReplayEnd, ReplayAgain

\* The header the walk reads is a whole one.
LEMMA WalkHeader ==
  ASSUME LogInv, HeadersFit, NEW c \in Lsn, is_valid(c)
  PROVE  /\ WholeHeader(c) /\ HeaderReadable(c) /\ c <= maxLsn
         /\ cells[c].uid \in DOMAIN appends /\ appends[cells[c].uid].lsn = c
         /\ CommittedEnd(c) = appends[cells[c].uid].end /\ CommittedEnd(c) > c /\ CommittedEnd(c) \in Lsn
  <1>1. c \in Nat /\ c \in Addr /\ maxLsn \in Nat
    BY PalfConstants DEF Lsn, Addr, LogInv, TypeOK
  <1>2. HeaderChain /\ TypeOK
    BY DEF LogInv, ChainIfFits
  <1>3. c <= maxLsn
    BY <1>1, <1>2 DEF HeaderChain
  <1>4. WholeHeader(c)
    BY <1>2, <1>3 DEF HeaderChain
  <1>5. QED
    BY <1>2, <1>3, <1>4, HeaderLeadsOn, Zenon DEF WholeHeader

\* A step of the log stream, which leaves the walk alone unless it ends with the process.
OtherStep ==
  /\ [Next]_vars
  /\ UNCHANGED <<current, rend, known, delivered>>
  /\ rstate' = "idle" \/ (rstate' = rstate /\ (rstate = "run" => state' = "up"))

LEMMA ReplaySteps ==
  ASSUME rstate = "run" => state = "up", [ReplayNext]_allVars
  PROVE  ReplayStart \/ ReplayStep \/ ReplayEnd \/ ReplayAgain \/ OtherStep
  <1>1. CASE (PalfAppend \/ PalfOpen \/ \E l \in SeekTargets : seek(l)) /\ UNCHANGED replayVars
    <2>1. rstate = "run" => state' = "up"
      <3>1. PalfAppend \/ (\E l \in SeekTargets : seek(l)) => state' = state
        BY Zenon DEF PalfAppend, AppendOk, AppendShort, AppendOpenFails, Allocate, seek
      <3>2. PalfOpen => state # "up"
        BY DEF PalfOpen, StorageInit, ScanStep, ScanStop
      <3>3. QED
        BY <1>1, <3>1, <3>2
    <2>2. QED
      BY <1>1, <2>1 DEF OtherStep, replayVars, Next
  <1>2. CASE Stop /\ rstate' = "idle" /\ UNCHANGED <<current, rend, known, delivered>>
    BY <1>2 DEF OtherStep, Next
  <1>3. CASE UNCHANGED allVars
    BY <1>3 DEF OtherStep, allVars, replayVars, vars
  <1>4. QED
    BY <1>1, <1>2, <1>3 DEF ReplayNext

LEMMA WiderSeq ==
  ASSUME NEW S, NEW T, S \subseteq T, NEW s \in Seq(S)
  PROVE  s \in Seq(T)
  OBVIOUS

LEMMA SeqElement ==
  ASSUME NEW S, NEW s \in Seq(S), NEW k \in DOMAIN s
  PROVE  s[k] \in S
  OBVIOUS

LEMMA ReplayTypesStep ==
  ASSUME TypeOK, TypeOK', ReplayTypes, [ReplayNext]_allVars
  PROVE  ReplayTypes'
  <1>1. CASE ReplayStart
    <2>1. /\ state' = "up" /\ rstate' = "run" /\ current' = 0 /\ rend' = endLsn /\ known' = Len(appends)
          /\ delivered' = <<>> /\ appends' = appends
      BY <1>1 DEF ReplayStart, vars
    <2>2. 0 \in Lsn /\ endLsn \in Nat /\ Len(appends) \in Nat
      BY PalfConstants DEF Lsn, TypeOK
    <2>3. QED
      BY <2>1, <2>2 DEF ReplayTypes
  <1>2. CASE ReplayStep
    <2>1. is_valid(current) /\ UNCHANGED <<appends, rend, known, state>> /\ state = "up"
      BY <1>2 DEF ReplayStep, HeaderReadable, vars, ReplayTypes
    <2>2. current \in Addr /\ Len(appends) \in Nat
      BY PalfConstants DEF ReplayTypes, Lsn, Addr, TypeOK
    <2>3. cells[current].uid \in 0 .. Len(appends)
      BY <2>2 DEF TypeOK
    <2>4. cells[current].uid \in 1 .. Len(appends)
      BY <2>1, <2>2, <2>3 DEF is_valid
    <2>5. ReadWhole(current) \in BOOLEAN
      BY DEF ReadWhole
    <2>6. delivered' \in Seq([uid : 1 .. Len(appends), whole : BOOLEAN])
      BY <1>2, <2>4, <2>5 DEF ReplayStep, ReplayTypes
    <2>7. current' \in Lsn
      BY <1>2, CommittedEndType DEF ReplayStep, ReplayTypes
    <2>8. QED
      BY <1>2, <2>1, <2>6, <2>7 DEF ReplayStep, ReplayTypes
  <1>3. CASE ReplayEnd \/ ReplayAgain
    BY <1>3, Zenon DEF ReplayEnd, ReplayAgain, ReplayTypes, vars
  <1>4. CASE OtherStep
    <2>1. Len(appends) \in Nat /\ Len(appends') \in Nat /\ Len(appends) <= Len(appends')
      <3>1. DOMAIN appends = 1 .. Len(appends) /\ DOMAIN appends' = 1 .. Len(appends')
            /\ Len(appends) \in Nat /\ Len(appends') \in Nat
        BY DEF TypeOK
      <3>2. \A i \in DOMAIN appends : i \in DOMAIN appends'
        BY <1>4, HistoryKept, Zenon DEF OtherStep
      <3>3. QED
        BY <3>1, <3>2
    <2>2. [uid : 1 .. Len(appends), whole : BOOLEAN] \subseteq [uid : 1 .. Len(appends'), whole : BOOLEAN]
      BY <2>1
    <2>3. delivered \in Seq([uid : 1 .. Len(appends'), whole : BOOLEAN])
      BY <2>2, WiderSeq, Zenon DEF ReplayTypes
    <2>4. QED
      BY <1>4, <2>1, <2>3 DEF ReplayTypes, OtherStep
  <1>5. QED
    BY <1>1, <1>2, <1>3, <1>4, ReplaySteps DEF ReplayTypes

\* A step of the log stream keeps what the walk found.
LEMMA WalkOther ==
  ASSUME NoTornHeader, InitOnly, LogInv, LogInv', BodyInv, ReplayTypes, ReplayTypes', WalkInv,
         HeadersFit, HeadersFit', OtherStep
  PROVE  WalkInv'
  <1>1. \A i \in DOMAIN appends : i \in DOMAIN appends' /\ appends'[i] = appends[i]
    BY HistoryKept DEF OtherStep, LogInv
  <1>2. GrowsAtEnd
    BY ChainStep DEF OtherStep, LogInv
  <1>3. /\ DOMAIN appends = 1 .. Len(appends) /\ DOMAIN appends' = 1 .. Len(appends')
        /\ Len(appends) \in Nat /\ Len(appends') \in Nat /\ known \in Nat /\ known <= Len(appends)
    BY DEF LogInv, TypeOK, ReplayTypes
  <1>4. ASSUME NEW k \in DOMAIN delivered PROVE delivered[k].uid \in DOMAIN appends
    <2>1. delivered[k] \in [uid : 1 .. Len(appends), whole : BOOLEAN]
      <3>1. delivered \in Seq([uid : 1 .. Len(appends), whole : BOOLEAN])
        BY DEF ReplayTypes
      <3>2. QED
        BY <3>1, SeqElement, Zenon
    <2>2. QED
      BY <1>3, <2>1
  <1>5. UNCHANGED <<current, rend, known, delivered>> /\ (rstate' = "idle" \/ rstate' = rstate)
    BY DEF OtherStep
  <1>6. DOMAIN delivered = 1 .. Len(delivered) /\ Len(delivered) \in Nat
    BY DEF ReplayTypes
  <1>7. ReplayContiguous'
    <2>1. \A k \in DOMAIN delivered : k # 1 => k - 1 \in DOMAIN delivered
      BY <1>6
    <2>2. QED
      BY <1>1, <1>4, <1>5, <2>1, Zenon DEF WalkInv, ReplayContiguous
  <1>8. ASSUME NEW i \in DOMAIN appends', Owed(i)' PROVE i \in DOMAIN appends /\ Owed(i)
    <2>1. i \in DOMAIN appends
      BY <1>3, <1>5, <1>8 DEF Owed
    <2>2. QED
      BY <1>1, <1>5, <1>8, <2>1 DEF Owed
  <1>9. ASSUME NEW i \in DOMAIN appends, HandedOver(i) PROVE HandedOver(i)'
    <2>1. Fits(i)' = Fits(i)
      BY <1>1, Zenon DEF Fits
    <2>2. QED
      BY <1>5, <1>9, <2>1 DEF HandedOver
  <1>10. ASSUME rstate' = "run"
         PROVE  /\ AtLast'
                /\ \A i \in DOMAIN appends' : Owed(i)' =>
                     HandedOver(i)' \/ (is_valid(current)' /\ current' <= appends'[i].lsn)
    <2>1. rstate = "run" /\ AtLast
      BY <1>5, <1>10, Zenon DEF WalkInv
    <2>2. AtLast'
      <3>1. delivered # <<>> => Len(delivered) \in DOMAIN delivered
        BY <1>6 DEF ReplayTypes
      <3>2. QED
        BY <1>1, <1>4, <1>5, <2>1, <3>1, Zenon DEF AtLast
    <2>3. ASSUME NEW i \in DOMAIN appends', Owed(i)', ~HandedOver(i)'
          PROVE  is_valid(current)' /\ current' <= appends'[i].lsn
      <3>1. i \in DOMAIN appends /\ Owed(i) /\ ~HandedOver(i)
        BY <1>8, <1>9, <2>3
      <3>2. is_valid(current) /\ current <= appends[i].lsn
        BY <2>1, <3>1, Zenon DEF WalkInv
      <3>3. current \in Lsn /\ current < maxLsn
        <4>1. appends[i].lsn \in Nat /\ appends[i].lsn < maxLsn
          BY <3>1, AckedHeader, Zenon DEF Owed
        <4>2. current \in Lsn /\ current \in Nat /\ maxLsn \in Nat
          BY PalfConstants DEF ReplayTypes, LogInv, TypeOK, Lsn
        <4>3. QED
          BY <3>2, <4>1, <4>2
      <3>4. cells'[current] = cells[current]
        BY <1>2, <3>3, PalfConstants, SMTT(90) DEF GrowsAtEnd, KeepsLog, Lsn, Addr
      <3>5. QED
        BY <1>1, <1>5, <3>1, <3>2, <3>4 DEF is_valid
    <2>4. QED
      BY <2>2, <2>3
  <1>11. ASSUME rstate' = "done" PROVE \A i \in DOMAIN appends' : Owed(i)' => HandedOver(i)'
    BY <1>5, <1>8, <1>9, <1>11, Zenon DEF WalkInv
  <1>12. QED
    BY <1>7, <1>10, <1>11, Zenon DEF WalkInv

\* The walk begins at LSN 0, where the chain does.
LEMMA WalkStart ==
  ASSUME LogInv, BodyInv, HeadersFit, ReplayStart
  PROVE  WalkInv'
  <1>1. /\ rstate' = "run" /\ current' = 0 /\ delivered' = <<>> /\ UNCHANGED <<appends, cells>>
    BY DEF ReplayStart, vars
  <1>2. ReplayContiguous' /\ AtLast'
    BY <1>1 DEF ReplayContiguous, AtLast
  <1>3. ASSUME NEW i \in DOMAIN appends, appends[i].ok PROVE is_valid(0) /\ 0 <= appends[i].lsn
    <2>1. appends[i].lsn \in Nat /\ appends[i].lsn < maxLsn /\ maxLsn \in Nat
      <3>1. maxLsn \in Nat
        BY PalfConstants DEF LogInv, TypeOK, Lsn
      <3>2. QED
        BY <1>3, <3>1, AckedHeader, Zenon
    <2>2. QED
      BY <2>1, SMTT(90) DEF LogInv, ChainIfFits, HeaderChain
  <1>4. \A i \in DOMAIN appends' : Owed(i)' => is_valid(current)' /\ current' <= appends'[i].lsn
    BY <1>1, <1>3, Zenon DEF Owed, is_valid
  <1>5. QED
    BY <1>1, <1>2, <1>4, Zenon DEF WalkInv

\* A turn of the loop hands over the entry at current and goes on to the header behind it.
LEMMA WalkTurn ==
  ASSUME LogInv, BodyInv, ReplayTypes, WalkInv, HeadersFit, ReplayStep
  PROVE  WalkInv'
  <1>1. PICK c \in Lsn : c = current
    BY DEF ReplayTypes
  <1>2. is_valid(c)
    BY <1>1, Zenon DEF ReplayStep, HeaderReadable
  <1>3. PICK u \in DOMAIN appends, e \in Lsn :
          /\ u = cells[c].uid /\ e = CommittedEnd(c) /\ e = appends[u].end /\ appends[u].lsn = c /\ e > c
    BY <1>1, <1>2, WalkHeader, Zenon
  <1>4. c \in Nat /\ e \in Nat /\ e > 0 /\ maxLsn \in Nat /\ u \in Nat
    BY <1>3, PalfConstants DEF Lsn, LogInv, TypeOK
  <1>5. PICK d : d = [uid |-> u, whole |-> ReadWhole(c)]
    BY Zenon
  <1>6. d.uid = u /\ d.whole = ReadWhole(c)
    BY <1>5
  <1>7. /\ rstate = "run" /\ rstate' = "run" /\ current' = e /\ delivered' = Append(delivered, d)
        /\ UNCHANGED <<appends, cells, rend, known>>
    <2>1. /\ rstate = "run" /\ rstate' = (IF current' <= 0 THEN "done" ELSE "run")
          /\ current' = e /\ delivered' = Append(delivered, d)
          /\ UNCHANGED <<appends, cells, rend, known>>
      BY <1>1, <1>3, <1>5, Zenon DEF ReplayStep, vars
    <2>2. QED
      BY <1>4, <2>1
  <1>8. PICK n \in Nat : n = Len(delivered) /\ DOMAIN delivered = 1 .. n
    BY DEF ReplayTypes
  <1>9. /\ DOMAIN delivered' = 1 .. n + 1 /\ delivered'[n + 1] = d /\ Len(delivered') = n + 1
        /\ \A k \in 1 .. n : delivered'[k] = delivered[k]
    BY <1>7, <1>8 DEF ReplayTypes
  <1>10. AtLast /\ ReplayContiguous
    BY <1>7 DEF WalkInv
  <1>11. ReplayContiguous'
    <2>1. ASSUME NEW k \in 1 .. n
          PROVE  appends[delivered'[k].uid].lsn = IF k = 1 THEN 0 ELSE appends[delivered'[k - 1].uid].end
      <3>1. k # 1 => k - 1 \in 1 .. n
        BY <1>8
      <3>2. QED
        BY <1>8, <1>9, <1>10, <3>1 DEF ReplayContiguous
    <2>2. c = IF n + 1 = 1 THEN 0 ELSE appends[delivered'[n + 1 - 1].uid].end
      <3>1. n = 0 <=> delivered = <<>>
        BY <1>8 DEF ReplayTypes
      <3>2. n # 0 => n \in 1 .. n /\ n + 1 - 1 = n
        BY <1>8
      <3>3. QED
        BY <1>1, <1>8, <1>9, <1>10, <3>1, <3>2 DEF AtLast
    <2>3. appends[delivered'[n + 1].uid].lsn = c
      BY <1>3, <1>6, <1>9, Zenon
    <2>4. \A k \in DOMAIN delivered' : k \in 1 .. n \/ k = n + 1
      BY <1>8, <1>9
    <2>5. \A k \in DOMAIN delivered' :
            appends[delivered'[k].uid].lsn = IF k = 1 THEN 0 ELSE appends[delivered'[k - 1].uid].end
      BY <2>1, <2>2, <2>3, <2>4
    <2>6. QED
      BY <1>7, <2>5, Zenon DEF ReplayContiguous
  <1>12. AtLast'
    <2>1. delivered' # <<>>
      BY <1>8, <1>9, SMTT(90)
    <2>2. QED
      BY <1>3, <1>6, <1>7, <1>9, <2>1, Zenon DEF AtLast
  <1>13. ASSUME NEW i \in DOMAIN appends, Owed(i)
         PROVE  HandedOver(i)' \/ (is_valid(e) /\ e <= appends[i].lsn)
    <2>1. CASE HandedOver(i)
      <3>1. PICK k \in 1 .. n : delivered[k].uid = i /\ (Fits(i) => delivered[k].whole)
        BY <1>8, <2>1 DEF HandedOver
      <3>2. k \in DOMAIN delivered'
        BY <1>8, <1>9
      <3>3. Fits(i)' = Fits(i)
        BY <1>7, Zenon DEF Fits
      <3>4. QED
        BY <1>9, <3>1, <3>2, <3>3, Zenon DEF HandedOver
    <2>2. CASE ~HandedOver(i)
      <3>1. is_valid(c) /\ c <= appends[i].lsn
        BY <1>1, <1>7, <1>13, <2>2, Zenon DEF WalkInv
      <3>2. appends[i].ok
        BY <1>13 DEF Owed
      <3>3. PICK l \in Nat : /\ l = appends[i].lsn /\ l \in Lsn /\ l < maxLsn /\ is_valid(l)
                             /\ cells[l].uid = i
        BY <3>2, AckedHeader, Zenon
      <3>4. CASE l = c
        <4>1. u = i
          BY <1>3, <3>3, <3>4, Zenon
        <4>2. Fits(i) => ReadWhole(c)
          BY <3>2, <3>3, <3>4, FittingReadWhole, Zenon
        <4>3. n + 1 \in DOMAIN delivered'
          BY <1>8, <1>9
        <4>4. Fits(i)' = Fits(i)
          BY <1>7 DEF Fits
        <4>5. QED
          BY <1>6, <1>9, <4>1, <4>2, <4>3, <4>4, Zenon DEF HandedOver
      <3>5. CASE l > c
        <4>1. ~(l < e)
          <5>1. l \in Addr
            BY <3>3, PalfConstants DEF Lsn, Addr
          <5>2. QED
            BY <1>2, <1>3, <3>3, <3>5, <5>1, Zenon DEF BodyInv, NoneInside
        <4>2. e <= l /\ e < maxLsn /\ c < maxLsn
          BY <1>4, <3>3, <3>5, <4>1
        <4>3. is_valid(e)
          <5>1. HeaderChain
            BY Zenon DEF LogInv, ChainIfFits
          <5>2. e = maxLsn \/ is_valid(e)
            <6>1. \A a \in Lsn : a < maxLsn /\ is_valid(a) =>
                    appends[cells[a].uid].end = maxLsn \/ is_valid(appends[cells[a].uid].end)
              BY <5>1, Zenon DEF HeaderChain
            <6>2. QED
              BY <1>2, <1>3, <4>2, <6>1, Zenon
          <5>3. QED
            BY <1>4, <4>2, <5>2
        <4>4. QED
          BY <3>3, <4>2, <4>3
      <3>6. QED
        <4>1. l = c \/ l > c
          BY <1>4, <3>1, <3>3
        <4>2. QED
          BY <3>4, <3>5, <4>1, Zenon
    <2>3. QED
      BY <2>1, <2>2, Zenon
  <1>14. \A i \in DOMAIN appends' : Owed(i)' =>
           HandedOver(i)' \/ (is_valid(current)' /\ current' <= appends'[i].lsn)
    BY <1>7, <1>13, Zenon DEF Owed, is_valid
  <1>15. QED
    BY <1>7, <1>11, <1>12, <1>14, Zenon DEF WalkInv

\* The loop ends only when nothing it owes is left.
LEMMA WalkEnds ==
  ASSUME LogInv, BodyInv, ReplayTypes, WalkInv, HeadersFit, ReplayEnd
  PROVE  WalkInv'
  <1>1. /\ rstate = "run" /\ rstate' = "done"
        /\ UNCHANGED <<appends, cells, rend, known, delivered, current>>
    BY DEF ReplayEnd, vars
  <1>2. ASSUME NEW i \in DOMAIN appends, Owed(i), ~HandedOver(i) PROVE FALSE
    <2>1. is_valid(current) /\ current <= appends[i].lsn
      BY <1>1, <1>2, Zenon DEF WalkInv
    <2>2. PICK c \in Lsn : c = current
      BY Zenon DEF ReplayTypes
    <2>3. HeaderReadable(current)
      BY <2>1, <2>2, WalkHeader, Zenon
    <2>4. current < rend
      <3>1. PICK l \in Nat, end \in Nat : /\ l = appends[i].lsn /\ end = appends[i].end
                                          /\ l + HeaderSize <= end
        BY <1>2, AckedHeader, Zenon DEF Owed
      <3>2. end <= rend /\ rend \in Nat /\ c \in Nat
        BY <1>2, <3>1, PalfConstants, SMTT(90) DEF Owed, ReplayTypes, Lsn
      <3>3. QED
        BY <2>1, <2>2, <3>1, <3>2, PalfConstants, SMTT(90)
    <2>5. QED
      BY <2>3, <2>4 DEF ReplayEnd
  <1>3. \A i \in DOMAIN appends' : Owed(i)' => HandedOver(i)'
    BY <1>1, <1>2, Zenon DEF Owed, HandedOver, Fits
  <1>4. ReplayContiguous'
    BY <1>1, Zenon DEF WalkInv, ReplayContiguous
  <1>5. QED
    BY <1>1, <1>3, <1>4, Zenon DEF WalkInv

LEMMA WalkStep ==
  ASSUME NoTornHeader, InitOnly, LogInv, LogInv', BodyInv, ReplayTypes, ReplayTypes', WalkInv,
         HeadersFit, HeadersFit', [ReplayNext]_allVars
  PROVE  WalkInv'
  <1>1. CASE ReplayAgain
    <2>1. rstate' = "idle" /\ UNCHANGED <<appends, delivered>>
      BY <1>1 DEF ReplayAgain, vars
    <2>2. QED
      BY <2>1, Zenon DEF WalkInv, ReplayContiguous
  <1>2. rstate = "run" => state = "up"
    BY DEF ReplayTypes
  <1>3. QED
    BY <1>1, <1>2, ReplaySteps, WalkOther, WalkStart, WalkTurn, WalkEnds, Zenon

LEMMA ReplayInvariant ==
  ASSUME NoTornHeader, InitOnly
  PROVE  ReplaySpec => []ReplayInv
  <1>1. ReplayInit => ReplayInv
    <2>1. 0 \in Lsn
      BY PalfConstants DEF Lsn
    <2>2. ASSUME ReplayInit PROVE ReplayTypes
      BY <2>1, <2>2 DEF ReplayInit, Init, ReplayTypes
    <2>3. ReplayInit => WalkInv
      BY DEF ReplayInit, WalkInv, ReplayContiguous
    <2>4. QED
      BY <2>2, <2>3 DEF ReplayInv
  <1>2. ReplaySpec => Spec
    BY ReplayIsLog, PTL DEF ReplaySpec, Spec
  <1>3. LogInv /\ LogInv' /\ BodyInv /\ ReplayInv /\ [ReplayNext]_allVars => ReplayInv'
    <2> SUFFICES ASSUME LogInv, LogInv', BodyInv, ReplayInv, [ReplayNext]_allVars PROVE ReplayInv'
      OBVIOUS
    <2>2. TypeOK /\ TypeOK'
      BY DEF LogInv
    <2>3. ReplayTypes'
      BY <2>2, ReplayTypesStep DEF ReplayInv
    <2>4. HeadersFit' => HeadersFit
      <3>1. [Next]_vars
        BY ReplayIsLog
      <3>2. QED
        BY <2>2, <3>1, HistoryKept, FitsBefore
    <2>5. QED
      BY <2>3, <2>4, WalkStep DEF ReplayInv
  <1>4. QED
    BY <1>1, <1>2, <1>3, LogInvariant, BodiesKept, PTL DEF ReplaySpec

\* While no header straddles two blocks and palf_env is opened by init, what a replay_ls
\* that walks without the lock hands to the handler is a gap-free run of the log from
\* its beginning; once it has returned, that holds every append acknowledged before it
\* began, below its end_lsn: for any blocks, payloads, restarts and concurrent appends.
THEOREM ReplayHandsOver ==
  ASSUME NoTornHeader, InitOnly
  PROVE  ReplaySpec => [](HeadersFit => ReplayExact)
  <1>1. ReplayInv /\ HeadersFit => ReplayExact
    BY Zenon DEF ReplayInv, WalkInv, ReplayExact, ReplayComplete, Owed, HandedOver
  <1>2. QED
    BY <1>1, ReplayInvariant, PTL
=============================================================================
