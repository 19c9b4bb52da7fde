---------------------------- MODULE StoreProofs ----------------------------
(***************************************************************************)
(* Proofs about what lies below the memtable, for every value of the       *)
(* constants: a micro block of the configured size always finds room       *)
(* (SSTable), reads are fresh whatever freezes (Tablet), and the background *)
(* thread of a log stream runs its tasks in order (LogIOWorker).           *)
(***************************************************************************)
EXTENDS Tablet, SSTable, FiniteSetTheorems, TLAPS

-----------------------------------------------------------------------------
(* SSTable *)

Row == [id : Nat, size : Nat]
Micro == [rows : Seq(Row), offsets : Seq(Nat), size : Nat]
Block == [header : [row_count : Nat, row_index_offset : Nat, data_length : Nat],
          rows : Seq(Row), offsets : Seq(Nat)]
Entry == [at : Nat, block : Block]
Macro == [seq : Nat, micros : Seq(Entry), size : Nat, row_count : Nat,
          micro_count : Nat]
Writer == [micro : Micro, macro : [0 .. 1 -> Macro], cur : 0 .. 1, seq : Nat]

\* The macro block at hand, and whether it has room for a micro block of the configured size.
Current(w) == w.macro[w.cur]
Spacious(w) == Current(w).size + MicroSize <= MacroSize

\* The length of the micro block that would be built now.
Length(w) == build_block(w.micro).header.data_length

\* A macro block is given out in time: between two rows there is room for a micro block of
\* the configured size, as long as none was longer.
DumpInv ==
  /\ writer \in Writer /\ appended \in Seq(Row) /\ biggest \in Nat /\ dropped \in Nat
  /\ phase = "append" /\ biggest <= MicroSize => Spacious(writer)
  /\ NothingDropped

-----------------------------------------------------------------------------
\* A built block has the length of its rows and of its index (build_block).
LEMMA BuiltType ==
  ASSUME SizeConstants, NEW m \in Micro
  PROVE  build_block(m) \in Block
  BY DEF SizeConstants, Micro, Block, build_block, ObMicroBlockHeader

\* A fresh macro block has room for a micro block (ObMacroBlock::init).
LEMMA FreshMacro ==
  ASSUME SizeConstants, NEW n \in Nat
  PROVE  macro_init(n) \in Macro /\ macro_init(n).size + MicroSize <= MacroSize
  BY DEF SizeConstants, macro_init, Macro

\* ObMicroBlockWriter::reset.
LEMMA FreshMicro ==
  ASSUME SizeConstants
  PROVE  MicroReset \in Micro /\ MicroReset.rows = <<>>
  BY DEF SizeConstants, MicroReset, Micro

\* The writer of a new dump (ObMacroBlockWriter::open).
LEMMA OpenedWriter ==
  ASSUME SizeConstants
  PROVE  writer_open \in Writer /\ Spacious(writer_open)
  BY FreshMicro, FreshMacro DEF writer_open, Writer, Spacious, Current

\* A writer with some of its parts exchanged.
Changed(w, micro, i, macro, c, n) ==
  [w EXCEPT !.micro = micro, !.macro = [w.macro EXCEPT ![i] = macro], !.cur = c, !.seq = n]

\* v is a writer with these parts.
Has(v, micro, i, macro, c) == v \in Writer /\ v.micro = micro /\ v.cur = c /\ v.macro[i] = macro

\* Exchanging parts of a writer gives a writer with these parts.
LEMMA ChangedWriter ==
  ASSUME NEW w \in Writer, NEW micro \in Micro, NEW i \in 0 .. 1, NEW macro \in Macro,
         NEW c \in 0 .. 1, NEW n \in Nat
  PROVE  Has(Changed(w, micro, i, macro, c, n), micro, i, macro, c)
<1> DEFINE ms == [w.macro EXCEPT ![i] = macro]
<1>1. ms \in [0 .. 1 -> Macro] /\ ms[i] = macro
  BY DEF Writer
<1>2. Changed(w, micro, i, macro, c, n) = [w EXCEPT !.micro = micro, !.macro = ms, !.cur = c, !.seq = n]
  BY DEF Changed
<1> HIDE DEF ms
<1>3. Changed(w, micro, i, macro, c, n) = [micro |-> micro, macro |-> ms, cur |-> c, seq |-> n]
  BY <1>2, Zenon DEF Writer
<1> QED BY <1>1, <1>3 DEF Writer, Has

\* A row changes the micro block and a counter, not the room in the macro block.
LEMMA CountedRow ==
  ASSUME SizeConstants, NEW w \in Writer, NEW r \in Row
  PROVE  /\ Counted(w, r) \in Writer
         /\ Counted(w, r).cur = w.cur
         /\ Current(Counted(w, r)).size = Current(w).size
<1> DEFINE m == Current(w)
           new == [m EXCEPT !.row_count = @ + 1]
           micro == micro_append_row(w.micro, r)
<1>1. micro \in Micro
  BY DEF micro_append_row, Micro, Row, Writer
<1>2. m \in Macro /\ w.cur \in 0 .. 1 /\ w.seq \in Nat
  BY DEF Current, Writer
<1> HIDE DEF m
<1>3. new \in Macro /\ new.size = m.size
  BY <1>2 DEF Macro
<1>4. Counted(w, r) = Changed(w, micro, w.cur, new, w.cur, w.seq)
  BY Zenon DEF Counted, Changed, Current, Writer, m
<1> HIDE DEF new, micro
<1>5. Has(Counted(w, r), micro, w.cur, new, w.cur)
  BY <1>1, <1>2, <1>3, <1>4, ChangedWriter, Zenon
<1> QED BY <1>3, <1>5 DEF Has, Current, m

\* A block goes into the macro block exactly when it has room (write_micro_block).
LEMMA WrittenBlock ==
  ASSUME SizeConstants, NEW m \in Macro, NEW b \in Block
  PROVE  /\ write_micro_block(m, b) \in Macro
         /\ write_micro_block(m, b).size =
              IF HasRoom(m, b) THEN m.size + b.header.data_length ELSE m.size
<1> DEFINE entry == [at |-> m.size, block |-> b]
           n == b.header.data_length
<1>1. n \in Nat
  BY DEF Block
<1>2. m.size \in Nat /\ m.micros \in Seq(Entry)
  BY DEF Macro
<1>3. entry \in Entry
  BY <1>2 DEF Entry
<1> DEFINE ms == Append(m.micros, entry)
<1> HIDE DEF entry
<1>4. ms \in Seq(Entry)
  BY <1>2, <1>3
<1> DEFINE total == m.size + n
           new == [m EXCEPT !.micros = ms, !.size = total]
<1>5. write_micro_block(m, b) = IF ~HasRoom(m, b) THEN m ELSE new
  BY DEF write_micro_block, entry
<1>6. total \in Nat
  BY <1>1, <1>2
<1> HIDE DEF total, ms
<1>7. new \in Macro /\ new.size = total
  BY <1>4, <1>6, Zenon DEF Macro
<1> HIDE DEF new
<1> QED BY <1>5, <1>7 DEF total

\* The pending micro block is moved into the macro block at hand (PutMicro).
LEMMA PutBlock ==
  ASSUME SizeConstants, NEW w \in Writer, NEW c \in BOOLEAN
  PROVE  /\ PutMicro(w, c) \in Writer /\ PutMicro(w, c).cur = w.cur
         /\ PutMicro(w, c).micro.rows = <<>>
         /\ Current(PutMicro(w, c)).size =
              IF HasRoom(Current(w), build_block(w.micro)) THEN Current(w).size + Length(w)
              ELSE Current(w).size
<1> DEFINE b == build_block(w.micro)
           m == write_micro_block(Current(w), b)
           n == IF HasRoom(Current(w), b) \/ c THEN Current(w).micro_count + 1 ELSE Current(w).micro_count
           new == [m EXCEPT !.micro_count = n]
<1>1. Current(w) \in Macro /\ w.micro \in Micro /\ w.cur \in 0 .. 1 /\ w.seq \in Nat
  BY DEF Current, Writer
<1>2. b \in Block
  BY <1>1, BuiltType
<1>3. m \in Macro /\ m.size = IF HasRoom(Current(w), b) THEN Current(w).size + b.header.data_length
                              ELSE Current(w).size
  BY <1>1, <1>2, WrittenBlock
<1>4. n \in Nat
  BY <1>1 DEF Macro
<1>5. PutMicro(w, c) = Changed(w, MicroReset, w.cur, new, w.cur, w.seq)
  BY Zenon DEF PutMicro, Changed, Current, Writer
<1> HIDE DEF m, n, b
<1>6. new \in Macro /\ new.size = m.size
  BY <1>3, <1>4 DEF Macro
<1> HIDE DEF new
<1>7. Has(PutMicro(w, c), MicroReset, w.cur, new, w.cur)
  BY <1>1, <1>5, <1>6, FreshMicro, ChangedWriter, Zenon
<1> QED BY <1>3, <1>6, <1>7, FreshMicro DEF Has, Length, Current, b

\* The other buffer starts a new macro block (flush_current_macro_).
LEMMA Flushed ==
  ASSUME SizeConstants, NEW w \in Writer
  PROVE  flush_current_macro_(w).w \in Writer /\ Spacious(flush_current_macro_(w).w)
<1> DEFINE v == flush_current_macro_(w).w
           new == macro_init(w.seq)
<1>1. v = Changed(w, w.micro, 1 - w.cur, new, 1 - w.cur, w.seq + 1)
  BY Zenon DEF flush_current_macro_, Changed, Writer
<1>2. w.micro \in Micro /\ 1 - w.cur \in 0 .. 1 /\ w.seq \in Nat /\ w.seq + 1 \in Nat
  BY DEF Writer
<1>3. new \in Macro /\ new.size + MicroSize <= MacroSize
  BY <1>2, FreshMacro
<1> HIDE DEF v, new
<1>4. Has(v, w.micro, 1 - w.cur, new, 1 - w.cur)
  BY <1>1, <1>2, <1>3, ChangedWriter, Zenon
<1> QED BY <1>3, <1>4 DEF Has, Spacious, Current, v

-----------------------------------------------------------------------------
\* A micro block of the configured size finds room where there is room for one.
LEMMA RoomForBlock ==
  ASSUME SizeConstants, NEW w \in Writer, Spacious(w), Length(w) <= MicroSize
  PROVE  HasRoom(Current(w), build_block(w.micro))
<1>1. Length(w) \in Nat /\ Current(w).size \in Nat
  BY BuiltType, Zenon DEF Writer, Current, Macro, Block, Length
<1> QED BY <1>1 DEF Spacious, HasRoom, Length, SizeConstants

\* append_row gives a writer back, and one with room: a macro block is exchanged when less
\* than a micro block is left in it.
LEMMA AppendedRow ==
  ASSUME SizeConstants, NEW w \in Writer, NEW r \in Row
  PROVE  /\ append_row(w, r).w \in Writer
         /\ LET w1 == Counted(w, r)
            IN Spacious(w) /\ (is_block_full(w1.micro) => Length(w1) <= MicroSize)
                 => Spacious(append_row(w, r).w)
<1> DEFINE w1 == Counted(w, r)
           full == is_block_full(w1.micro)
           w2 == IF full THEN PutMicro(w1, FALSE) ELSE w1
           w3 == IF w2.micro.rows # <<>> THEN PutMicro(w2, TRUE) ELSE w2
<1>1. w1 \in Writer /\ Current(w1).size = Current(w).size
  BY CountedRow
<1>2. w2 \in Writer
  BY <1>1, PutBlock, Zenon
<1>3. w3 \in Writer
  BY <1>2, PutBlock, Zenon
<1>4. flush_current_macro_(w3).w \in Writer /\ Spacious(flush_current_macro_(w3).w)
  BY <1>3, Flushed, Zenon
<1>5. append_row(w, r).w = IF full /\ ~HasRoom(Current(w1), build_block(w1.micro)) THEN w2
                           ELSE IF MacroFull(w2) THEN flush_current_macro_(w3).w ELSE w2
  BY DEF append_row, Current
<1>6. ASSUME NEW v \in Writer, ~MacroFull(v) PROVE Spacious(v)
  <2>1. Current(v).size \in Nat
    BY Zenon DEF Writer, Current, Macro
  <2> QED BY <1>6, <2>1 DEF MacroFull, get_remain_size, Spacious, Current, SizeConstants
<1>7. Spacious(w) => Spacious(w1)
  BY <1>1 DEF Spacious
<1>8. full /\ Spacious(w1) /\ Length(w1) <= MicroSize => HasRoom(Current(w1), build_block(w1.micro))
  BY <1>1, RoomForBlock
<1> HIDE DEF w1, w2, w3, full
<1>9. append_row(w, r).w \in Writer
  BY <1>2, <1>4, <1>5
<1>10. Spacious(w) /\ (full => Length(w1) <= MicroSize) => Spacious(append_row(w, r).w)
  BY <1>2, <1>4, <1>5, <1>6, <1>7, <1>8
<1> QED BY <1>9, <1>10 DEF w1, full

\* The histories of a step: with room and a micro block of the configured size, nothing is
\* dropped.
LEMMA NotedStep ==
  ASSUME SizeConstants, NEW w \in Writer, NEW builds \in BOOLEAN, biggest \in Nat, dropped \in Nat,
         NothingDropped, biggest <= MicroSize => Spacious(w), Noted(w, builds)
  PROVE  /\ biggest' \in Nat /\ dropped' \in Nat /\ NothingDropped'
         /\ biggest' <= MicroSize => biggest <= MicroSize /\ (builds => Length(w) <= MicroSize)
<1>1. Length(w) \in Nat
  BY BuiltType DEF Writer, Block, Length
<1>2. /\ biggest' = IF builds /\ Length(w) > biggest THEN Length(w) ELSE biggest
      /\ dropped' = IF builds /\ ~HasRoom(Current(w), build_block(w.micro)) THEN dropped + 1 ELSE dropped
  BY DEF Noted, Length, Current
<1>3. biggest' \in Nat /\ dropped' \in Nat
  BY <1>1, <1>2
<1>4. biggest' <= MicroSize => biggest <= MicroSize /\ (builds => Length(w) <= MicroSize)
  BY <1>1, <1>2 DEF SizeConstants
<1>5. biggest' <= MicroSize /\ builds => HasRoom(Current(w), build_block(w.micro))
  BY <1>4, RoomForBlock
<1> QED BY <1>2, <1>3, <1>4, <1>5 DEF NothingDropped

-----------------------------------------------------------------------------
LEMMA DumpInvInit == ASSUME SizeConstants PROVE SInit => DumpInv
  BY OpenedWriter DEF SInit, DumpInv, NothingDropped

LEMMA DumpInvStep == ASSUME SizeConstants PROVE DumpInv /\ [SNext]_svars => DumpInv'
<1> SUFFICES ASSUME DumpInv, [SNext]_svars PROVE DumpInv'
  OBVIOUS
<1>1. ASSUME NEW s \in RowSizes, AppendRow(s) PROVE DumpInv'
  <2> DEFINE r == [id |-> Len(appended) + 1, size |-> s]
             w1 == Counted(writer, r)
             builds == is_block_full(w1.micro) \/ MacroFull(w1)
  <2>1. r \in Row
    BY DEF DumpInv, Row, SizeConstants
  <2>2. w1 \in Writer /\ Current(w1).size = Current(writer).size
    BY <2>1, CountedRow DEF DumpInv
  <2>3. /\ phase = "append" /\ writer' = append_row(writer, r).w /\ appended' = Append(appended, r)
        /\ Noted(w1, builds) /\ phase' = phase
    BY <1>1 DEF AppendRow
  <2>4. biggest <= MicroSize => Spacious(writer) /\ Spacious(w1)
    BY <2>2, <2>3 DEF DumpInv, Spacious
  <2>5. builds \in BOOLEAN
    BY DEF is_block_full, MacroFull
  <2> HIDE DEF r
  <2>6. /\ biggest' \in Nat /\ dropped' \in Nat /\ NothingDropped'
        /\ biggest' <= MicroSize => biggest <= MicroSize /\ (builds => Length(w1) <= MicroSize)
    BY <2>2, <2>3, <2>4, <2>5, NotedStep, Zenon DEF DumpInv
  <2>7. writer' \in Writer /\ (biggest' <= MicroSize => Spacious(append_row(writer, r).w))
    BY <2>1, <2>3, <2>4, <2>6, AppendedRow DEF DumpInv
  <2>8. appended' \in Seq(Row)
    BY <2>1, <2>3 DEF DumpInv
  <2> QED BY <2>3, <2>6, <2>7, <2>8 DEF DumpInv, Spacious, Current
<1>2. CASE Close
  <2> DEFINE builds == writer.micro.rows # <<>>
             w == IF builds THEN PutMicro(writer, TRUE) ELSE writer
  <2>1. w \in Writer
    BY PutBlock, Zenon DEF DumpInv
  <2>2. writer' = flush_current_macro_(w).w /\ phase' = "write" /\ appended' = appended /\ Noted(writer, builds)
    BY <1>2 DEF Close, writer_close
  <2>3. writer' \in Writer
    BY <2>1, <2>2, Flushed, Zenon
  <2>4. biggest' \in Nat /\ dropped' \in Nat /\ NothingDropped'
    BY <1>2, <2>2, NotedStep, Zenon DEF DumpInv, Close
  <2> QED BY <2>2, <2>3, <2>4, Zenon DEF DumpInv
<1>3. CASE Crash
  BY <1>3, OpenedWriter DEF Crash, DumpInv, NothingDropped
<1>4. CASE WriteBlock \/ SaveMeta \/ Reopen \/ UNCHANGED svars
  BY <1>4 DEF WriteBlock, SaveMeta, Reopen, svars, DumpInv, NothingDropped, Spacious, Current
<1> QED BY <1>1, <1>2, <1>3, <1>4 DEF SNext

\* A micro block no longer than micro_block_size_ always finds room in the macro block at hand
\* (ObMacroBlockWriter::append_row), for any sizes of rows, blocks and headers.
THEOREM RoomAlways == ASSUME SizeConstants PROVE SSpec => []NothingDropped
<1>1. SInit => DumpInv
  BY DumpInvInit
<1>2. DumpInv /\ [SNext]_svars => DumpInv'
  BY DumpInvStep
<1>3. DumpInv => NothingDropped
  BY DEF DumpInv
<1> QED BY <1>1, <1>2, <1>3, PTL DEF SSpec

-----------------------------------------------------------------------------
(* Tablet *)

TabletTypes ==
  /\ pc \in [Threads -> {"idle", "active", "check", "set", "read", "size", "freeze", "renew", "remove"}]
  /\ table \in [Threads -> {None} \cup Tables]
  /\ key \in [Threads -> Keys \cup {CHOOSE k \in Keys : TRUE}]
  /\ \A p \in Writers \cup Readers : pc[p] # "idle" => key[p] \in Keys
  /\ rows \in [Tables -> [Keys -> Nat]] /\ got \in [Readers -> Int] /\ seen \in [Readers -> Nat]
  /\ acked \subseteq [key : Keys, row : Nat, table : Tables] /\ IsFiniteSet(acked)

\* Until a freeze the first memtable is the only one; with it, try_freeze_all holds both
\* mutexes for good.
FreezeInv ==
  /\ \/ frozenList = <<>> /\ active \in {None, 1}
     \/ /\ frozenList = <<1>> /\ active = None
        /\ mgrMutex = Freezer /\ pc[Freezer] = "renew"
  /\ pc[Freezer] \in {"size", "freeze", "renew"} => storeMutex = Freezer
  /\ \A p \in Writers \cup Readers : pc[p] \in {"check", "set", "read"} => table[p] = 1

\* The memtable has the newest acknowledged row of every key.
RowInv ==
  \A k \in Keys :
    /\ rows[1][k] <= Cardinality(acked)
    /\ rows[1][k] = None \/ \E a \in acked : a.key = k /\ a.row = rows[1][k]
    /\ \A a \in acked : a.key = k => a.row <= rows[1][k]

\* A read under way will find what was acknowledged when it was called.
SeenInv == \A r \in Readers : pc[r] \in {"active", "read"} => seen[r] <= rows[1][key[r]]

TabletInv == TabletTypes /\ FreezeInv /\ RowInv /\ SeenInv /\ Fresh

LEMMA TabletInvInit == ASSUME TabletConstants PROVE Init => TabletInv
<1>. SUFFICES ASSUME Init PROVE TabletInv
  OBVIOUS
<1>1. IsFiniteSet(acked) /\ acked = {} /\ Cardinality(acked) = 0
  BY FS_EmptySet DEF Init
<1>2. TabletTypes
  BY <1>1 DEF Init, TabletTypes, Threads, Tables, None
<1>3. FreezeInv
  BY DEF Init, FreezeInv, Threads
<1>4. RowInv
  BY <1>1 DEF Init, RowInv, Tables, None
<1>5. SeenInv /\ Fresh
  BY DEF Init, SeenInv, Fresh, Threads
<1>. QED
  BY <1>2, <1>3, <1>4, <1>5 DEF TabletInv

\* What get_active_memtable hands out, to a thread that gets the mutex.
LEMMA ActiveIsFirst ==
  ASSUME TabletConstants, FreezeInv, NEW t \in Tables, get_active_memtable(t)
  PROVE  t = 1 /\ frozenList = <<>> /\ active' = 1
<1>1. mgrMutex # Freezer
  BY DEF get_active_memtable, TabletConstants
<1>2. frozenList = <<>> /\ active \in {None, 1}
  BY <1>1 DEF FreezeInv
<1>. QED
  BY <1>2 DEF get_active_memtable, None

\* The row of a write is newer than all rows before it.
LEMMA NewRow ==
  ASSUME TabletTypes, RowInv, NEW k, NEW t
  PROVE  LET n == Cardinality(acked) + 1
             new == acked \cup {[key |-> k, row |-> n, table |-> t]}
         IN  /\ n \in Nat /\ (\A a \in acked : a.row < n)
             /\ IsFiniteSet(new) /\ Cardinality(new) = n
<1>. DEFINE n == Cardinality(acked) + 1
            x == [key |-> k, row |-> n, table |-> t]
<1>1. Cardinality(acked) \in Nat /\ IsFiniteSet(acked)
  BY FS_CardinalityType DEF TabletTypes
<1>2. ASSUME NEW a \in acked PROVE a.row < n
  <2>1. a.key \in Keys /\ a.row \in Nat /\ rows[1][a.key] \in Nat
    BY DEF TabletTypes, Tables
  <2>. QED
    BY <1>1, <2>1 DEF RowInv
<1>3. x \notin acked
  BY <1>1, <1>2
<1>4. IsFiniteSet(acked \cup {x}) /\ Cardinality(acked \cup {x}) = Cardinality(acked) + 1
  BY <1>1, <1>3, FS_AddElement, Zenon
<1>. QED
  BY <1>1, <1>2, <1>4

\* NewestAcked is what the memtable has.
LEMMA NewestIsRow ==
  ASSUME TabletTypes, RowInv, NEW k \in Keys
  PROVE  NewestAcked(k) = rows[1][k] /\ rows[1][k] \in Nat
<1>. DEFINE S == {0} \cup {a.row : a \in {b \in acked : b.key = k}}
            m == rows[1][k]
<1>1. m \in Nat /\ S \subseteq Nat
  BY DEF TabletTypes, Tables
<1>2. m \in S /\ \A y \in S : m >= y
  BY <1>1 DEF RowInv, None
<1>3. \A x \in S : (\A y \in S : x >= y) => x = m
  BY <1>1, <1>2
<1>4. NewestAcked(k) = CHOOSE x \in S : \A y \in S : x >= y
  BY DEF NewestAcked, Max
<1>. HIDE DEF S, m
<1>5. NewestAcked(k) = m
  BY <1>2, <1>3, <1>4
<1>. QED
  BY <1>1, <1>5 DEF m

\* A read that holds the first memtable answers with the row in it (ObTableStore::get).
LEMMA FindsRow ==
  ASSUME TabletTypes, FreezeInv, NEW r \in Readers, pc[r] = "read"
  PROVE  FirstFound(key[r], ReadOrder(r)) = rows[1][key[r]] /\ key[r] \in Keys
<1>. DEFINE k == key[r]
            ts == ReadOrder(r)
            found == {i \in DOMAIN ts : rows[ts[i]][k] # None}
<1>1. table[r] = 1 /\ k \in Keys
  BY DEF FreezeInv, TabletTypes
<1>2. frozenList = <<>> \/ frozenList = <<1>>
  BY DEF FreezeInv
<1>3. 1 \in DOMAIN ts /\ DOMAIN ts \subseteq Nat \ {0} /\ \A i \in DOMAIN ts : ts[i] = 1
  <2>1. ts = <<1>> \o frozenList
    BY <1>1, Zenon DEF ReadOrder
  <2>2. <<1>> \in Seq({1}) /\ Len(<<1>>) = 1 /\ frozenList \in Seq({1})
    <3>1. \A s \in Seq({1}) : Append(s, 1) \in Seq({1})
      OBVIOUS
    <3>2. <<>> \in Seq({1}) /\ Append(<<>>, 1) = <<1>> /\ Len(<<1>>) = 1
      OBVIOUS
    <3>. QED
      BY <1>2, <3>1, <3>2, Zenon
  <2>3. ts \in Seq({1}) /\ Len(ts) = 1 + Len(frozenList)
    BY <2>1, <2>2
  <2>. HIDE DEF ts
  <2>. QED
    BY <2>2, <2>3
<1>. HIDE DEF ts
<1>4. FirstFound(k, ts) = IF found = {} THEN None ELSE rows[ts[Min(found)]][k]
  BY DEF FirstFound
<1>5. ASSUME rows[1][k] = None PROVE FirstFound(k, ts) = rows[1][k]
  <2>1. found = {}
    BY <1>3, <1>5
  <2>. HIDE DEF found
  <2>. QED
    BY <1>4, <1>5, <2>1, Zenon
<1>6. ASSUME rows[1][k] # None PROVE FirstFound(k, ts) = rows[1][k]
  <2>1. 1 \in found /\ \A i \in found : i \in DOMAIN ts /\ 1 <= i
    BY <1>3, <1>6
  <2>2. Min(found) \in found
    <3>1. \E x \in found : \A y \in found : x =< y
      BY <2>1
    <3>. QED
      BY <3>1, Zenon DEF Min
  <2>3. ts[Min(found)] = 1
    BY <1>3, <2>1, <2>2, Zenon
  <2>. HIDE DEF found
  <2>. QED
    BY <1>4, <2>1, <2>3, Zenon
<1>. QED
  BY <1>1, <1>5, <1>6 DEF ts

\* A step that leaves the rows, and moves only threads that are not reading.
LEMMA Reads ==
  ASSUME TabletInv, UNCHANGED <<rows, acked, got, seen>>,
         \A r \in Readers : key'[r] = key[r] /\ (pc'[r] = pc[r] \/ (pc[r] = "active" /\ pc'[r] = "read"))
  PROVE  RowInv' /\ SeenInv' /\ Fresh'
  BY DEF TabletInv, RowInv, SeenInv, Fresh

LEMMA WriterStep ==
  ASSUME TabletConstants, TabletInv, NEW w \in Writers,
         (\E k \in Keys : WriteCall(w, k)) \/ WriteGetActive(w) \/ WriteCheck(w)
  PROVE  TabletInv'
<1>. USE DEF TabletInv
<1>0. w \in Threads /\ w \notin Readers /\ w # Freezer /\ Readers \subseteq Threads /\ Freezer \in Threads
  BY DEF TabletConstants, Threads
<1>maps. DOMAIN pc = Threads /\ DOMAIN table = Threads /\ Writers \cup Readers \subseteq Threads
  BY DEF TabletTypes, Threads
<1>1. ASSUME NEW k \in Keys, WriteCall(w, k) PROVE TabletInv'
  <2>1. /\ key' = [key EXCEPT ![w] = k] /\ pc' = [pc EXCEPT ![w] = "active"]
        /\ UNCHANGED <<storeMutex, mgrMutex, active, frozenList, rows, table, got, seen, acked>>
    BY <1>1 DEF WriteCall, Goto, mutexes, mgr, tables
  <2>2. TabletTypes'
    BY <1>0, <2>1 DEF TabletTypes
  <2>3. FreezeInv'
    BY <1>0, <1>maps, <2>1, Zenon DEF FreezeInv
  <2>. QED
    BY <1>0, <2>1, <2>2, <2>3, Reads, Zenon DEF TabletTypes
<1>2. CASE WriteGetActive(w)
  <2>1. PICK t \in Tables : get_active_memtable(t) /\ table' = [table EXCEPT ![w] = t]
    BY <1>2, Zenon DEF WriteGetActive
  <2>2. t = 1 /\ frozenList = <<>> /\ active' = 1 /\ frozenList' = frozenList /\ UNCHANGED <<mgrMutex, rows>>
    BY <2>1, ActiveIsFirst DEF get_active_memtable, tables
  <2>3. /\ pc[w] = "active" /\ pc' = [pc EXCEPT ![w] = "check"]
        /\ UNCHANGED <<storeMutex, key, got, seen, acked>>
    BY <1>2 DEF WriteGetActive, Goto
  <2>4. TabletTypes'
    BY <1>0, <2>1, <2>2, <2>3 DEF TabletTypes
  <2>5. FreezeInv'
    BY <1>0, <1>maps, <2>1, <2>2, <2>3 DEF FreezeInv
  <2>. QED
    BY <1>0, <2>2, <2>3, <2>4, <2>5, Reads, Zenon DEF TabletTypes
<1>3. CASE WriteCheck(w)
  <2>1. /\ pc[w] = "check" /\ pc' = [pc EXCEPT ![w] = IF isFrozen[table[w]] THEN "idle" ELSE "set"]
        /\ UNCHANGED <<storeMutex, mgrMutex, active, frozenList, rows, table, key, got, seen, acked>>
    BY <1>3, Zenon DEF WriteCheck, Goto, mutexes, mgr, tables
  <2>2. TabletTypes'
    <3>1. CASE pc' = [pc EXCEPT ![w] = "idle"]
      BY <1>0, <2>1, <3>1, SMTT(30) DEF TabletTypes
    <3>2. CASE pc' = [pc EXCEPT ![w] = "set"]
      BY <1>0, <2>1, <3>2, SMTT(30) DEF TabletTypes
    <3>. QED
      BY <2>1, <3>1, <3>2, Zenon
  <2>3. FreezeInv'
    BY <1>0, <1>maps, <2>1, Zenon DEF FreezeInv
  <2>. QED
    BY <1>0, <2>1, <2>2, <2>3, Reads, Zenon DEF TabletTypes
<1>. QED
  BY <1>1, <1>2, <1>3

LEMMA SetStep ==
  ASSUME TabletConstants, TabletInv, NEW w \in Writers, WriteSet(w)
  PROVE  TabletInv'
<1>. USE DEF TabletInv
<1>. DEFINE k == key[w]
            n == Cardinality(acked) + 1
            x == [key |-> k, row |-> n, table |-> 1]
<1>0. w \in Threads /\ w \notin Readers /\ w # Freezer /\ Readers \subseteq Threads /\ Freezer \in Threads
  BY DEF TabletConstants, Threads
<1>maps. DOMAIN pc = Threads /\ DOMAIN table = Threads /\ Writers \cup Readers \subseteq Threads
  BY DEF TabletTypes, Threads
<1>1. pc[w] = "set" /\ table[w] = 1 /\ k \in Keys /\ 1 \in Tables
  BY DEF WriteSet, FreezeInv, TabletTypes, Tables
<1>2. /\ rows' = [rows EXCEPT ![1][k] = n] /\ acked' = acked \cup {x}
      /\ pc' = [pc EXCEPT ![w] = "idle"]
      /\ UNCHANGED <<storeMutex, mgrMutex, active, frozenList, table, key, got, seen>>
  BY <1>1 DEF WriteSet, Goto, mutexes, mgr
<1>3. n \in Nat /\ (\A a \in acked : a.row < n) /\ IsFiniteSet(acked') /\ Cardinality(acked') = n
  BY <1>2, NewRow, Zenon
<1>4. Cardinality(acked) \in Nat /\ n > Cardinality(acked)
  BY FS_CardinalityType DEF TabletTypes
<1>. HIDE DEF n
<1>5. x \in [key : Keys, row : Nat, table : Tables]
  BY <1>1, <1>3
<1>6. rows' \in [Tables -> [Keys -> Nat]]
  BY <1>1, <1>2, <1>3 DEF TabletTypes
<1>7. TabletTypes'
  BY <1>0, <1>2, <1>3, <1>5, <1>6 DEF TabletTypes
<1>8. FreezeInv'
  BY <1>0, <1>maps, <1>2 DEF FreezeInv
<1>9. rows'[1][k] = n /\ \A j \in Keys \ {k} : rows'[1][j] = rows[1][j]
  <2>1. rows \in [Tables -> [Keys -> Nat]] /\ rows[1] \in [Keys -> Nat]
    BY <1>1 DEF TabletTypes
  <2>2. rows'[1] = [rows[1] EXCEPT ![k] = n]
    BY <1>1, <1>2, <2>1, SMTT(30)
  <2>. QED
    BY <1>1, <2>1, <2>2
<1>10. \A j \in Keys : rows[1][j] \in Nat /\ rows[1][j] <= rows'[1][j]
  BY <1>1, <1>3, <1>4, <1>9 DEF TabletTypes, RowInv
<1>11. RowInv'
  <2>. SUFFICES ASSUME NEW j \in Keys
                PROVE  /\ rows'[1][j] <= Cardinality(acked')
                       /\ rows'[1][j] = None \/ \E a \in acked' : a.key = j /\ a.row = rows'[1][j]
                       /\ \A a \in acked' : a.key = j => a.row <= rows'[1][j]
    BY Zenon DEF RowInv
  <2>1. CASE j = k
    <3>1. x.key = k /\ x.row = n /\ x \in acked'
      BY <1>2
    <3>2. \A a \in acked' : a.row <= n
      BY <1>2, <1>3, <1>5 DEF TabletTypes
    <3>. QED
      BY <1>3, <1>9, <2>1, <3>1, <3>2, Zenon
  <2>2. CASE j # k
    <3>1. \A a \in acked' : a.key = j => a \in acked
      BY <1>2, <2>2
    <3>2. rows[1][j] <= n
      <4>1. rows[1][j] <= Cardinality(acked) /\ rows[1][j] \in Nat
        BY <1>10, Zenon DEF RowInv
      <4>. QED
        BY <1>3, <1>4, <4>1
    <3>. QED
      BY <1>2, <1>3, <1>9, <2>2, <3>1, <3>2 DEF RowInv
  <2>. QED
    BY <2>1, <2>2, Zenon
<1>12. SeenInv'
  <2>. SUFFICES ASSUME NEW r \in Readers, pc'[r] \in {"active", "read"}
                PROVE  seen'[r] <= rows'[1][key'[r]]
    BY Zenon DEF SeenInv
  <2>1. pc[r] \in {"active", "read"} /\ key[r] \in Keys
    BY <1>0, <1>2 DEF TabletTypes
  <2>2. seen[r] \in Nat /\ seen[r] <= rows[1][key[r]] /\ rows'[1][key[r]] \in Nat
    BY <2>1, <1>6 DEF SeenInv, TabletTypes, Tables
  <2>. QED
    BY <1>2, <1>10, <2>1, <2>2
<1>13. Fresh'
  BY <1>2 DEF Fresh
<1>. QED
  BY <1>7, <1>8, <1>11, <1>12, <1>13

LEMMA ReaderStep ==
  ASSUME TabletConstants, TabletInv, NEW r \in Readers,
         (\E k \in Keys : ReadCall(r, k)) \/ ReadGetActive(r) \/ Read(r)
  PROVE  TabletInv'
<1>. USE DEF TabletInv
<1>0. r \in Threads /\ r \notin Writers /\ r # Freezer /\ Readers \subseteq Threads /\ Freezer \in Threads
  BY DEF TabletConstants, Threads
<1>maps. DOMAIN pc = Threads /\ DOMAIN table = Threads /\ Writers \cup Readers \subseteq Threads
  BY DEF TabletTypes, Threads
<1>1. ASSUME NEW k \in Keys, ReadCall(r, k) PROVE TabletInv'
  <2>1. /\ key' = [key EXCEPT ![r] = k] /\ pc' = [pc EXCEPT ![r] = "active"]
        /\ seen' = [seen EXCEPT ![r] = rows[1][k]] /\ got' = [got EXCEPT ![r] = -1]
        /\ UNCHANGED <<storeMutex, mgrMutex, active, frozenList, rows, table, acked>>
    BY <1>1, NewestIsRow, Zenon DEF ReadCall, Goto, mutexes, mgr, tables
  <2>2. rows[1][k] \in Nat
    BY NewestIsRow, Zenon
  <2>3. TabletTypes'
    BY <1>0, <2>1, <2>2 DEF TabletTypes
  <2>4. FreezeInv'
    BY <1>0, <1>maps, <2>1 DEF FreezeInv
  <2>5. SeenInv'
    BY <1>0, <2>1, <2>2 DEF SeenInv, TabletTypes
  <2>6. RowInv' /\ Fresh'
    BY <1>0, <2>1 DEF RowInv, Fresh, TabletTypes
  <2>. QED
    BY <2>3, <2>4, <2>5, <2>6
<1>2. CASE ReadGetActive(r)
  <2>1. PICK t \in Tables : get_active_memtable(t) /\ table' = [table EXCEPT ![r] = t]
    BY <1>2, Zenon DEF ReadGetActive
  <2>2. t = 1 /\ frozenList = <<>> /\ active' = 1 /\ frozenList' = frozenList /\ UNCHANGED <<mgrMutex, rows>>
    BY <2>1, ActiveIsFirst DEF get_active_memtable, tables
  <2>3. /\ pc[r] = "active" /\ pc' = [pc EXCEPT ![r] = "read"]
        /\ UNCHANGED <<storeMutex, key, got, seen, acked>>
    BY <1>2 DEF ReadGetActive, Goto
  <2>4. TabletTypes'
    BY <1>0, <2>1, <2>2, <2>3 DEF TabletTypes
  <2>5. FreezeInv'
    BY <1>0, <1>maps, <2>1, <2>2, <2>3 DEF FreezeInv
  <2>. QED
    BY <1>0, <2>2, <2>3, <2>4, <2>5, Reads, Zenon DEF TabletTypes
<1>3. CASE Read(r)
  <2>1. /\ pc[r] = "read" /\ pc' = [pc EXCEPT ![r] = "idle"]
        /\ got' = [got EXCEPT ![r] = rows[1][key[r]]]
        /\ UNCHANGED <<storeMutex, mgrMutex, active, frozenList, rows, table, key, seen, acked>>
    BY <1>3, FindsRow, Zenon DEF Read, Goto, mutexes, mgr, tables
  <2>2. rows[1][key[r]] \in Nat
    BY <2>1, FindsRow DEF TabletTypes, Tables
  <2>3. TabletTypes'
    <3>1. got' \in [Readers -> Int]
      BY <2>1, <2>2, SMTT(30) DEF TabletTypes
    <3>. QED
      BY <1>0, <2>1, <3>1 DEF TabletTypes
  <2>4. FreezeInv'
    BY <1>0, <1>maps, <2>1 DEF FreezeInv
  <2>5. Fresh'
    BY <2>1, <2>2 DEF Fresh, SeenInv, TabletTypes
  <2>6. RowInv' /\ SeenInv'
    BY <1>0, <2>1 DEF RowInv, SeenInv, TabletTypes
  <2>. QED
    BY <2>3, <2>4, <2>5, <2>6
<1>. QED
  BY <1>1, <1>2, <1>3

LEMMA FreezerStep ==
  ASSUME TabletConstants, TabletInv, FreezeCall \/ FreezeSize \/ FreezeActive \/ Dump \/ UNCHANGED vars
  PROVE  TabletInv'
<1>. USE DEF TabletInv
<1>0. /\ Freezer \in Threads /\ Dumper \in Threads /\ Freezer # Dumper /\ Freezer # Free
      /\ {Freezer, Dumper} \cap (Writers \cup Readers) = {} /\ Writers \cup Readers \subseteq Threads
  BY DEF TabletConstants, Threads
<1>maps. DOMAIN pc = Threads /\ DOMAIN table = Threads /\ Writers \cup Readers \subseteq Threads
  BY DEF TabletTypes, Threads
<1>1. CASE FreezeCall
  <2>1. /\ pc[Freezer] = "idle" /\ pc' = [pc EXCEPT ![Freezer] = "size"] /\ storeMutex' = Freezer
        /\ UNCHANGED <<mgrMutex, active, frozenList, rows, table, key, got, seen, acked>>
    BY <1>1 DEF FreezeCall, Goto, mgr, tables
  <2>2. TabletTypes'
    BY <1>0, <2>1 DEF TabletTypes
  <2>3. FreezeInv'
    BY <1>0, <1>maps, <2>1 DEF FreezeInv
  <2>. QED
    BY <1>0, <2>1, <2>2, <2>3, Reads, Zenon DEF TabletTypes
<1>2. CASE FreezeSize
  <2>1. /\ pc[Freezer] = "size" /\ mgrMutex = Free
        /\ \/ pc' = [pc EXCEPT ![Freezer] = "freeze"] /\ UNCHANGED storeMutex
           \/ pc' = [pc EXCEPT ![Freezer] = "idle"]
        /\ UNCHANGED <<mgrMutex, active, frozenList, rows, table, key, got, seen, acked>>
    BY <1>2 DEF FreezeSize, Goto, mgr, tables
  <2>2. TabletTypes'
    BY <1>0, <2>1 DEF TabletTypes
  <2>3. FreezeInv'
    BY <1>0, <1>maps, <2>1 DEF FreezeInv
  <2>. QED
    BY <1>0, <2>1, <2>2, <2>3, Reads, Zenon DEF TabletTypes
<1>3. CASE FreezeActive
  <2>1. /\ pc[Freezer] = "freeze" /\ mgrMutex = Free /\ active # None
        /\ mgrMutex' = Freezer /\ frozenList' = Append(frozenList, active) /\ active' = None
        /\ pc' = [pc EXCEPT ![Freezer] = "renew"]
        /\ UNCHANGED <<storeMutex, rows, table, key, got, seen, acked>>
    BY <1>3, Zenon DEF FreezeActive, Goto
  <2>2. frozenList' = <<1>>
    <3>1. frozenList = <<>> /\ active = 1
      BY <2>1, Zenon DEF FreezeInv
    <3>. QED
      BY <2>1, <3>1
  <2>3. TabletTypes'
    BY <1>0, <2>1 DEF TabletTypes
  <2>4. FreezeInv'
    BY <1>0, <1>maps, <2>1, <2>2 DEF FreezeInv
  <2>. QED
    BY <1>0, <2>1, <2>3, <2>4, Reads, Zenon DEF TabletTypes
<1>4. CASE Dump
  <2>1. /\ frozenList = <<1>> /\ table' = [table EXCEPT ![Dumper] = frozenList[1]]
        /\ pc' = [pc EXCEPT ![Dumper] = "remove"]
        /\ UNCHANGED <<storeMutex, mgrMutex, active, frozenList, rows, key, got, seen, acked>>
    BY <1>4, Zenon DEF Dump, Goto, mutexes, mgr, tables, FreezeInv
  <2>2. TabletTypes'
    BY <1>0, <2>1 DEF TabletTypes, Tables
  <2>3. FreezeInv'
    BY <1>0, <1>maps, <2>1 DEF FreezeInv
  <2>. QED
    BY <1>0, <2>1, <2>2, <2>3, Reads, Zenon DEF TabletTypes
<1>5. CASE UNCHANGED vars
  BY <1>5, Zenon DEF vars, mutexes, mgr, tables, TabletTypes, FreezeInv, RowInv, SeenInv, Fresh
<1>. QED
  BY <1>1, <1>2, <1>3, <1>4, <1>5

\* For any number of readers, writers and keys, ObTableStore::get returns the newest row
\* acknowledged when it was called or a later one, whatever freezes meanwhile; and a frozen
\* memtable stays the only one, behind the two mutexes try_freeze_all never gives back.
THEOREM AlwaysFresh == ASSUME TabletConstants PROVE Spec => []ReadsFresh
<1>1. Init => TabletInv
  BY TabletInvInit
<1>2. TabletInv /\ [Next]_vars => TabletInv'
  BY WriterStep, SetStep, ReaderStep, FreezerStep DEF Next
<1>3. TabletInv => ReadsFresh
  BY Zenon DEF TabletInv, FreezeInv, ReadsFresh, FreezeHolds
<1>. QED
  BY <1>1, <1>2, <1>3, PTL DEF Spec

-----------------------------------------------------------------------------
(* LogIOWorker *)

CONSTANTS Submitters, MayDestroy, MaxTasks
VARIABLES queue, submitted, ran, locked, stopping, worker, task, notify, closer

Flush == INSTANCE LogIOWorker WITH stop <- stopping

\* The tasks run, the one at hand and the queue follow each other in order of submission.
FlushInv ==
  /\ submitted \in Nat /\ ran \in Seq(Nat) /\ queue \in Seq(Nat) /\ task \in Nat
  /\ worker \in {"top", "lock", "block", "wait", "run", "exited"}
  /\ worker = "run" <=> task # 0
  /\ task = 0 => Len(ran) + Len(queue) = submitted
  /\ task # 0 => task = Len(ran) + 1 /\ task + Len(queue) = submitted
  /\ \A i \in 1 .. Len(ran) : ran[i] = i
  /\ \A i \in 1 .. Len(queue) : queue[i] = submitted - Len(queue) + i

\* A sequence has a length.
LEMMA LengthNat == ASSUME NEW s \in Seq(Nat) PROVE Len(s) \in Nat
  OBVIOUS

\* Before the first task.
LEMMA FlushInvInit == Flush!Init => FlushInv
  BY DEF Flush!Init, FlushInv

\* A push, a task taken and a task run keep the order; the other steps leave the tasks alone.
LEMMA FlushInvStep == FlushInv /\ [Flush!Next]_(Flush!vars) => FlushInv'
<1> SUFFICES ASSUME FlushInv, [Flush!Next]_(Flush!vars) PROVE FlushInv'
  OBVIOUS
<1>1. ASSUME NEW s \in Submitters, Flush!Push(s) PROVE FlushInv'
  <2>1. /\ submitted' = submitted + 1 /\ queue' = Append(queue, submitted + 1)
        /\ UNCHANGED <<ran, worker, task>>
    BY <1>1 DEF Flush!Push
  <2>2. queue \in Seq(Nat) /\ Len(queue) \in Nat /\ Len(ran) \in Nat /\ submitted \in Nat
    BY LengthNat, Zenon DEF FlushInv
  <2>3. /\ queue' \in Seq(Nat) /\ Len(queue') = Len(queue) + 1
        /\ queue'[Len(queue) + 1] = submitted + 1
        /\ \A i \in 1 .. Len(queue) : queue'[i] = queue[i]
    BY <2>1, <2>2
  <2>n. Len(queue') = Len(queue) + 1
    BY <2>3, Zenon
  <2>4. ASSUME NEW i \in 1 .. Len(queue') PROVE queue'[i] = submitted' - Len(queue') + i
    <3>1. CASE i = Len(queue) + 1
      <4>1. queue'[i] = submitted + 1
        BY <2>3, <3>1, Zenon
      <4> QED BY <2>1, <2>2, <2>n, <3>1, <4>1
    <3>2. CASE i # Len(queue) + 1
      <4>1. i \in 1 .. Len(queue)
        BY <2>2, <2>n, <3>2
      <4>2. queue'[i] = queue[i] /\ queue[i] = submitted - Len(queue) + i
        BY <2>3, <4>1, Zenon DEF FlushInv
      <4> QED BY <2>1, <2>2, <2>n, <4>1, <4>2
    <3> QED BY <3>1, <3>2
  <2>5. /\ task' = 0 => Len(ran') + Len(queue') = submitted'
        /\ task' # 0 => task' = Len(ran') + 1 /\ task' + Len(queue') = submitted'
    <3>1. CASE task = 0
      <4>1. Len(ran) + Len(queue) = submitted
        BY <3>1 DEF FlushInv
      <4>2. Len(ran) + Len(queue') = submitted + 1
        BY <2>2, <2>n, <4>1
      <4> QED BY <2>1, <3>1, <4>2, Zenon
    <3>2. CASE task # 0
      <4>1. task = Len(ran) + 1 /\ task + Len(queue) = submitted
        BY <3>2 DEF FlushInv
      <4>2. task + Len(queue') = submitted + 1
        BY <2>2, <2>n, <4>1
      <4> QED BY <2>1, <3>2, <4>1, <4>2, Zenon
    <3> QED BY <3>1, <3>2
  <2>6. submitted' \in Nat
    BY <2>1, <2>2
  <2> QED BY <2>1, <2>3, <2>4, <2>5, <2>6, Zenon DEF FlushInv
<1>2. ASSUME NEW s \in Submitters, Flush!NotifyOne(s) PROVE FlushInv'
  BY <1>2 DEF Flush!NotifyOne, Flush!Wake, Flush!Awakened, FlushInv
<1>3. CASE Flush!Top
  BY <1>3 DEF Flush!Top, FlushInv
<1>4. CASE Flush!Take
  <2>1. /\ worker = "lock" /\ queue # <<>> /\ task' = Head(queue) /\ queue' = Tail(queue)
        /\ worker' = "run" /\ UNCHANGED <<submitted, ran>>
    BY <1>4 DEF Flush!Take
  <2>2. queue \in Seq(Nat) /\ Len(queue) \in Nat /\ Len(ran) \in Nat /\ submitted \in Nat
    BY LengthNat, Zenon DEF FlushInv
  <2>3. task = 0 /\ Len(ran) + Len(queue) = submitted
    BY <2>1 DEF FlushInv
  <2>4. /\ queue' \in Seq(Nat) /\ Len(queue') = Len(queue) - 1 /\ Len(queue) > 0
        /\ task' = queue[1] /\ \A i \in 1 .. Len(queue') : queue'[i] = queue[i + 1]
    BY <2>1, <2>2
  <2>5. \A i \in 1 .. Len(queue) : queue[i] = submitted - Len(queue) + i
    BY DEF FlushInv
  <2>6. task' = Len(ran) + 1
    <3>1. task' = submitted - Len(queue) + 1
      BY <2>2, <2>4, <2>5
    <3> QED BY <2>2, <2>3, <3>1
  <2>n. Len(queue') = Len(queue) - 1
    BY <2>4, Zenon
  <2>7. ASSUME NEW i \in 1 .. Len(queue') PROVE queue'[i] = submitted' - Len(queue') + i
    <3>1. i + 1 \in 1 .. Len(queue)
      BY <2>2, <2>n
    <3>2. queue'[i] = submitted - Len(queue) + (i + 1)
      BY <2>4, <2>5, <3>1, Zenon
    <3> QED BY <2>1, <2>2, <2>n, <3>1, <3>2
  <2>8. task' + Len(queue') = submitted'
    BY <2>1, <2>2, <2>3, <2>n, <2>6
  <2>9. task' \in Nat /\ task' # 0
    BY <2>2, <2>6
  <2> QED BY <2>1, <2>4, <2>6, <2>7, <2>8, <2>9, Zenon DEF FlushInv
<1>5. CASE Flush!Break
  BY <1>5 DEF Flush!Break, FlushInv
<1>6. CASE Flush!Check
  BY <1>6 DEF Flush!Check, FlushInv
<1>7. CASE Flush!Block
  BY <1>7 DEF Flush!Block, FlushInv
<1>8. CASE Flush!Run
  BY <1>8 DEF Flush!Run, FlushInv
<1>9. CASE Flush!SetStop
  BY <1>9 DEF Flush!SetStop, FlushInv
<1>10. CASE Flush!NotifyAll
  BY <1>10 DEF Flush!NotifyAll, Flush!Wake, Flush!Awakened, FlushInv
<1>11. CASE Flush!Join
  BY <1>11 DEF Flush!Join, FlushInv
<1>12. CASE UNCHANGED Flush!vars
  BY <1>12 DEF Flush!vars, FlushInv
<1> QED BY <1>1, <1>2, <1>3, <1>4, <1>5, <1>6, <1>7, <1>8, <1>9, <1>10, <1>11, <1>12
           DEF Flush!Next, Flush!Work

\* Two sequences one behind the other.
LEMMA Joined ==
  ASSUME NEW s \in Seq(Nat), NEW r \in Seq(Nat)
  PROVE  /\ s \o r \in Seq(Nat) /\ Len(s \o r) = Len(s) + Len(r)
         /\ \A i \in 1 .. Len(s) : (s \o r)[i] = s[i]
         /\ \A i \in 1 .. Len(r) : (s \o r)[Len(s) + i] = r[i]
  OBVIOUS

\* Tasks whose numbers are their positions are those submitted, in order.
LEMMA InvInOrder == FlushInv => Flush!TasksInOrder
<1> SUFFICES ASSUME FlushInv PROVE Flush!TasksInOrder
  OBVIOUS
<1> DEFINE hand == IF task = 0 THEN <<>> ELSE <<task>>
           first == ran \o hand
           all == first \o queue
<1>1. hand \in Seq(Nat) /\ Len(hand) = (IF task = 0 THEN 0 ELSE 1) /\ (task # 0 => hand[1] = task)
  BY DEF FlushInv
<1>2. ran \in Seq(Nat) /\ queue \in Seq(Nat) /\ submitted \in Nat
  BY DEF FlushInv
<1> HIDE DEF hand
<1>3. /\ first \in Seq(Nat) /\ Len(first) = Len(ran) + Len(hand)
      /\ \A i \in 1 .. Len(ran) : first[i] = ran[i]
      /\ \A i \in 1 .. Len(hand) : first[Len(ran) + i] = hand[i]
  BY <1>1, <1>2, Joined, Zenon
<1> HIDE DEF first
<1>4. /\ all \in Seq(Nat) /\ Len(all) = Len(first) + Len(queue)
      /\ \A i \in 1 .. Len(first) : all[i] = first[i]
      /\ \A i \in 1 .. Len(queue) : all[Len(first) + i] = queue[i]
  BY <1>2, <1>3, Joined, Zenon
<1> HIDE DEF all
<1>5. Len(all) = submitted
  <2>1. Len(ran) \in Nat /\ Len(queue) \in Nat
    BY <1>2, LengthNat, Zenon
  <2>2. Len(all) = Len(ran) + (IF task = 0 THEN 0 ELSE 1) + Len(queue)
    BY <1>1, <1>3, <1>4, Zenon
  <2>3. CASE task = 0
    <3>1. Len(ran) + Len(queue) = submitted
      BY <2>3 DEF FlushInv
    <3> QED BY <2>1, <2>2, <2>3, <3>1
  <2>4. CASE task # 0
    <3>1. Len(ran) + 1 + Len(queue) = submitted
      BY <2>4, Zenon DEF FlushInv
    <3> QED BY <2>1, <2>2, <2>4, <3>1
  <2> QED BY <2>3, <2>4
<1>6. \A i \in 1 .. Len(first) : first[i] = i
  <2> SUFFICES ASSUME NEW i \in 1 .. Len(first) PROVE first[i] = i
    OBVIOUS
  <2>1. CASE i <= Len(ran)
    <3>1. i \in 1 .. Len(ran)
      BY <1>2, <1>3, <2>1, LengthNat
    <3>2. first[i] = ran[i]
      BY <1>3, <3>1, Zenon
    <3> QED BY <3>1, <3>2, Zenon DEF FlushInv
  <2>2. CASE i > Len(ran)
    <3>1. task # 0 /\ i = Len(ran) + 1
      BY <1>1, <1>2, <1>3, <2>2
    <3>2. first[i] = hand[1]
      BY <1>1, <1>2, <1>3, <3>1
    <3> QED BY <1>1, <3>1, <3>2 DEF FlushInv
  <2> QED BY <1>2, <2>1, <2>2
<1>7. ASSUME NEW i \in 1 .. submitted PROVE all[i] = i
  <2>1. CASE i <= Len(first)
    BY <1>3, <1>4, <1>6, <2>1
  <2>2. CASE i > Len(first)
    <3> DEFINE k == i - Len(first)
    <3>1. k \in 1 .. Len(queue) /\ i = Len(first) + k
      BY <1>2, <1>3, <1>4, <1>5, <2>2
    <3> HIDE DEF k
    <3>2. all[i] = queue[k]
      BY <1>4, <3>1, Zenon
    <3>3. queue[k] = submitted - Len(queue) + k
      BY <3>1, Zenon DEF FlushInv
    <3>4. Len(first) \in Nat /\ Len(queue) \in Nat
      BY <1>2, <1>3, LengthNat, Zenon
    <3>5. submitted = Len(first) + Len(queue)
      BY <1>4, <1>5, Zenon
    <3>6. submitted - Len(queue) + k = i
      BY <3>1, <3>4, <3>5
    <3> QED BY <3>2, <3>3, <3>6, Zenon
  <2> QED BY <1>3, <2>1, <2>2
<1>8. all = [i \in 1 .. submitted |-> i]
  BY <1>4, <1>5, <1>7
<1> QED BY <1>8, Zenon DEF all, first, hand, Flush!TasksInOrder

\* The background thread of a log stream runs the tasks submitted to it each once and in the
\* order of submission, for any number of submitters and tasks, whenever it is stopped
\* (LogIOWorker::run_, submit_io_task, destroy).
THEOREM TasksOrdered == Flush!Spec => []Flush!TasksInOrder
<1> QED BY FlushInvInit, FlushInvStep, InvInOrder, PTL DEF Flush!Spec
=============================================================================
