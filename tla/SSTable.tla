------------------------------- MODULE SSTable -------------------------------
(***************************************************************************)
(* A memtable dumped into an SSTable (src/storage/blocksstable and          *)
(* mini_merge of src/storage/compaction): rows are packed into micro blocks, *)
(* micro blocks into macro blocks, macro blocks into a data file that a meta *)
(* file describes.  The process may stop while the files are written.       *)
(*                                                                         *)
(* A row is [id, size].  A buffer is the things in it with their positions  *)
(* and its size; sizes are in the unit of the constants.                    *)
(***************************************************************************)
EXTENDS Integers, Sequences, FiniteSetsExt

CONSTANTS
  RowSizes, MaxRows,              \* the rows dumped
  MicroSize, MacroSize,           \* micro_block_size_, macro_block_size_
  Slack,                          \* space is_block_full leaves in a micro block
  Reserve,                        \* HEADER_RESERVE
  MicroHeader, IndexEntry,        \* sizes of a micro block's header and of a row offset
  HeaderSize                      \* the two headers in front of a macro block

SizeConstants ==
  /\ RowSizes \subseteq Nat /\ MaxRows \in Nat
  /\ MicroSize \in Nat /\ MacroSize \in Nat /\ Slack \in Nat /\ Reserve \in Nat
  /\ MicroHeader \in Nat /\ IndexEntry \in Nat /\ HeaderSize \in Nat
  /\ Reserve + MicroSize <= MacroSize

VARIABLES
  writer,        \* ObMacroBlockWriter, with its ObMicroBlockWriter and two ObMacroBlocks
  blocks,        \* macro_blocks_ of the builder; kept through a crash to compare with
  phase,         \* of the dump
  file,          \* the data file: the macro blocks written to it
  metaFile,      \* the meta file: the pieces of the serialized meta written to it
  sst,           \* the ObSSTable of the builder, or the one opened after a restart
  appended,      \* history: the rows appended
  biggest,       \* history: size of the largest micro block built
  dropped        \* history: number of micro blocks that found no room

svars == <<writer, blocks, phase, file, metaFile, sst, appended, biggest, dropped>>

-----------------------------------------------------------------------------
(* ObMicroBlockWriter *)

MicroReset == [rows |-> <<>>, offsets |-> <<>>, size |-> MicroHeader]

micro_append_row(w, r) ==
  [rows |-> Append(w.rows, r), offsets |-> Append(w.offsets, w.size), size |-> w.size + r.size]

is_block_full(w) == w.size >= MicroSize - Slack

\* The fields that are ever set to more than a constant.
ObMicroBlockHeader(w) ==
  [row_count |-> Len(w.rows), row_index_offset |-> w.size, data_length |-> w.size + IndexEntry * Len(w.rows)]

build_block(w) == [header |-> ObMicroBlockHeader(w), rows |-> w.rows, offsets |-> w.offsets]

-----------------------------------------------------------------------------
(* ObMacroBlock *)

macro_init(seq) ==
  [seq |-> seq, micros |-> <<>>, size |-> Reserve, row_count |-> 0, micro_count |-> 0]

HasRoom(m, b) == m.size + b.header.data_length <= MacroSize

write_micro_block(m, b) ==
  IF ~HasRoom(m, b) THEN m
  ELSE [m EXCEPT !.micros = Append(@, [at |-> m.size, block |-> b]), !.size = @ + b.header.data_length]

get_remain_size(m) == MacroSize - m.size

ObMacroBlockCommonHeader(m) == [payload_size |-> m.size]

ObSSTableMacroBlockHeader(m) ==
  [data_seq |-> m.seq, row_count |-> m.row_count, occupy_size |-> m.size, micro_block_count |-> m.micro_count,
   micro_block_data_size |-> m.size - Reserve]

\* build_common_header and get_total_size: the macro block as it goes to disk.
build_common_header(m) ==
  [common |-> ObMacroBlockCommonHeader(m), header |-> ObSSTableMacroBlockHeader(m), micros |-> m.micros,
   size |-> HeaderSize + m.size]

-----------------------------------------------------------------------------
(* ObMacroBlockWriter: an operation gives the writer, a code and the macro blocks flushed *)

writer_open ==
  [micro |-> MicroReset, macro |-> [i \in 0 .. 1 |-> macro_init(i + 1)], cur |-> 0, seq |-> 3]

\* The pending micro block is built and goes into the current macro block; when it finds no
\* room its rows are gone, and some callers count it all the same.
PutMicro(w, counted) ==
  LET b == build_block(w.micro)
      m == w.macro[w.cur]
      n == IF HasRoom(m, b) \/ counted THEN m.micro_count + 1 ELSE m.micro_count
  IN [w EXCEPT !.micro = MicroReset, !.macro[w.cur] = [write_micro_block(m, b) EXCEPT !.micro_count = n]]

\* Mutation: the writer goes on in the buffer it has just flushed.
flush_current_macro_Same(w) ==
  [w |-> [w EXCEPT !.seq = @ + 1], out |-> build_common_header(w.macro[w.cur])]

\* The current macro block is given out, and the other buffer starts a new one.
flush_current_macro_(w) ==
  [w |-> [w EXCEPT !.cur = 1 - @, !.macro[1 - w.cur] = macro_init(w.seq), !.seq = @ + 1],
   out |-> build_common_header(w.macro[w.cur])]

\* The row as it is added to the micro block, and counted in the macro block.
Counted(w, r) ==
  [w EXCEPT !.micro = micro_append_row(@, r), !.macro[w.cur].row_count = @ + 1]

\* Mutation: a macro block is filled to its end.
MacroFull_Never(w) == FALSE

MacroFull(w) == get_remain_size(w.macro[w.cur]) < MicroSize

append_row(w, r) ==
  LET w1 == Counted(w, r)
      full == is_block_full(w1.micro)
      w2 == IF full THEN PutMicro(w1, FALSE) ELSE w1
      w3 == IF w2.micro.rows # <<>> THEN PutMicro(w2, TRUE) ELSE w2
  IN IF full /\ ~HasRoom(w1.macro[w1.cur], build_block(w1.micro)) THEN [w |-> w2, out |-> <<>>]
     ELSE IF MacroFull(w2)
          THEN [w |-> flush_current_macro_(w3).w, out |-> <<flush_current_macro_(w3).out>>]
          ELSE [w |-> w2, out |-> <<>>]

writer_close(w) ==
  flush_current_macro_(IF w.micro.rows # <<>> THEN PutMicro(w, TRUE) ELSE w)

\* The two histories of a step that builds the micro block of w, or none.
Noted(w, builds) ==
  LET b == build_block(w.micro)
  IN /\ biggest' = IF builds /\ b.header.data_length > biggest THEN b.header.data_length ELSE biggest
     /\ dropped' = IF builds /\ ~HasRoom(w.macro[w.cur], b) THEN dropped + 1 ELSE dropped

-----------------------------------------------------------------------------
(* ObSSTableMeta *)

EmptyMeta == [ids |-> <<>>, offsets |-> <<>>, sizes |-> <<>>, count |-> 0, row_count |-> 0, occupy |-> 0]

add_macro_block(meta, id, offset, size, row_count) ==
  [ids |-> Append(meta.ids, id), offsets |-> Append(meta.offsets, offset), sizes |-> Append(meta.sizes, size),
   count |-> meta.count + 1, row_count |-> meta.row_count + row_count, occupy |-> meta.occupy + size]

\* The pieces are the basic meta, the length of the root block, the number of macro blocks
\* and one for each macro block; a file may hold only the first of them.
serialize(meta) == [meta |-> meta, pieces |-> 3 + Len(meta.ids)]
NoFile == [meta |-> EmptyMeta, pieces |-> -1]

\* deserialize: a macro block counts when all of its entry is there.
deserialize(f) ==
  LET n == f.pieces - 3
  IN IF n < 0 THEN [inited |-> FALSE, meta |-> EmptyMeta]
     ELSE [inited |-> TRUE,
           meta |-> [f.meta EXCEPT !.ids = SubSeq(@, 1, n), !.offsets = SubSeq(@, 1, n), !.sizes = SubSeq(@, 1, n)]]

-----------------------------------------------------------------------------
(* ObSSTable *)

Closed == [inited |-> FALSE, meta |-> EmptyMeta]

\* op applied to base and the elements of s, from the first on.
Folded(op(_, _), base, s) ==
  MapThenFoldSet(LAMBDA x, y : op(y, x), base, LAMBDA i : s[i], Max, DOMAIN s)

Sum(s) == Folded(LAMBDA n, b : n + b.size, 0, s)

\* Mutation: the offset is not moved on behind a block.
MetaOf_Stuck(n) ==
  Folded(LAMBDA meta, i : add_macro_block(meta, blocks[i].header.data_seq, 0, blocks[i].size, 0), EmptyMeta, [i \in 1 .. n |-> i])

\* create_from_blocks: the meta of the first n blocks; the counts of rows stay in the blocks.
MetaOf(n) ==
  Folded(LAMBDA meta, i : add_macro_block(meta, blocks[i].header.data_seq, Sum(SubSeq(blocks, 1, i - 1)), blocks[i].size, 0),
           EmptyMeta, [i \in 1 .. n |-> i])

\* read_macro_block: the bytes at an offset of the data file are a block when one starts there.
read_macro_block(i) ==
  LET off == sst.meta.offsets[i]  size == sst.meta.sizes[i]
      at == {k \in DOMAIN file : Sum(SubSeq(file, 1, k - 1)) = off /\ file[k].size = size}
  IN {file[k] : k \in at}

is_empty == sst.meta.row_count = 0

-----------------------------------------------------------------------------
(* mini_merge *)

SInit ==
  /\ writer = writer_open /\ blocks = <<>> /\ phase = "append" /\ file = <<>> /\ metaFile = NoFile
  /\ sst = Closed /\ appended = <<>> /\ biggest = 0 /\ dropped = 0

\* A row of the memtable is appended; a refusal is ignored.
AppendRow(size) ==
  LET r == [id |-> Len(appended) + 1, size |-> size]
      a == append_row(writer, r)
      w1 == Counted(writer, r)
  IN /\ phase = "append" /\ Len(appended) < MaxRows
     /\ writer' = a.w
     /\ blocks' = blocks \o a.out
     /\ appended' = Append(appended, r)
     /\ Noted(w1, is_block_full(w1.micro) \/ MacroFull(w1))
     /\ UNCHANGED <<phase, file, metaFile, sst>>

\* ObSSTableBuilder::close: what is pending is flushed, and the data file opened.
Close ==
  /\ phase = "append"
  /\ writer' = writer_close(writer).w
  /\ blocks' = Append(blocks, writer_close(writer).out)
  /\ phase' = "write"
  /\ Noted(writer, writer.micro.rows # <<>>)
  /\ UNCHANGED <<file, metaFile, sst, appended>>

WriteBlock ==
  /\ phase = "write" /\ Len(file) < Len(blocks)
  /\ file' = Append(file, blocks[Len(file) + 1])
  /\ UNCHANGED <<writer, blocks, phase, metaFile, sst, appended, biggest, dropped>>

\* Mutation: the meta file is written before the data.
SaveMeta_First ==
  /\ phase = "write"
  /\ metaFile' = serialize(MetaOf(Len(blocks)))
  /\ sst' = [inited |-> TRUE, meta |-> MetaOf(Len(blocks))]
  /\ phase' = IF Len(file) = Len(blocks) THEN "done" ELSE "write"
  /\ UNCHANGED <<writer, blocks, file, appended, biggest, dropped>>

\* The data file is complete and closed before the meta file is written.
SaveMeta ==
  /\ phase = "write" /\ Len(file) = Len(blocks)
  /\ metaFile' = serialize(MetaOf(Len(blocks)))
  /\ sst' = [inited |-> TRUE, meta |-> MetaOf(Len(blocks))]
  /\ phase' = "done"
  /\ UNCHANGED <<writer, blocks, file, appended, biggest, dropped>>

\* The process stops; it may have written a part of the meta file.
Crash ==
  /\ phase \in {"append", "write", "done"}
  /\ phase' = "down" /\ sst' = Closed /\ writer' = writer_open
  /\ \/ metaFile' = metaFile
     \/ /\ phase = "write" /\ Len(file) = Len(blocks)
        /\ \E n \in 0 .. 3 + Len(blocks) : metaFile' = [meta |-> MetaOf(Len(blocks)), pieces |-> n]
  /\ UNCHANGED <<blocks, file, appended, biggest, dropped>>

\* ObSSTable::init after a restart.
Reopen ==
  /\ phase = "down"
  /\ sst' = deserialize(metaFile)
  /\ phase' = "up"
  /\ UNCHANGED <<writer, blocks, file, metaFile, appended, biggest, dropped>>

SNext == (\E s \in RowSizes : AppendRow(s)) \/ Close \/ WriteBlock \/ SaveMeta \/ Crash \/ Reopen

SSpec == SInit /\ [][SNext]_svars

-----------------------------------------------------------------------------
RowsOf(b) == Folded(LAMBDA s, m : s \o m.block.rows, <<>>, b.micros)
RowsOn(bs) == Folded(LAMBDA s, b : s \o RowsOf(b), <<>>, bs)

\* A micro block as long as micro_block_size_ always finds room: the writer gives a macro block
\* out before less than that is left in it.
NothingDropped == biggest <= MicroSize => dropped = 0

\* The dump is complete: while no micro block exceeds micro_block_size_, the macro blocks that
\* the finished SSTable's meta leads to hold every row of the memtable once, in order.
RowsStored ==
  phase = "done" /\ biggest <= MicroSize =>
    /\ \A i \in DOMAIN sst.meta.ids : read_macro_block(i) = {blocks[i]}
    /\ RowsOn([i \in DOMAIN sst.meta.ids |-> blocks[i]]) = appended

\* Every macro block describes itself: its micro blocks follow each other without gap or
\* overlap and inside the block, each row offset is where the row begins, the header counts
\* the rows and the micro blocks in it, and no two macro blocks have the same number.
BlocksDescribed ==
  /\ \A i \in DOMAIN blocks : \A m \in DOMAIN blocks[i].micros :
       LET b == blocks[i].micros[m].block
           next == IF m = Len(blocks[i].micros) THEN blocks[i].header.occupy_size ELSE blocks[i].micros[m + 1].at
       IN /\ blocks[i].micros[m].at + b.header.data_length = next
          /\ next <= MacroSize
          /\ \A k \in DOMAIN b.rows : b.offsets[k] = MicroHeader + Sum(SubSeq(b.rows, 1, k - 1))
          /\ b.header.row_index_offset = MicroHeader + Sum(b.rows)
  /\ dropped = 0 => \A i \in DOMAIN blocks :
       /\ blocks[i].header.row_count = Len(RowsOf(blocks[i]))
       /\ blocks[i].header.micro_block_count = Len(blocks[i].micros)
  /\ \A i, j \in DOMAIN blocks : i < j => blocks[i].header.data_seq < blocks[j].header.data_seq

\* After a crash at any moment, an SSTable that opens leads only to macro blocks that are
\* complete in the data file, and in the order in which they were built.
RestartReads ==
  phase = "up" /\ sst.inited =>
    \A i \in DOMAIN sst.meta.ids : read_macro_block(i) = {blocks[i]} /\ sst.meta.ids[i] = blocks[i].header.data_seq

\* A dump loses no row of the memtable.
DumpKeepsRows == phase = "done" => RowsOn(blocks) = appended

\* An SSTable says that it is empty exactly when no row went into it.
EmptyHonest == phase = "done" => (is_empty <=> appended = <<>>)
=============================================================================
