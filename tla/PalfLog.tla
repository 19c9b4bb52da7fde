------------------------------ MODULE PalfLog ------------------------------
(***************************************************************************)
(* One PALF log stream: PalfHandleImpl (LSN allocation, append, recovery   *)
(* scan) on top of LogStorage (a series of fixed-size block files).        *)
(*                                                                         *)
(* Log addresses (LSNs) are counted in cells.  A group entry is HeaderSize *)
(* header cells followed by its payload cells.  The first header cell      *)
(* holds magic_ and group_entry_size_, the last one committed_end_lsn_:    *)
(* these are the fields the code reads back.  A cell on disk is named by   *)
(* the append that wrote it (uid) and its position in that entry (pos).    *)
(* "cells" keeps only what LogStorage::read can return: the part of an     *)
(* entry that runs past the end of its block lands in the file behind the  *)
(* block's last readable cell.                                             *)
(*                                                                         *)
(* PalfHandleImpl::append holds mutex_ from the LSN allocation to the      *)
(* update of end_lsn_, so an append is one action per outcome.  Recovery   *)
(* takes one action per scanned header, and the process may stop between   *)
(* any two actions (the page cache survives: a process crash, not a power  *)
(* failure).                                                               *)
(***************************************************************************)
EXTENDS Integers, Sequences

CONSTANTS
  BlockSize,     \* cells per block file, PALF_BLOCK_SIZE
  HeaderSize,    \* cells of a serialized LogGroupEntryHeader
  ReadBufSize,   \* cells of the 4096-byte read buffers
  PayloadSizes,  \* payload lengths handed to append
  ShortWrites,   \* cell counts a failing write(2) may leave behind
  Openers,       \* which of init and load opens an existing log
  SeekTargets,   \* LSNs handed to seek
  LogLimit,      \* bound on the log's length
  MaxAppends,    \* bound on the number of append calls
  MaxRestarts    \* bound on the number of restarts

ASSUME PalfConstants ==
  /\ BlockSize \in Nat \ {0}
  /\ HeaderSize \in Nat /\ HeaderSize >= 2
  /\ ReadBufSize \in Nat /\ ReadBufSize >= HeaderSize
  /\ PayloadSizes \subseteq Nat \ {0}
  /\ ShortWrites \subseteq Nat
  /\ Openers \subseteq {"init", "load"}
  /\ SeekTargets \subseteq Nat
  /\ LogLimit \in Nat /\ MaxAppends \in Nat /\ MaxRestarts \in Nat

VARIABLES
  eof,       \* block id -> length of its file in cells; DOMAIN eof: the files
  cells,     \* address -> the readable cell stored there
  curBlock,  \* cur_block_id_
  state,     \* "down", "scan" (inside init/load) or "up"
  opener,    \* which of init and load is opening the log
  scanLsn,   \* scan_lsn of the recovery loop
  endLsn,    \* end_lsn_
  maxLsn,    \* max_lsn_; until a restart assigns it, the last incarnation's
  logId,     \* log_id_
  appends,   \* history: every call of do_append_, in order
  restarts   \* history: number of restarts

vars == <<eof, cells, curBlock, state, opener, scanLsn, endLsn, maxLsn,
          logId, appends, restarts>>

disk == <<eof, cells>>
handle == <<endLsn, maxLsn, logId>>

NoBlock == -1
Addr == 0 .. (LogLimit + HeaderSize)
Blank == [uid |-> 0, pos |-> 0]

lsn_2_block(l) == l \div BlockSize
lsn_2_offset(l) == l % BlockSize
Smaller(a, b) == IF a < b THEN a ELSE b
Larger(a, b) == IF a > b THEN a ELSE b

-----------------------------------------------------------------------------
(* LogStorage::read and LogGroupEntryHeader::deserialize *)

\* Cells returned by a read at l: clipped to the buffer, the block and the file.
ReadLen(l) ==
  IF lsn_2_block(l) \in DOMAIN eof
  THEN Smaller(ReadBufSize, eof[lsn_2_block(l)] - lsn_2_offset(l))
  ELSE 0

is_valid(l) == cells[l].uid # 0 /\ cells[l].pos = 0

HeaderReadable(l) == ReadLen(l) >= HeaderSize /\ is_valid(l)

CommittedEndIsLsn(l) ==
  LET c == cells[l + HeaderSize - 1]
  IN IF c.uid # 0 /\ c.pos = HeaderSize - 1 THEN appends[c.uid].lsn ELSE 0

\* committed_end_lsn_ as read back; a cell that never held one reads as 0.
CommittedEnd(l) ==
  LET c == cells[l + HeaderSize - 1]
  IN IF c.uid # 0 /\ c.pos = HeaderSize - 1 THEN appends[c.uid].end ELSE 0

-----------------------------------------------------------------------------
(* LogStorage::append: write the first n cells of entry u at l.  The whole *)
(* buffer goes to the block file of l; what passes the block's end cannot  *)
(* be read back.                                                           *)

Written(l, u, n) ==
  [a \in Addr |->
     IF a >= l /\ a < l + n /\ lsn_2_offset(l) + (a - l) < BlockSize
     THEN [uid |-> u, pos |-> a - l]
     ELSE cells[a]]

Extended(l, n) ==
  LET b == lsn_2_block(l)
      old == IF b \in DOMAIN eof THEN eof[b] ELSE 0
  IN [f \in DOMAIN eof \cup {b} |->
        IF f = b
        THEN IF n = 0 THEN old ELSE Larger(old, Smaller(BlockSize, lsn_2_offset(l) + n))
        ELSE eof[f]]

open_block_(l) == curBlock' = lsn_2_block(l)

-----------------------------------------------------------------------------
(* PalfHandleImpl::append *)

Entry(p, ok) ==
  [lsn |-> maxLsn, end |-> maxLsn + HeaderSize + p, id |-> logId,
   prev |-> IF endLsn > 0 THEN endLsn ELSE 0, ok |-> ok]

\* The part of do_append_ before the write: the log id is consumed even when
\* the write then fails.
Allocate(p, ok) ==
  /\ state = "up"
  /\ Len(appends) < MaxAppends
  /\ maxLsn + HeaderSize + p <= LogLimit
  /\ appends' = Append(appends, Entry(p, ok))
  /\ logId' = logId + 1
  /\ UNCHANGED <<state, opener, scanLsn, restarts>>

AppendOkForgetsMax(p) ==
  LET u == Len(appends) + 1 IN
  /\ Allocate(p, TRUE)
  /\ open_block_(maxLsn)
  /\ cells' = Written(maxLsn, u, HeaderSize + p)
  /\ eof' = Extended(maxLsn, HeaderSize + p)
  /\ endLsn' = maxLsn + HeaderSize + p
  /\ UNCHANGED maxLsn

AppendOk(p) ==
  LET u == Len(appends) + 1 IN
  /\ Allocate(p, TRUE)
  /\ open_block_(maxLsn)
  /\ cells' = Written(maxLsn, u, HeaderSize + p)
  /\ eof' = Extended(maxLsn, HeaderSize + p)
  /\ endLsn' = maxLsn + HeaderSize + p
  /\ maxLsn' = endLsn'

\* write(2) fails or is short: n cells stay on disk, the LSNs do not advance.
AppendShort(p, n) ==
  LET u == Len(appends) + 1 IN
  /\ n < HeaderSize + p
  /\ Allocate(p, FALSE)
  /\ open_block_(maxLsn)
  /\ cells' = Written(maxLsn, u, n)
  /\ eof' = Extended(maxLsn, n)
  /\ UNCHANGED <<endLsn, maxLsn>>

\* The target block is not the open one and cannot be opened; the old block is
\* closed already.
AppendOpenFails(p) ==
  /\ curBlock # lsn_2_block(maxLsn)
  /\ Allocate(p, FALSE)
  /\ curBlock' = NoBlock
  /\ UNCHANGED <<disk, endLsn, maxLsn>>

\* PalfHandleImpl::seek moves end_lsn_ only.
seek(l) ==
  /\ state = "up"
  /\ endLsn' = l
  /\ UNCHANGED <<disk, curBlock, state, opener, scanLsn, maxLsn, logId, appends, restarts>>

-----------------------------------------------------------------------------
(* Stop, and PalfHandleImpl::init / load *)

Stop ==
  /\ state # "down"
  /\ restarts < MaxRestarts
  /\ state' = "down"
  /\ curBlock' = NoBlock
  /\ restarts' = restarts + 1
  /\ UNCHANGED <<disk, opener, scanLsn, handle, appends>>

\* LogStorage::init: block files are looked for from id 0 up to the first one
\* missing; if there is none, block 0 is created at full length and opened.
StorageInit(o) ==
  /\ state = "down"
  /\ state' = "scan"
  /\ opener' = o
  /\ scanLsn' = 0
  /\ IF 0 \in DOMAIN eof
     THEN UNCHANGED <<eof, curBlock>>
     ELSE /\ eof' = [b \in DOMAIN eof \cup {0} |-> IF b = 0 THEN BlockSize ELSE eof[b]]
          /\ curBlock' = 0
  /\ UNCHANGED <<cells, handle, appends, restarts>>

ScanStep ==
  /\ state = "scan"
  /\ HeaderReadable(scanLsn)
  /\ CommittedEnd(scanLsn) > scanLsn
  /\ scanLsn' = CommittedEnd(scanLsn)
  /\ UNCHANGED <<disk, curBlock, state, opener, handle, appends, restarts>>

LastValidBeforeScan == scanLsn - HeaderSize

\* last_valid_lsn when the loop breaks: the scan position, or the
\* committed_end_lsn_ just read if that is what broke the loop.
LastValid ==
  IF HeaderReadable(scanLsn) THEN CommittedEnd(scanLsn) ELSE scanLsn

\* load runs init and then calls a log of one block empty; with more blocks its
\* second scan stops where the first one did.
ScanStop ==
  LET kept == IF opener = "load" /\ 1 \notin DOMAIN eof THEN 0 ELSE LastValid IN
  /\ state = "scan"
  /\ ~(HeaderReadable(scanLsn) /\ CommittedEnd(scanLsn) > scanLsn)
  /\ state' = "up"
  /\ endLsn' = kept
  /\ maxLsn' = kept
  /\ logId' = IF LastValid > 0 THEN 2 ELSE 1
  /\ UNCHANGED <<disk, curBlock, opener, scanLsn, appends, restarts>>

-----------------------------------------------------------------------------
Init ==
  /\ eof = [b \in {} |-> 0]
  /\ cells = [a \in Addr |-> Blank]
  /\ curBlock = NoBlock
  /\ state = "down"
  /\ opener = "init"
  /\ scanLsn = 0 /\ endLsn = 0 /\ maxLsn = 0
  /\ logId = 1
  /\ appends = <<>>
  /\ restarts = 0

PalfAppend ==
  \E p \in PayloadSizes :
    \/ AppendOk(p)
    \/ \E n \in ShortWrites : AppendShort(p, n)
    \/ AppendOpenFails(p)

PalfOpen ==
  \/ \E o \in Openers : StorageInit(o)
  \/ ScanStep
  \/ ScanStop

Next ==
  \/ PalfAppend
  \/ PalfOpen
  \/ \E l \in SeekTargets : seek(l)
  \/ Stop

Spec == Init /\ [][Next]_vars

-----------------------------------------------------------------------------
Lsn == 0 .. LogLimit
EntryType == [lsn : Lsn, end : Lsn, id : Nat, prev : Nat, ok : BOOLEAN]

\* Types of the log stream's state: file lengths, cells, positions, history.
TypeOK ==
  /\ DOMAIN eof \subseteq Nat /\ \A b \in DOMAIN eof : eof[b] \in Nat
  /\ cells \in [Addr -> [uid : 0 .. Len(appends), pos : Nat]]
  /\ curBlock \in Int
  /\ state \in {"down", "scan", "up"}
  /\ opener \in Openers \cup {"init"}
  /\ scanLsn \in Lsn /\ maxLsn \in Lsn /\ endLsn \in Nat
  /\ logId \in Nat \ {0}
  /\ appends \in Seq(EntryType)
  /\ restarts \in Nat

\* No header runs over the end of its block.
HeadersFit ==
  \A i \in DOMAIN appends : lsn_2_offset(appends[i].lsn) + HeaderSize <= BlockSize

\* Every cell of entry i that its block can hold is on disk as written, its
\* header can be read, and the log ends at or behind it.
OnDisk(i) ==
  /\ ReadLen(appends[i].lsn) >= HeaderSize
  /\ \A a \in Addr :
       a >= appends[i].lsn /\ a < appends[i].end
         /\ lsn_2_offset(appends[i].lsn) + (a - appends[i].lsn) < BlockSize
       => cells[a] = [uid |-> i, pos |-> a - appends[i].lsn]
  /\ appends[i].end <= maxLsn

\* An append that returned 0 is never lost or overwritten, whatever failed
\* writes, crashes during recovery and later appends do: its cells stay on disk
\* and do_append_ never allocates below its end again.
AckedDurable == \A i \in DOMAIN appends : appends[i].ok => OnDisk(i)

\* A running log stream ends at or behind every acknowledged append:
\* palf_handle_impl.h calls end_lsn_ the "tail of committed log", and do_append_
\* writes the next entry there.
EndIsTail ==
  state = "up" => \A i \in DOMAIN appends : appends[i].ok => appends[i].end <= maxLsn

\* AckedDurable as far as the code provides it: while no header straddles the
\* end of a block file (LogStorage::read cannot return such a header).
AckedDurableIfFits == HeadersFit => AckedDurable

\* The header starting at a is the complete header of the entry allocated at a,
\* and its block file reaches behind it.
WholeHeader(a) ==
  /\ lsn_2_block(a) \in DOMAIN eof
  /\ lsn_2_offset(a) + HeaderSize <= eof[lsn_2_block(a)]
  /\ cells[a + HeaderSize - 1] = [uid |-> cells[a].uid, pos |-> HeaderSize - 1]
  /\ appends[cells[a].uid].lsn = a
  /\ appends[cells[a].uid].end >= a + HeaderSize

\* The headers below max_lsn_ form one chain from LSN 0 to max_lsn_, and nothing
\* that looks like a header lies behind max_lsn_.
HeaderChain ==
  /\ maxLsn = 0 \/ is_valid(0)
  /\ \A a \in Lsn : a <= maxLsn /\ is_valid(a) => WholeHeader(a)
  /\ \A a \in Lsn : a < maxLsn /\ is_valid(a) =>
       LET e == appends[cells[a].uid].end IN e = maxLsn \/ (e < maxLsn /\ is_valid(e))
  /\ \A a \in Addr : a > maxLsn => ~is_valid(a)

\* The recovery scan stands on the chain, at its end, or behind the one failed
\* append at its end.
ScanOnChain ==
  state = "scan" =>
    \/ scanLsn = maxLsn
    \/ scanLsn < maxLsn /\ is_valid(scanLsn)
    \/ scanLsn > maxLsn /\ is_valid(maxLsn) /\ scanLsn = appends[cells[maxLsn].uid].end

\* The log can be recovered from disk at any time: headers lead from LSN 0 to
\* max_lsn_ and the scan of init follows them, while no header straddles.  This is
\* the inductive strengthening of AckedDurableIfFits.
ChainIfFits == HeadersFit => HeaderChain /\ ScanOnChain

\* The LSNs of acknowledged appends increase in the order of the appends, over
\* restarts too (max_lsn_ handed out by do_append_), while no header straddles.
LsnOrder ==
  HeadersFit =>
    \A i, j \in DOMAIN appends :
      i < j /\ appends[i].ok /\ appends[j].ok => appends[i].end <= appends[j].lsn

\* What the recovery scan of init hands to the new incarnation as end_lsn_ and
\* max_lsn_ is never less than what the last one had, and exceeds it by at most
\* one entry: the last failed append, whose header reached the disk.
RecoveredTail ==
  [][state = "scan" /\ state' = "up" /\ HeadersFit
       => \/ maxLsn' = maxLsn
          \/ \E i \in DOMAIN appends :
               ~appends[i].ok /\ appends[i].lsn = maxLsn /\ appends[i].end = maxLsn']_vars

\* Log ids are handed out once (palf_handle_impl.h calls log_id_ a
\* "monotonically increasing log id"); they are the SCNs that
\* successful appends return.
LogIdsIncrease ==
  \A i, j \in DOMAIN appends :
    i < j /\ appends[i].ok /\ appends[j].ok => appends[i].id < appends[j].id

-----------------------------------------------------------------------------
(* ObLogService::replay_ls over the stream.  The walk takes no lock: it captures *)
(* begin_lsn and end_lsn once, then reads entry by entry into a fixed stack      *)
(* buffer while other threads may append.                                        *)

VARIABLES
  rstate,     \* "idle", "run" or "done"
  current,    \* LSN of the next entry to read
  rend,       \* end_lsn captured when the walk began
  known,      \* history: number of appends made when the walk began
  delivered   \* what ObLogHandler::replay was given, in order

replayVars == <<rstate, current, rend, known, delivered>>
allVars == <<vars, replayVars>>

\* group_entry_size_ of the entry whose header starts at l.
GroupEntrySize(l) == appends[cells[l].uid].end - appends[cells[l].uid].lsn

\* Did the one read at l return every cell of the entry as it was appended?  The
\* payload length comes from the header, not from out_size: what the read did not
\* return is whatever the stack buffer, or the memory behind it, holds.
ReadWhole(l) ==
  /\ GroupEntrySize(l) <= ReadLen(l)
  /\ \A k \in 0 .. GroupEntrySize(l) - 1 : cells[l + k] = [uid |-> cells[l].uid, pos |-> k]

ReplayStart ==
  /\ state = "up"
  /\ rstate = "idle"
  /\ rstate' = "run"
  /\ current' = 0
  /\ rend' = endLsn
  /\ known' = Len(appends)
  /\ delivered' = <<>>
  /\ UNCHANGED vars

ReplayStepRepeats ==
  /\ rstate = "run"
  /\ current < rend
  /\ HeaderReadable(current)
  /\ delivered' = Append(delivered, [uid |-> cells[current].uid, whole |-> ReadWhole(current)])
  /\ current' = appends[cells[current].uid].lsn
  /\ rstate' = IF Len(delivered) > 1 THEN "done" ELSE "run"
  /\ UNCHANGED <<vars, rend, known>>

\* One turn of the loop: hand the payload over, go to committed_end_lsn_, leave
\* the loop if that is not behind begin_lsn.
ReplayStep ==
  /\ rstate = "run"
  /\ current < rend
  /\ HeaderReadable(current)
  /\ delivered' = Append(delivered, [uid |-> cells[current].uid, whole |-> ReadWhole(current)])
  /\ current' = CommittedEnd(current)
  /\ rstate' = IF current' <= 0 THEN "done" ELSE "run"
  /\ UNCHANGED <<vars, rend, known>>

ReplayEndAtLast ==
  /\ rstate = "run"
  /\ ~(CommittedEnd(current) < rend /\ HeaderReadable(current))
  /\ rstate' = "done"
  /\ UNCHANGED <<vars, current, rend, known, delivered>>

ReplayEnd ==
  /\ rstate = "run"
  /\ ~(current < rend /\ HeaderReadable(current))
  /\ rstate' = "done"
  /\ UNCHANGED <<vars, current, rend, known, delivered>>

\* The service can be asked to replay again.
ReplayAgain ==
  /\ rstate = "done"
  /\ rstate' = "idle"
  /\ UNCHANGED <<vars, current, rend, known, delivered>>

ReplayInit ==
  /\ Init
  /\ rstate = "idle"
  /\ current = 0 /\ rend = 0 /\ known = 0
  /\ delivered = <<>>

ReplayNext ==
  \/ ReplayStart
  \/ ReplayStep
  \/ ReplayEnd
  \/ ReplayAgain
  \/ /\ PalfAppend \/ PalfOpen \/ \E l \in SeekTargets : seek(l)
     /\ UNCHANGED replayVars
  \/ /\ Stop
     /\ rstate' = "idle"
     /\ UNCHANGED <<current, rend, known, delivered>>

ReplaySpec == ReplayInit /\ [][ReplayNext]_allVars

-----------------------------------------------------------------------------
\* An entry one read call can return in full.
Fits(i) ==
  LET size == appends[i].end - appends[i].lsn
  IN size <= ReadBufSize /\ lsn_2_offset(appends[i].lsn) + size <= BlockSize

\* The handler sees a gap-free run of the log from its beginning, in log order
\* and each entry once, whatever is appended while replay_ls walks.
ReplayContiguous ==
  \A k \in DOMAIN delivered :
    appends[delivered[k].uid].lsn =
      IF k = 1 THEN 0 ELSE appends[delivered[k - 1].uid].end

\* When replay_ls has returned, every append that was acknowledged below the
\* end_lsn it captured was handed over, and intact if one read could return it, as
\* long as no header straddles two blocks.
ReplayComplete ==
  rstate = "done" /\ HeadersFit =>
    \A i \in DOMAIN appends :
      i <= known /\ appends[i].ok /\ appends[i].end <= rend =>
        \E k \in DOMAIN delivered :
          delivered[k].uid = i /\ (Fits(i) => delivered[k].whole)

\* A replay hands over neither too little nor anything out of place.
ReplayExact == ReplayContiguous /\ ReplayComplete

\* What replay_ls hands over is what was appended: ob_log_service.h promises to
\* "Replay all committed logs for a given LS, calling registered handlers".
ReplayIntact ==
  \A k \in DOMAIN delivered : appends[delivered[k].uid].ok => delivered[k].whole
=============================================================================
