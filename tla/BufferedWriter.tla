-------------------------- MODULE BufferedWriter --------------------------
(***************************************************************************)
(* BufferedWriter over RingBuffer, the output side of every communicator.  *)
(* Used by one thread; the steps are those of its loops, so that a         *)
(* non-blocking socket may take part of a chunk or refuse it at each one.  *)
(* Bytes are numbered in the order the caller passes them.                 *)
(***************************************************************************)
EXTENDS Integers, Sequences, FiniteSetsExt

CONSTANTS
  Capacity,   \* capacity() of the ring buffer
  MaxBytes,   \* bound on the bytes passed to writen
  CanFail     \* TRUE: write(2) may fail with an error other than EAGAIN and EINTR

WriterConstants ==
  /\ Capacity \in Nat \ {0}
  /\ MaxBytes \in Nat
  /\ CanFail \in BOOLEAN

VARIABLES
  buffer,     \* buffer_
  data_size,  \* data_size_
  write_pos,  \* write_pos_
  fd,         \* fd_ >= 0
  call,         \* idle, writen, spill (flush_internal inside write), flush, close
  todo,       \* bytes of the writen call not yet in the buffer
  want,       \* size - write_size of flush_internal
  callRc,         \* what the last call returned
  given,      \* bytes of the calls so far, up to the next one to copy
  sent        \* bytes the socket accepted

ring == <<buffer, data_size, write_pos>>
writerVars == <<ring, fd, call, todo, want, callRc, given, sent>>

Slots == 0 .. Capacity - 1

WriterInit ==
  /\ buffer = [i \in Slots |-> 0]
  /\ data_size = 0
  /\ write_pos = 0
  /\ fd = TRUE
  /\ call = "idle"
  /\ todo = 0
  /\ want = 0
  /\ callRc = "SUCCESS"
  /\ given = 0
  /\ sent = << >>

-----------------------------------------------------------------------------
(* RingBuffer *)

remain == Capacity - data_size
read_pos == (write_pos - data_size + Capacity) % Capacity

\* Mutation: a full buffer taken for an empty one.
ReadableWhenFullIsNone ==
  IF data_size = 0 \/ read_pos = write_pos THEN 0
  ELSE IF read_pos < write_pos THEN write_pos - read_pos ELSE Capacity - read_pos

\* The readable bytes that lie in one piece, from read_pos on.
Readable ==
  IF data_size = 0 THEN 0
  ELSE IF read_pos < write_pos THEN write_pos - read_pos ELSE Capacity - read_pos

\* The free bytes that lie in one piece, from write_pos on.
Writable ==
  IF read_pos <= write_pos THEN Capacity - write_pos ELSE read_pos - write_pos

\* Mutation: the read position moves past the whole chunk offered to the socket.
forwardChunk(n) ==
  /\ data_size' = data_size - Readable
  /\ UNCHANGED <<buffer, write_pos>>

\* forward(n)
forward(n) ==
  /\ data_size' = data_size - n
  /\ UNCHANGED <<buffer, write_pos>>

\* One round of RingBuffer::write on a call that still has todo bytes.
RingWrite ==
  LET n == Min({todo, Writable})
  IN /\ buffer' = [i \in Slots |->
                     IF i \in write_pos .. write_pos + n - 1
                     THEN given + (i - write_pos) + 1 ELSE buffer[i]]
     /\ write_pos' = (write_pos + n) % Capacity
     /\ data_size' = data_size + n
     /\ todo' = todo - n
     /\ given' = given + n

-----------------------------------------------------------------------------
(* BufferedWriter *)

Return(code) ==
  /\ call' = "idle"
  /\ callRc' = code
  /\ todo' = 0
  /\ want' = 0
  /\ given' = given + todo

\* writen(data, n)
writen(n) ==
  /\ call = "idle" /\ fd
  /\ given + n <= MaxBytes
  /\ call' = "writen"
  /\ todo' = n
  /\ UNCHANGED <<ring, fd, want, callRc, given, sent>>

\* write: a full buffer is flushed by the size still to write, then filled.
WriteFull ==
  /\ call = "writen" /\ todo > 0 /\ remain = 0
  /\ call' = "spill"
  /\ want' = todo
  /\ UNCHANGED <<ring, fd, todo, callRc, given, sent>>

WriteCopy ==
  /\ call = "writen" /\ todo > 0 /\ remain > 0
  /\ RingWrite
  /\ UNCHANGED <<fd, call, want, callRc, sent>>

WrittenAll ==
  /\ call = "writen" /\ todo = 0
  /\ Return("SUCCESS")
  /\ UNCHANGED <<ring, fd, sent>>

\* Mutation: only the first piece of a buffer that wraps around is flushed.
flushPiece(caller) ==
  /\ call = "idle" /\ fd
  /\ call' = caller
  /\ want' = Readable
  /\ UNCHANGED <<ring, fd, todo, callRc, given, sent>>

\* flush() and close(), which flushes first.  As the size asked for is that of the buffer,
\* the loop of flush runs flush_internal once; FlushComplete shows that once is enough.
flush(caller) ==
  /\ call = "idle" /\ fd
  /\ call' = caller
  /\ want' = data_size
  /\ UNCHANGED <<ring, fd, todo, callRc, given, sent>>

Flushing == call \in {"spill", "flush", "close"}
MoreToFlush == Flushing /\ data_size > 0 /\ want > 0

\* One write(2) in the loop of flush_internal: the socket takes n bytes.
SysWrite ==
  /\ MoreToFlush
  /\ \E n \in 1 .. Readable :
       /\ sent' = sent \o [i \in 1 .. n |-> buffer[read_pos + i - 1]]
       /\ forward(n)
       /\ want' = want - n
  /\ UNCHANGED <<fd, call, todo, callRc, given>>

\* EAGAIN and EINTR leave everything as it is and the loop tries again.
SysRetry ==
  /\ MoreToFlush
  /\ UNCHANGED writerVars

SysFail ==
  /\ CanFail
  /\ MoreToFlush
  /\ Return("IOERR_WRITE")
  /\ UNCHANGED <<ring, fd, sent>>

\* flush_internal returns: to write, which goes on to copy, or out of flush or close.
Flushed ==
  /\ Flushing /\ ~MoreToFlush
  /\ \/ /\ call = "spill"
        /\ call' = "writen"
        /\ want' = 0
        /\ UNCHANGED <<ring, fd, todo, callRc, given, sent>>
     \/ /\ call \in {"flush", "close"}
        /\ fd' = (call # "close")
        /\ Return("SUCCESS")
        /\ UNCHANGED <<ring, sent>>

\* A call after close finds fd_ < 0.
Refused ==
  /\ call = "idle" /\ ~fd
  /\ callRc' = "INVALID_ARGUMENT"
  /\ UNCHANGED <<ring, fd, call, todo, want, given, sent>>

WriterNext ==
  \/ \E n \in 1 .. MaxBytes : writen(n)
  \/ \E caller \in {"flush", "close"} : flush(caller)
  \/ WriteFull \/ WriteCopy \/ WrittenAll
  \/ SysWrite \/ SysRetry \/ SysFail \/ Flushed \/ Refused

WriterSpec == WriterInit /\ [][WriterNext]_writerVars

\* The steps of a call that do not depend on the socket.
Call == WriteFull \/ WriteCopy \/ WrittenAll \/ Flushed

\* The calling thread runs, and a socket whose reader keeps reading takes bytes.
FairWriterSpec == WriterSpec /\ WF_writerVars(Call) /\ WF_writerVars(SysWrite)

-----------------------------------------------------------------------------
(* Properties *)

\* The bytes between the read and the write position, in the order of reading.
Unread == [i \in 1 .. data_size |-> buffer[(read_pos + i - 1) % Capacity]]

\* The ring buffer implements a bounded queue: whatever the wrapping of its positions
\* and the partial writes of the socket, bytes leave it in the order they came, none
\* lost, repeated or overwritten before it was sent (RingBuffer::write, buffer, forward).
Stream == INSTANCE ByteStream WITH queue <- Unread
BytesInOrder == Stream!Spec

\* flush and close return success only when every byte of every successful writen
\* has reached the socket (BufferedWriter::flush; the reply of a request is complete).
FlushComplete ==
  [][ /\ call \in {"flush", "close"} /\ call' = "idle" /\ callRc' = "SUCCESS"
      => Unread' = << >> ]_writerVars

\* Both: bytes leave in the order they came, none lost, repeated or overwritten, and flush
\* and close return success only when all of them have reached the socket.
InOrder == BytesInOrder /\ FlushComplete

\* A call returns once the reader of the socket keeps reading: neither the copy loop
\* of writen nor the loops of flush run on without progress.
CallsReturn == call # "idle" ~> call = "idle"
=============================================================================
