------------------------ MODULE PlainCommunicator -------------------------
(***************************************************************************)
(* One connection of the plain text protocol: a client, the socket, and    *)
(* the worker that runs SqlTaskHandler::handle_event on it, with           *)
(* PlainCommunicator::read_event and write_result and the SqlResult they   *)
(* drive.                                                                  *)
(*                                                                         *)
(* A request is a number of text bytes "c" and the terminator "z".  The    *)
(* client sends one request at a time, byte by byte, and may close the     *)
(* connection at any point.  What a statement computes is left open: it    *)
(* fails or succeeds, with or without an operator tree, and the tree may   *)
(* fail when it is opened, at any row, or when it is closed.  The bytes    *)
(* of a reply are abstracted to the items written; BufferedWriter models   *)
(* how they reach the socket.                                              *)
(***************************************************************************)
EXTENDS Integers, Sequences, FiniteSetsExt

CONSTANTS
  MaxPacket,    \* max_packet_size
  MaxRequests,  \* bound on the requests of the client
  MaxLength,    \* bound on the text bytes of a request
  MaxRows,      \* bound on the rows of a result
  MaxCells      \* bound on the columns of a result

PlainConstants ==
  /\ MaxPacket \in Nat \ {0}
  /\ MaxRequests \in Nat /\ MaxLength \in Nat /\ MaxRows \in Nat /\ MaxCells \in Nat

VARIABLES
  inbox,     \* bytes in the socket
  peer,      \* the client's end: open, fin (closed, no answer to data yet), reset
  text,      \* text bytes the client has sent of its present request
  asked,     \* history: lengths of the complete requests, terminator included
  pc,        \* the worker
  query,     \* bytes of the request read so far, data_len of them
  rc,        \* what the last read_event returned
  done,      \* history: lengths of the queries executed
  result,    \* SqlResult: return code and columns, has_operator
  opened,    \* the operator tree is open
  trx,       \* transaction of the statement: none, active, committed, rolledback
  failed,    \* executing the statement failed
  col,       \* column of the header, or row of the result, at hand
  reply,     \* items of the reply written so far
  drop,      \* need_disconnect
  answered   \* history: terminators written

client == <<inbox, peer, text, asked>>
statement == <<result, opened, trx, failed, col>>
plainVars == <<client, pc, query, rc, done, statement, reply, drop, answered>>

NoResult == [code |-> "SUCCESS", oper |-> FALSE, cells |-> 0]

PlainInit ==
  /\ inbox = << >> /\ peer = "open" /\ text = 0 /\ asked = << >>
  /\ pc = "poll" /\ query = << >> /\ rc = "SUCCESS" /\ done = << >>
  /\ result = NoResult /\ opened = FALSE /\ trx = "none" /\ failed = FALSE /\ col = 0
  /\ reply = << >> /\ drop = FALSE /\ answered = 0

-----------------------------------------------------------------------------
(* The client *)

SendText ==
  /\ peer = "open" /\ answered = Len(asked) /\ Len(asked) < MaxRequests /\ text < MaxLength
  /\ inbox' = Append(inbox, "c")
  /\ text' = text + 1
  /\ UNCHANGED <<peer, asked, pc, query, rc, done, statement, reply, drop, answered>>

SendEnd ==
  /\ peer = "open" /\ answered = Len(asked) /\ Len(asked) < MaxRequests
  /\ inbox' = Append(inbox, "z")
  /\ asked' = Append(asked, text + 1)
  /\ text' = 0
  /\ UNCHANGED <<peer, pc, query, rc, done, statement, reply, drop, answered>>

\* The client closes its end; data sent to it afterwards is answered by a reset.
ClientClose ==
  /\ peer # "reset"
  /\ peer' = IF peer = "open" THEN "fin" ELSE "reset"
  /\ UNCHANGED <<inbox, text, asked, pc, query, rc, done, statement, reply, drop, answered>>

-----------------------------------------------------------------------------
(* Worker::operator() and read_event *)

Pollable == inbox # << >> \/ peer # "open"

\* Mutation: the bytes of the last request are kept.
PollInKeep ==
  /\ pc = "poll" /\ Pollable
  /\ pc' = "read"
  /\ UNCHANGED <<client, query, rc, done, statement, reply, drop, answered>>

\* poll reports POLLIN and the request is read from the start of a fresh buffer.
PollIn ==
  /\ pc = "poll" /\ Pollable
  /\ pc' = "read"
  /\ query' = << >>
  /\ UNCHANGED <<client, rc, done, statement, reply, drop, answered>>

\* POLLHUP or POLLERR: the connection is given up without reading.
PollHup ==
  /\ pc = "poll" /\ peer = "reset"
  /\ pc' = "closed"
  /\ UNCHANGED <<client, query, rc, done, statement, reply, drop, answered>>

Room == MaxPacket - Len(query)

\* Mutation: the terminator is looked for in the first byte of a chunk only.
EndInFirst(chunk) == IF chunk[1] = "z" THEN 1 ELSE 0

\* Place of the first terminator of the chunk, 0 when there is none.
EndIn(chunk) ==
  LET ends == {i \in DOMAIN chunk : chunk[i] = "z"}
  IN IF ends = {} THEN 0 ELSE Min(ends)

\* read returns some bytes; what follows a terminator in the same chunk is dropped.
ReadSome ==
  /\ pc = "read"
  /\ \E n \in 1 .. Min({Len(inbox), Room}) :
       LET chunk == SubSeq(inbox, 1, n)
           e == EndIn(chunk)
       IN /\ inbox' = SubSeq(inbox, n + 1, Len(inbox))
          /\ query' = query \o SubSeq(chunk, 1, IF e = 0 THEN n ELSE e)
          /\ pc' = IF e = 0 THEN "read" ELSE "handle"
          /\ rc' = "SUCCESS"
  /\ UNCHANGED <<peer, text, asked, done, statement, reply, drop, answered>>

\* read returns 0: the client closed its end, or there is no room left in the buffer.
ReadEnd ==
  /\ pc = "read"
  /\ (inbox = << >> /\ peer # "open") \/ Room = 0
  /\ rc' = "IOERR_CLOSE"
  /\ pc' = "closed"
  /\ UNCHANGED <<client, query, done, statement, reply, drop, answered>>

\* A reset connection: the read fails.
ReadError ==
  /\ pc = "read" /\ peer = "reset"
  /\ rc' = "IOERR_READ"
  /\ pc' = "closed"
  /\ UNCHANGED <<client, query, done, statement, reply, drop, answered>>

\* EAGAIN: the loop goes round.
ReadAgain ==
  /\ pc = "read" /\ inbox = << >> /\ peer = "open" /\ Room > 0
  /\ UNCHANGED plainVars

-----------------------------------------------------------------------------
(* handle_sql, SqlResult and write_result *)

Results ==
  {[code |-> c, oper |-> FALSE, cells |-> 0] : c \in {"SUCCESS", "FAILURE"}}
    \cup {[code |-> "SUCCESS", oper |-> TRUE, cells |-> n] : n \in 0 .. MaxCells}

\* handle_sql: the five stages leave a return code and perhaps an operator tree.
HandleSql ==
  /\ pc = "handle"
  /\ done' = Append(done, Len(query))
  /\ \E r \in Results :
       /\ result' = r
       /\ failed' = (r.code = "FAILURE")
       /\ pc' = IF r.code = "FAILURE" \/ ~r.oper THEN "state" ELSE "open"
  /\ opened' = FALSE /\ trx' = "none" /\ col' = 0
  /\ reply' = << >>
  /\ drop' = TRUE
  /\ UNCHANGED <<client, query, rc, answered>>

\* SqlResult::close: the tree is closed and destroyed; its own return code alone
\* decides between commit and rollback.
CloseResult(closeRc) ==
  /\ opened' = FALSE
  /\ trx' = IF closeRc = "SUCCESS" THEN "committed" ELSE "rolledback"

Codes == {"SUCCESS", "FAILURE"}

OpenFails ==
  /\ pc = "open"
  /\ \E c \in Codes : CloseResult(c)
  /\ failed' = TRUE
  /\ result' = [result EXCEPT !.code = "FAILURE", !.oper = FALSE]
  /\ pc' = "state"
  /\ UNCHANGED <<client, query, rc, done, col, reply, drop, answered>>

OpenResult ==
  /\ pc = "open"
  /\ opened' = TRUE
  /\ trx' = "active"
  /\ pc' = IF result.cells > 0 THEN "header" ELSE "tuples"
  /\ UNCHANGED <<client, query, rc, done, result, failed, col, reply, drop, answered>>

\* writen fails only when the client is gone; it may still succeed, into the buffer.
WriteFails == peer = "reset"

\* Column names, each but the first after a delimiter.
WriteColumn ==
  /\ pc = "header" /\ col < result.cells
  /\ reply' = Append(reply, "column")
  /\ col' = col + 1
  /\ UNCHANGED <<client, pc, query, rc, done, result, opened, trx, failed, drop, answered>>

\* The delimiter cannot be written: write_result_internal returns at once.
DelimiterFails ==
  /\ pc = "header" /\ col \in 1 .. result.cells - 1 /\ WriteFails
  /\ pc' = "flush"
  /\ UNCHANGED <<client, query, rc, done, statement, reply, drop, answered>>

\* A column name, the newline of the header, a cell or the newline of a row cannot be
\* written, or a cell has no value: the result is closed first.
WriteItemFails ==
  /\ \/ pc = "header" /\ WriteFails
     \/ pc = "tuples" /\ (WriteFails \/ result.cells > 0)
  /\ \E c \in Codes : CloseResult(c)
  /\ pc' = "flush"
  /\ UNCHANGED <<client, query, rc, done, result, failed, col, reply, drop, answered>>

HeaderEnd ==
  /\ pc = "header" /\ col = result.cells
  /\ pc' = "tuples"
  /\ col' = 0
  /\ UNCHANGED <<client, query, rc, done, result, opened, trx, failed, reply, drop, answered>>

\* next_tuple returns a row and it is written.
WriteRow ==
  /\ pc = "tuples" /\ result.cells > 0 /\ col < MaxRows
  /\ reply' = Append(reply, "row")
  /\ col' = col + 1
  /\ UNCHANGED <<client, pc, query, rc, done, result, opened, trx, failed, drop, answered>>

\* next_tuple fails: its code is returned as it is.
NextFails ==
  /\ pc = "tuples"
  /\ failed' = TRUE
  /\ pc' = "flush"
  /\ UNCHANGED <<client, query, rc, done, result, opened, trx, col, reply, drop, answered>>

\* RECORD_EOF: a result without columns reports how closing it went.
Eof ==
  /\ pc = "tuples"
  /\ \E c \in Codes :
       /\ CloseResult(c)
       /\ IF result.cells = 0
          THEN /\ result' = [result EXCEPT !.code = c]
               /\ pc' = "state" /\ drop' = drop
          ELSE /\ result' = result
               /\ pc' = "end" /\ drop' = FALSE
  /\ UNCHANGED <<client, query, rc, done, failed, col, reply, answered>>

\* write_state
write_state ==
  /\ pc = "state"
  /\ reply' = Append(reply, result.code)
  /\ drop' = FALSE
  /\ pc' = "end"
  /\ UNCHANGED <<client, query, rc, done, statement, answered>>

\* A state or a terminator that cannot be written; the latter returns before the flush.
LastItemFails ==
  /\ pc \in {"state", "end"} /\ WriteFails
  /\ drop' = TRUE
  /\ pc' = IF pc = "state" THEN "flush" ELSE "return"
  /\ UNCHANGED <<client, query, rc, done, statement, reply, answered>>

WriteEnd ==
  /\ pc = "end"
  /\ reply' = Append(reply, "end")
  /\ answered' = answered + 1
  /\ pc' = "flush"
  /\ UNCHANGED <<client, query, rc, done, statement, drop>>

\* The return code of flush is not looked at.
Flush ==
  /\ pc = "flush"
  /\ pc' = "return"
  /\ UNCHANGED <<client, query, rc, done, statement, reply, drop, answered>>

\* Mutation: the connection is kept whatever write_result said.
HandleReturnKeep ==
  /\ pc = "return"
  /\ pc' = "poll"
  /\ UNCHANGED <<client, query, rc, done, statement, reply, drop, answered>>

\* handle_event returns: the event and its SqlResult are deleted, and the worker goes on
\* or closes the connection.
HandleReturn ==
  /\ pc = "return"
  /\ pc' = IF drop THEN "closed" ELSE "poll"
  /\ UNCHANGED <<client, query, rc, done, statement, reply, drop, answered>>

-----------------------------------------------------------------------------

Worker ==
  \/ PollIn \/ PollHup \/ ReadSome \/ ReadEnd \/ ReadError \/ ReadAgain
  \/ HandleSql \/ OpenFails \/ OpenResult
  \/ WriteColumn \/ DelimiterFails \/ WriteItemFails \/ HeaderEnd
  \/ WriteRow \/ NextFails \/ Eof
  \/ write_state \/ LastItemFails \/ WriteEnd \/ Flush \/ HandleReturn

PlainNext == SendText \/ SendEnd \/ ClientClose \/ Worker

PlainSpec == PlainInit /\ [][PlainNext]_plainVars

\* The worker's thread runs.  Nothing is assumed of the client.
FairPlainSpec == PlainSpec /\ WF_plainVars(Worker)

-----------------------------------------------------------------------------
(* Properties *)

\* However the bytes of a request are split over reads, the statements executed are the
\* requests the client completed, whole, in order and once each (read_event).
WholeRequests == Len(done) <= Len(asked) /\ SubSeq(asked, 1, Len(done)) = done

\* A worker that goes back to wait for a request has answered every one it executed,
\* with one terminator; a reply cut short ends with the connection (write_result).
AnsweredOnce ==
  /\ answered <= Len(done)
  /\ pc = "poll" => answered = Len(done)
  /\ pc \in {"poll", "return"} /\ ~drop /\ done # << >> => reply[Len(reply)] = "end"

\* Both: what is executed is what was asked, and it is answered once.
OneAnswer == WholeRequests /\ AnsweredOnce

\* A complete request is answered, or the connection is closed (handle_event).
RequestsAnswered ==
  \A n \in 1 .. MaxRequests :
    Len(asked) = n ~> (answered >= n \/ pc = "closed")

\* A client that leaves has its connection closed in the end (Worker::operator()).
Released == peer # "open" ~> pc = "closed"

\* A tree that was opened is closed by the time its request is over.
ResultClosed == pc \in {"poll", "closed"} => ~opened

\* A statement that failed does not commit.
FailureRollsBack == failed => trx # "committed"

\* Every reply ends with a line that states the outcome.
StatusLine ==
  pc = "poll" /\ reply # << >> => reply[Len(reply) - 1] \in {"SUCCESS", "FAILURE"}

\* A request that fills the buffer ends with IOERR_TOO_LONG, never as a connection closed
\* by the client.
TooLong == rc = "IOERR_CLOSE" => Room > 0

\* read_event returns when the bytes at hand end before the request does.
ReadReturns == pc = "read" ~> pc # "read"
=============================================================================
