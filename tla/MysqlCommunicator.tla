------------------------- MODULE MysqlCommunicator -------------------------
(***************************************************************************)
(* One connection of the MySQL protocol: handshake, commands and the       *)
(* packets of their answers.                                               *)
(*                                                                         *)
(* A packet is a record: its kind, the sequence number in its header and   *)
(* its payload as the fields stored one behind the other; a field is a     *)
(* sequence of numbers.  A request is handled in one step, during which    *)
(* "room" packets still reach the writer before it fails; it fails only    *)
(* when the client is gone.  What a statement computes is left open.       *)
(***************************************************************************)
EXTENDS Integers, Sequences, SequencesExt, FiniteSets

CONSTANTS
  SeqIds,        \* sequence numbers, 256 in the code
  Lengths,       \* lengths of the texts in a cell
  Flags,         \* sets of capabilities a client may announce
  MaxRows, MaxCells,
  MaxRequests    \* bound on the commands of the client

VARIABLES
  phase,         \* new, open, closed
  gone,          \* the client has closed its end
  inbox,         \* the request in the socket, at most one
  authed, caps, seq,
  asked,         \* history: requests sent
  request,       \* history: the last request handled
  result,        \* history: what its statement computed
  sent,          \* history: the packets of its answer
  failed         \* history: one of them could not be written

myVars == <<phase, gone, inbox, authed, caps, seq, asked, request, result, sent, failed>>

-----------------------------------------------------------------------------
(* Fields *)

store_int(v) == <<v>>

\* The first byte tells how many follow; the bytes that follow are cut to that many.
store_lenenc_int_OneByte(v) == IF v < 251 THEN <<v>> ELSE <<252, v % 2^8>>

store_lenenc_int(v) ==
  CASE v < 251 -> <<v>>
    [] v >= 251 /\ v < 2 * 2^16 -> <<252, v % 2^16>>
    [] v >= 2 * 2^16 /\ v < 2 * 2^24 -> <<253, v % 2^24>>
    [] OTHER -> <<254, v>>

\* The number a client reads there.
LenencRead(f) == IF Len(f) = 1 THEN f[1] ELSE f[2]

store_null_terminated_string(len) == IF len = 0 THEN << >> ELSE <<len + 1>>
store_fix_length_string(len) == IF len = 0 THEN << >> ELSE <<len>>
store_lenenc_string(len) == store_lenenc_int(len) \o store_fix_length_string(len)

Packet(kind, n, payload) == [kind |-> kind, seq |-> n, payload |-> payload]
When(cond, fields) == IF cond THEN fields ELSE << >>

HandshakeV10(n) ==
  Packet("handshake", n,
    <<store_int(10), store_null_terminated_string(6), store_int(21501807), store_null_terminated_string(8),
      store_int(63455), store_int(83), store_int(0), store_int(0), store_int(0),
      store_fix_length_string(10), store_null_terminated_string(12)>>)

OkPacket(n, flags, affected, info) ==
  Packet("ok", n,
    <<store_int(0), store_lenenc_int(affected), store_lenenc_int(0)>>
      \o (IF "protocol_41" \in flags THEN <<store_int(34), store_int(0)>>
          ELSE When("transactions" \in flags, <<store_int(34)>>))
      \o When("session_track" \in flags, <<store_lenenc_string(info)>>))

EofPacket(n, flags) ==
  Packet("eof", n, <<store_int(254)>> \o When("protocol_41" \in flags, <<store_int(0), store_int(34)>>))

ErrPacket(n, flags, code, message) ==
  Packet("err", n,
    <<store_int(255), store_int(code)>>
      \o When("protocol_41" \in flags, <<store_fix_length_string(1), store_fix_length_string(5)>>)
      \o <<store_fix_length_string(message)>>)

-----------------------------------------------------------------------------
(* Writing.  A stream w: the packets out, the next sequence number, the     *)
(* packets that can still be written, the last return code,                *)
(* need_disconnect and whether a packet was lost.                          *)

Stream(n, room) == [out |-> << >>, seq |-> n, room |-> room, ok |-> TRUE, drop |-> TRUE, lost |-> FALSE]

send_packet(w, p) ==
  IF w.room = 0 THEN [w EXCEPT !.ok = FALSE, !.lost = TRUE]
  ELSE [w EXCEPT !.out = Append(@, p), !.room = @ - 1, !.ok = TRUE]

\* sequence_id_++ on a byte.
Next8_Stuck(w) == w
Next8(w) == [w EXCEPT !.seq = (@ + 1) % SeqIds]
Numbered(w, p) == Next8(send_packet(w, p))
Drops(w) == [w EXCEPT !.drop = TRUE]
Keeps(w) == [w EXCEPT !.drop = FALSE]

Rc == 5           \* length of a return code's text

write_state(w, r) ==
  LET p == IF r.code = "SUCCESS" THEN OkPacket(w.seq, caps, 0, Rc) ELSE ErrPacket(w.seq, caps, 1, Rc)
      s == Numbered(w, p)
  IN  IF s.ok THEN Keeps(s) ELSE Drops(s)

ColumnCount(w, r) ==
  Numbered(w, Packet("count", w.seq, When("metadata" \in caps, <<store_int(1)>>) \o <<store_lenenc_int(r.cells)>>))

\* catalog, schema, table twice, alias twice, and the fixed fields.
ColumnDefinition(w) ==
  Numbered(w, Packet("column", w.seq,
    <<store_lenenc_string(3), store_lenenc_string(3), store_lenenc_string(1), store_lenenc_string(1),
      store_lenenc_string(1), store_lenenc_string(1), store_lenenc_int(12),
      store_int(33), store_int(16384), store_int(253), store_int(0), store_int(31), store_int(0)>>))

\* Returns at the first packet that cannot be written, except for the last one.
send_column_definition(w, r) ==
  LET columns == FoldLeft(LAMBDA s, i : IF s.ok THEN ColumnDefinition(s) ELSE s,
                          ColumnCount(w, r), [i \in 1 .. r.cells |-> i])
  IN  IF ~columns.ok THEN Drops(columns)
      ELSE [Keeps(IF "deprecate_eof" \in caps THEN columns ELSE Numbered(columns, EofPacket(columns.seq, caps)))
              EXCEPT !.ok = TRUE]

\* A cell that cannot be read ends its row, which is sent as it is.
RowPacket(n, r, row) ==
  Packet("row", n, [i \in 1 .. (IF r.badRow = row THEN r.cells - 1 ELSE r.cells) |-> store_lenenc_string(r.len)])

write_tuple_result(w, r) ==
  FoldLeft(LAMBDA s, row : IF ~s.ok \/ r.cells = 0 THEN s
                           ELSE LET t == Numbered(s, RowPacket(s.seq, r, row)) IN IF t.ok THEN t ELSE Drops(t),
           w, [i \in 1 .. r.rows |-> i])

\* Whatever became of the rows, an EOF or OK packet follows and the connection is kept.
send_result_rows(w, r) ==
  LET s == write_tuple_result(w, r)
      last == IF "deprecate_eof" \in caps \/ r.cells = 0 THEN OkPacket(s.seq, caps, r.rows, 0)
              ELSE EofPacket(s.seq, caps)
  IN  Keeps(Numbered(s, last))

\* The return code of the rows is lost in an inner variable: that of close() remains.
write_result(w, r) ==
  IF r.code # "SUCCESS" \/ ~r.oper THEN write_state(w, r)
  ELSE IF ~r.open THEN write_state(w, [r EXCEPT !.code = "FAILURE"])
  ELSE LET s == IF r.cells = 0 THEN w ELSE send_column_definition(w, r)
       IN  IF ~s.ok THEN s ELSE [send_result_rows(s, r) EXCEPT !.ok = TRUE]

-----------------------------------------------------------------------------
(* Requests *)

NoRequest == [kind |-> "none", seq |-> 0, flags |-> {}]
State(c) == [code |-> c, oper |-> FALSE, open |-> FALSE, cells |-> 0, rows |-> 0, len |-> 0, ends |-> TRUE, badRow |-> 0]

\* What a statement may leave behind: "ends" is FALSE when a row failed to come.
Rows(c, n, l, e, b) ==
  [code |-> "SUCCESS", oper |-> TRUE, open |-> TRUE, cells |-> c, rows |-> n, len |-> l, ends |-> e, badRow |-> b]

Results ==
  {State("SUCCESS"), State("FAILURE"), [State("SUCCESS") EXCEPT !.oper = TRUE]}
    \cup {Rows(c, n, 0, e, 0) : c \in 0 .. MaxCells, n \in 0 .. MaxRows, e \in BOOLEAN}
    \cup {Rows(c, n, l, e, b) : c \in 1 .. MaxCells, n \in 1 .. MaxRows, l \in Lengths, e \in BOOLEAN, b \in 0 .. 1}

create_version_comment_sql_result == Rows(1, 1, 6, TRUE, 0)

Rooms == IF gone THEN 0 .. MaxRows + MaxCells + 3 ELSE {MaxRows + MaxCells + 3}

MInit ==
  /\ phase = "new" /\ gone = FALSE /\ inbox = << >> /\ authed = FALSE /\ caps = {} /\ seq = 0
  /\ asked = 0 /\ request = NoRequest /\ result = State("SUCCESS") /\ sent = << >> /\ failed = FALSE

\* The answer to q is out: w holds it; "stay" says whether the connection goes on.
Answered(q, r, w, stay) ==
  /\ request' = q /\ result' = r /\ sent' = w.out /\ seq' = w.seq
  /\ failed' = (failed \/ w.lost)
  /\ phase' = IF stay THEN "open" ELSE "closed"

Greeted(w) == Answered(NoRequest, State("SUCCESS"), w, w.ok)

init ==
  /\ phase = "new"
  /\ \E room \in Rooms : Greeted(send_packet(Stream(seq, room), HandshakeV10(0)))
  /\ UNCHANGED <<gone, inbox, authed, caps, asked>>

\* The handshake's answer and each command are sent once the last answer is complete.
ClientSend ==
  /\ phase = "open" /\ ~gone /\ inbox = << >> /\ asked <= MaxRequests
  /\ asked' = asked + 1
  /\ \E flags \in Flags, kind \in {"query", "version", "other"} :
       /\ asked # 0 => flags = caps
       /\ inbox' = <<[kind |-> IF asked = 0 THEN "auth" ELSE kind,
                      seq |-> IF asked = 0 THEN 1 ELSE 0, flags |-> flags]>>
  /\ UNCHANGED <<phase, gone, authed, caps, seq, request, result, sent, failed>>

ClientClose ==
  /\ ~gone
  /\ gone' = TRUE
  /\ UNCHANGED <<phase, inbox, authed, caps, seq, asked, request, result, sent, failed>>

ReadFails_OnceAuthed ==
  /\ phase = "open" /\ gone /\ authed
  /\ phase' = "closed"
  /\ UNCHANGED <<gone, inbox, authed, caps, seq, asked, request, result, sent, failed>>

\* Nothing comes any more: the header, or the payload, cannot be read.
ReadFails ==
  /\ phase = "open" /\ gone
  /\ phase' = "closed"
  /\ UNCHANGED <<gone, inbox, authed, caps, seq, asked, request, result, sent, failed>>

read_header == (inbox[1].seq + 1) % SeqIds

\* The first packet carries the capabilities; CLIENT_DEPRECATE_EOF is taken out of them.
ReadAuth ==
  /\ phase = "open" /\ inbox # << >> /\ ~authed
  /\ caps' = inbox[1].flags \ {"deprecate_eof"}
  /\ authed' = TRUE
  /\ \E room \in Rooms :
       LET w == send_packet(Stream(read_header, room), OkPacket(read_header, inbox[1].flags \ {"deprecate_eof"}, 0, 0))
       IN  Answered(inbox[1], State("SUCCESS"), w, w.ok)
  /\ inbox' = << >>
  /\ UNCHANGED <<gone, asked>>

\* A command that is no query: an OK packet, whatever it is.
ReadOther ==
  /\ phase = "open" /\ inbox # << >> /\ authed /\ inbox[1].kind = "other"
  /\ \E room \in Rooms :
       LET w == send_packet(Stream(read_header, room), OkPacket(read_header, caps, 0, 0))
       IN  Answered(inbox[1], State("SUCCESS"), w, w.ok)
  /\ inbox' = << >>
  /\ UNCHANGED <<gone, authed, caps, asked>>

\* select @@version_comment is answered inside read_event, need_disconnect unheeded.
handle_version_comment ==
  /\ phase = "open" /\ inbox # << >> /\ authed /\ inbox[1].kind = "version"
  /\ \E room \in Rooms :
       LET w == write_result(Stream(read_header, room), create_version_comment_sql_result)
       IN  Answered(inbox[1], create_version_comment_sql_result, w, w.ok)
  /\ inbox' = << >>
  /\ UNCHANGED <<gone, authed, caps, asked>>

\* COM_QUERY: read_event makes an event, handle_event runs it and writes the result.
ReadQuery ==
  /\ phase = "open" /\ inbox # << >> /\ authed /\ inbox[1].kind = "query"
  /\ \E room \in Rooms, r \in Results :
       LET w == write_result(Stream(read_header, room), r)
       IN  Answered(inbox[1], r, w, ~w.drop)
  /\ inbox' = << >>
  /\ UNCHANGED <<gone, authed, caps, asked>>

MNext == init \/ ClientSend \/ ClientClose \/ ReadFails \/ ReadAuth \/ ReadOther \/ handle_version_comment \/ ReadQuery
MSpec == MInit /\ [][MNext]_myVars /\ WF_myVars(ReadFails)

-----------------------------------------------------------------------------
SentKinds == [i \in DOMAIN sent |-> sent[i].kind]
Repeated(kind, n) == [i \in 1 .. n |-> kind]

\* The answers the protocol knows for the request and the result at hand.
AnswerKinds ==
  IF request.kind = "none" THEN <<"handshake">>
  ELSE IF request.kind \in {"auth", "other"} THEN <<"ok">>
  ELSE IF result.code # "SUCCESS" \/ (result.oper /\ ~result.open) THEN <<"err">>
  ELSE IF ~result.oper \/ result.cells = 0 THEN <<"ok">>
  ELSE <<"count">> \o Repeated("column", result.cells) \o <<"eof">> \o Repeated("row", result.rows) \o <<"eof">>

(* A client that stays reads exactly one complete answer per request: the
   packets the protocol prescribes for what the statement did, numbered from
   the request's number on without a gap, across the byte's end too.  The
   numbers come from sequence_id_, which five functions advance. *)
AnswersWellFormed ==
  phase # "new" /\ ~failed =>
    /\ SentKinds = AnswerKinds
    /\ \A i \in DOMAIN sent :
         sent[i].seq = (IF request.kind = "none" THEN i - 1 ELSE request.seq + i) % SeqIds

(* The length in front of a cell is the length of the cell: a client that
   skips what store_lenenc_int announces lands on the next cell. *)
CellsReadBack ==
  \A i \in DOMAIN sent : sent[i].kind = "row" =>
    \A c \in DOMAIN sent[i].payload :
      LET f == sent[i].payload[c]
      IN  LenencRead(SubSeq(f, 1, IF f[1] < 251 THEN 1 ELSE 2)) = result.len

(* An answer that ends like a complete result set is one: all the rows of
   the statement are in it. *)
EndMeansAll ==
  SentKinds # << >> /\ Last(SentKinds) = "eof" /\ ~failed => result.ends

(* A connection on which a packet could not be written is given up by the
   call that met the failure. *)
FailureDrops == failed => phase = "closed"

(* A connection whose client is gone is given up in the end, although
   send_result_rows keeps it after a failed write: the next read fails. *)
GoneCloses == gone /\ phase = "open" ~> phase = "closed"
=============================================================================
