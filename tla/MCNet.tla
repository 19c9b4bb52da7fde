------------------------------- MODULE MCNet -------------------------------
(***************************************************************************)
(* The network side for TLC: the process with its connections (Server),    *)
(* one connection of the plain protocol (PlainCommunicator) and the writer *)
(* below it (BufferedWriter).  Each sees the others only as a choice of    *)
(* outcomes, so each is explored on its own: "part" says which one runs.   *)
(***************************************************************************)
EXTENDS Server, PlainCommunicator, BufferedWriter

VARIABLE part

ASSUME ProcessAssumption == ServerConstants
ASSUME PlainAssumption == PlainConstants
ASSUME WriterAssumption == WriterConstants

netVars == <<part, vars, plainVars, writerVars>>

MCInit ==
  /\ part \in {"process", "plain", "writer"}
  /\ Init /\ PlainInit /\ WriterInit

OfProcess(A) == part = "process" /\ A /\ UNCHANGED <<part, plainVars, writerVars>>
OfPlain(A) == part = "plain" /\ A /\ UNCHANGED <<part, vars, writerVars>>
OfWriter(A) == part = "writer" /\ A /\ UNCHANGED <<part, vars, plainVars>>

MCNext == OfProcess(Next) \/ OfPlain(PlainNext) \/ OfWriter(WriterNext)

\* Every thread of the server runs, a poll returns within 500 ms, and a socket whose
\* reader keeps reading takes bytes.  Nothing is assumed of what clients send.
Fairness ==
  /\ WF_netVars(OfProcess(QuitThread)) /\ WF_netVars(OfProcess(Main))
  /\ \A a \in Addresses : WF_netVars(OfProcess(Works(a)))
  /\ WF_netVars(OfPlain(Worker))
  /\ WF_netVars(OfWriter(Call)) /\ WF_netVars(OfWriter(SysWrite))

MCSpec == MCInit /\ [][MCNext]_netVars /\ Fairness

-----------------------------------------------------------------------------
\* A complete request is answered, or the connection is closed (handle_event; requests
\* are bounded, so it is the same to say that time and again none is left), and a client
\* that leaves has its connection closed in the end (Worker::operator()).  A quit signal
\* handled once the server has started ends the process, unless a client holds back half of
\* its request for ever.  A call of the writer returns once the reader of the socket keeps
\* reading (BufferedWriter::write, flush_internal).
Answered ==
  /\ []<>(answered = Len(asked) \/ pc = "closed")
  /\ Released
  /\ QuitEndsUnlessHeld
  /\ CallsReturn
=============================================================================
