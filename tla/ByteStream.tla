---------------------------- MODULE ByteStream ----------------------------
(***************************************************************************)
(* What a buffered writer promises the code above it: the bytes handed to  *)
(* it reach the socket in order and none twice; at most Capacity of them   *)
(* wait inside.  Bytes are numbered in the order the caller passes them.   *)
(***************************************************************************)
EXTENDS Naturals, Sequences

CONSTANT Capacity

VARIABLES
  given,  \* bytes passed by the caller so far
  queue,  \* bytes taken and not yet sent
  sent    \* bytes the socket has accepted

vars == <<given, queue, sent>>

Init ==
  /\ given = 0
  /\ queue = << >>
  /\ sent = << >>

Put ==
  \E n \in 1 .. Capacity - Len(queue) :
    /\ queue' = queue \o [i \in 1 .. n |-> given + i]
    /\ given' = given + n
    /\ UNCHANGED sent

Send ==
  \E n \in 1 .. Len(queue) :
    /\ sent' = sent \o SubSeq(queue, 1, n)
    /\ queue' = SubSeq(queue, n + 1, Len(queue))
    /\ UNCHANGED given

\* A call that fails drops the bytes it had not yet put.
Drop ==
  /\ given' > given
  /\ UNCHANGED <<queue, sent>>

Next == Put \/ Send \/ Drop
Spec == Init /\ [][Next]_vars
=============================================================================
