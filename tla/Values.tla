------------------------------- MODULE Values -------------------------------
(***************************************************************************)
(* class Value (src/observer/common): a type tag, a length, a union of an  *)
(* int, a float, a bool and a pointer, and a flag that says the pointer is *)
(* to memory the Value allocated.                                          *)
(*                                                                         *)
(* The memory is the set of live allocations, each with the string it      *)
(* holds.  The union is modelled by what it is when it is read as a        *)
(* pointer: Null, an allocation, IntBits (the bits of a number, upper half *)
(* zero) or Wild (a number written over the lower half of a pointer).      *)
(***************************************************************************)
EXTENDS Integers, FiniteSets, FiniteSetsExt, Sequences

CONSTANTS
  Slots,      \* Value objects
  Texts,      \* strings given to set_string; "" is the empty one
  MaxCells    \* bound on the allocations of a run

VARIABLES
  vals,       \* the Value objects
  heap,       \* live allocations: a function from cells to strings
  used,       \* cells allocated so far
  badFree     \* history: delete[] of something that is not a live allocation

mvars == <<vals, heap, used, badFree>>

Null == 0
IntBits == -1
Wild == -2

Fresh == [type |-> "UNDEFINED", len |-> 0, own |-> FALSE, num |-> 0, word |-> Null]

Cells == 1 .. MaxCells
Live == DOMAIN heap

\* What a memory operation leaves: the value, the heap, and whether a delete[] was wrong.
Mem(v, h, bad) == [v |-> v, h |-> h, bad |-> bad]

\* Value::reset.  Only an owned string is given back; the union keeps its bits otherwise.
Reset(v, h) ==
  LET frees == v.type = "CHARS" /\ v.own /\ v.word # Null
      ok == v.word \in DOMAIN h
  IN Mem([v EXCEPT !.type = "UNDEFINED", !.len = 0, !.own = FALSE,
                   !.word = IF frees THEN Null ELSE @],
         IF frees /\ ok THEN [c \in DOMAIN h \ {v.word} |-> h[c]] ELSE h,
         frees /\ ~ok)

\* What the union can be after a number is stored in its lower half; a bool overwrites
\* one byte of it only.
NumberWords(word, type, n) ==
  IF word \notin {Null, IntBits} THEN {Wild}
  ELSE IF n # 0 THEN {IntBits}
  ELSE IF type = "BOOLEANS" THEN {Null, word} ELSE {Null}

\* Value::set_int, set_float, set_boolean; n stands for the bits that are stored.
SetNumber(v, h, type, n) ==
  LET r == Reset(v, h)
  IN {Mem([r.v EXCEPT !.type = type, !.num = n, !.len = IF type = "BOOLEANS" THEN 1 ELSE 4, !.word = w],
          r.h, r.bad) : w \in NumberWords(r.v.word, type, n)}

\* Value::set_string of a null pointer.
SetNull(v, h) ==
  LET r == Reset(v, h) IN Mem([r.v EXCEPT !.type = "CHARS", !.word = Null], r.h, r.bad)

\* Value::set_string of a text that is not null.
SetString(v, h, text, cell) ==
  LET r == Reset(v, h)
  IN Mem([r.v EXCEPT !.type = "CHARS", !.own = TRUE, !.len = IF text = "" THEN 0 ELSE 1, !.word = cell],
         [c \in DOMAIN r.h \cup {cell} |-> IF c = cell THEN text ELSE r.h[c]], r.bad)

\* Value::set_empty_string: room for a text of any length.
SetEmptyString(v, h, len, cell) ==
  LET r == SetString(v, h, "", cell) IN [r EXCEPT !.v.len = len]

\* Value::set_string_from_other, after type, length and flag were copied: a new
\* allocation only for an owned string that is not empty.
SetStringFromOther(v, o, h, cell) ==
  IF v.own /\ o.word # Null /\ v.len # 0
  THEN Mem([v EXCEPT !.word = cell],
           [c \in DOMAIN h \cup {cell} |-> IF c = cell THEN h[o.word] ELSE h[c]],
           o.word \notin DOMAIN h)
  ELSE Mem(v, h, FALSE)

\* What both copies share: the tag, the length and the flag, then the union or the string.
CopyOnto(v, o, h, cell) ==
  LET tagged == [v EXCEPT !.type = o.type, !.len = o.len, !.own = o.own]
  IN IF o.type = "CHARS" THEN SetStringFromOther(tagged, o, h, cell)
     ELSE Mem([tagged EXCEPT !.num = o.num, !.word = o.word], h, FALSE)

\* Value(const Value &).
CopyConstruct(o, h, cell) == CopyOnto(Fresh, o, h, cell)

\* Value::operator=(const Value &).
CopyAssign(v, o, h, cell) ==
  LET r == Reset(v, h)
      c == CopyOnto(r.v, o, r.h, cell)
  IN Mem(c.v, c.h, r.bad \/ c.bad)

\* Mutation: the source keeps the flag, so two values own one allocation.
MovedFrom_KeepsOwn(o) == [o EXCEPT !.len = 0]

\* What a move leaves of the source: its pointer, without the flag.
MovedFrom(o) == [o EXCEPT !.own = FALSE, !.len = 0]

\* Value::operator=(Value &&): the union is taken over as it is.
MoveAssign(v, o, h) ==
  LET r == Reset(v, h)
  IN Mem([o EXCEPT !.word = o.word], r.h, r.bad)

-----------------------------------------------------------------------------
MInit ==
  /\ vals = [s \in Slots |-> Fresh]
  /\ heap = [c \in {} |-> ""]
  /\ used = 0
  /\ badFree = FALSE

Apply(s, m, cells) ==
  /\ vals' = [vals EXCEPT ![s] = m.v]
  /\ heap' = m.h
  /\ used' = used + cells
  /\ badFree' = (badFree \/ m.bad)

\* Allocations m made of the cell used + 1.
Taken(m) == IF used + 1 \in DOMAIN m.h THEN 1 ELSE 0

StoreNumber(s) ==
  \E type \in {"INTS", "FLOATS", "BOOLEANS"}, n \in {0, 1} : \E m \in SetNumber(vals[s], heap, type, n) : Apply(s, m, 0)

StoreString(s) ==
  /\ used < MaxCells
  /\ \/ \E text \in Texts : Apply(s, SetString(vals[s], heap, text, used + 1), 1)
     \/ Apply(s, SetEmptyString(vals[s], heap, 1, used + 1), 1)
     \/ Apply(s, SetNull(vals[s], heap), 0)

\* Value::set_value goes through the setters; the string is read before the old one is given
\* back.  What a move has left behind is not read.
SetValue(s, o) ==
  /\ s # o /\ used < MaxCells /\ vals[o].type # "UNDEFINED"
  /\ IF vals[o].type = "CHARS"
     THEN /\ vals[o].own \/ vals[o].word = Null
          /\ \E text \in Texts :
               /\ text = IF vals[o].word \in Live THEN heap[vals[o].word] ELSE ""
               /\ Apply(s, SetString(vals[s], heap, text, used + 1), 1)
     ELSE \E m \in SetNumber(vals[s], heap, vals[o].type, vals[o].num) : Apply(s, m, 0)

\* A copy; a Value is also copied onto a new object in place of one that was destroyed.
Copy(s, o) ==
  /\ s # o /\ used < MaxCells
  /\ LET a == CopyAssign(vals[s], vals[o], heap, used + 1)
         d == Reset(vals[s], heap)
         c == CopyConstruct(vals[o], d.h, used + 1)
     IN \/ Apply(s, a, Taken(a))
        \/ Apply(s, Mem(c.v, c.h, c.bad \/ d.bad), Taken(c))

Move(s, o) ==
  /\ s # o
  /\ LET m == MoveAssign(vals[s], vals[o], heap)
     IN /\ vals' = [vals EXCEPT ![s] = m.v, ![o] = MovedFrom(vals[o])]
        /\ heap' = m.h
        /\ badFree' = (badFree \/ m.bad)
        /\ UNCHANGED used

\* ~Value, and a new Value in its place.
Destroy(s) ==
  LET r == Reset(vals[s], heap) IN Apply(s, Mem(Fresh, r.h, r.bad), 0)

MNext ==
  \E s \in Slots :
    \/ StoreNumber(s) \/ StoreString(s) \/ Destroy(s)
    \/ \E o \in Slots : Copy(s, o) \/ Move(s, o) \/ SetValue(s, o)

MSpec == MInit /\ [][MNext]_mvars

-----------------------------------------------------------------------------
\* Whatever sequence of stores, copies, moves and destructions, as long as no empty
\* string is copied: delete[] is called on live allocations only, no two values own one
\* allocation, and every allocation has an owner that will give it back.
HeapSound ==
  /\ ~badFree
  /\ \A c \in Live : Cardinality({s \in Slots : vals[s].own /\ vals[s].word = c}) = 1

\* The comment on own_data_ says that it tells whether the Value has allocated memory and
\* owns it: an owner's pointer, when it has one, is an allocation.
OwnsAllocated == \A s \in Slots : vals[s].own /\ vals[s].word # Null => vals[s].word \in Live
=============================================================================
