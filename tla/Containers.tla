----------------------------- MODULE Containers -----------------------------
(***************************************************************************)
(* common::Bitmap over a caller's bytes, of which the bits behind size_    *)
(* are anything, and common::lower_bound over a sorted array that grows by *)
(* inserting where lower_bound says.  A byte is a function from 0 .. 7.    *)
(***************************************************************************)
EXTENDS Integers, Sequences, FiniteSetsExt, SequencesExt

CONSTANTS
  BitSizes,     \* sizes of bitmaps
  Touched,      \* indexes that are set and cleared
  Values        \* of the array's elements, integers

VARIABLES bitmap_, size_, sorted

contVars == <<bitmap_, size_, sorted>>

bytes(size) == IF size % 8 = 0 THEN size \div 8 ELSE (size \div 8) + 1

find_first_zero(byte, start) ==
  IF \E i \in start .. 7 : ~byte[i] THEN Min({i \in start .. 7 : ~byte[i]}) ELSE -1
find_first_setted(byte, start) ==
  IF \E i \in start .. 7 : byte[i] THEN Min({i \in start .. 7 : byte[i]}) ELSE -1

BInit ==
  /\ size_ \in BitSizes
  /\ \E b \in BOOLEAN : bitmap_ = [k \in 0 .. bytes(size_) - 1 |-> [i \in 0 .. 7 |-> b]]
  /\ sorted = << >>

get_bit(index) == bitmap_[index \div 8][index % 8]

set_bit(index) ==
  /\ index < size_
  /\ bitmap_' = [bitmap_ EXCEPT ![index \div 8][index % 8] = TRUE]
  /\ UNCHANGED <<size_, sorted>>

clear_bit(index) ==
  /\ index < size_
  /\ bitmap_' = [bitmap_ EXCEPT ![index \div 8][index % 8] = FALSE]
  /\ UNCHANGED <<size_, sorted>>

\* The first byte, from its first index on, in which a bit with the value b
\* is found: the loop of next_unsetted_bit (b FALSE) and of next_setted_bit.
Scan(b, start) ==
  LET find(byte, at) == IF b THEN find_first_setted(byte, at) ELSE find_first_zero(byte, at)
      from(k) == IF k = start \div 8 THEN start % 8 ELSE 0
      hits == {k \in (start \div 8) .. bytes(size_) - 1 : find(bitmap_[k], from(k)) >= 0}
      ret == IF hits = {} THEN -1 ELSE (8 * Min(hits)) + find(bitmap_[Min(hits)], from(Min(hits)))
  IN  IF ret >= size_ THEN -1 ELSE ret

next_unsetted_bit_Overruns(start) ==
  LET hits == {k \in (start \div 8) .. bytes(size_) - 1 : find_first_zero(bitmap_[k], 0) >= 0}
  IN  IF hits = {} THEN -1 ELSE (8 * Min(hits)) + find_first_zero(bitmap_[Min(hits)], 0)

next_unsetted_bit(start) == Scan(FALSE, start)
next_setted_bit(start) == Scan(TRUE, start)

comp(v1, v2) == IF v1 < v2 THEN -1 ELSE IF v1 > v2 THEN 1 ELSE 0

\* The halving loop: first is an index from 0, count what is left behind it.
RECURSIVE Halve(_, _, _, _)
Halve(s, val, first, count) ==
  LET step == count \div 2
      result == comp(s[first + step + 1], val)
  IN  IF count = 0 THEN [at |-> first, found |-> FALSE]
      ELSE CASE result = 0 -> [at |-> first + step, found |-> TRUE]
             [] result < 0 -> Halve(s, val, first + step + 1, count - (step + 1))
             [] result > 0 -> Halve(s, val, first, step)

lower_bound(s, val) == Halve(s, val, 0, Len(s))

Insert(v) ==
  /\ LET r == lower_bound(sorted, v)
     IN  ~r.found /\ sorted' = InsertAt(sorted, r.at + 1, v)
  /\ UNCHANGED <<bitmap_, size_>>

BNext == (\E i \in Touched : set_bit(i) \/ clear_bit(i)) \/ \E v \in Values : Insert(v)
BSpec == BInit /\ [][BNext]_contVars

-----------------------------------------------------------------------------
FirstFrom(start, b) ==
  LET hits == {i \in start .. size_ - 1 : get_bit(i) = b} IN IF hits = {} THEN -1 ELSE Min(hits)

(* The bit searches find the nearest index of the wanted kind inside the
   bitmap, whatever the last byte holds behind it; lower_bound gives the
   place of the first element that is not smaller, so an array filled through
   it stays sorted and without repetition. *)
SearchesRight ==
  /\ \A i \in 0 .. size_ - 1 :
       next_unsetted_bit(i) = FirstFrom(i, FALSE) /\ next_setted_bit(i) = FirstFrom(i, TRUE)
  /\ \A i, j \in DOMAIN sorted : i < j => sorted[i] < sorted[j]
  /\ \A v \in Values :
       /\ lower_bound(sorted, v).at = Cardinality({i \in DOMAIN sorted : sorted[i] < v})
       /\ lower_bound(sorted, v).found = (v \in ToSet(sorted))
=============================================================================
