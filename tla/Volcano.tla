------------------------------ MODULE Volcano ------------------------------
(***************************************************************************)
(* Pulling a result out of a tree of physical operators: SqlResult calls   *)
(* open, next and close of the root and each operator calls its children.  *)
(*                                                                         *)
(* A tree is a function from node numbers to [kind, kids].  The leaves     *)
(* (kind "SCAN") are the storage's side of the interface: a leaf yields    *)
(* its rows once per open and one of its calls may fail.  A row is a       *)
(* sequence of base rows <<leaf, i>>; expressions are seen through what    *)
(* they make of a row (Holds, Key); an Aggregator is the sequence of rows  *)
(* it accumulated.                                                         *)
(***************************************************************************)
EXTENDS Naturals, Sequences, SequencesExt, FiniteSetsExt

CONSTANTS
  Trees,     \* operator trees, root 1
  MaxRows,   \* rows of a leaf at most
  MaxCalls   \* the call of a leaf that fails is among the first MaxCalls

VARIABLES
  tree,      \* the operator tree
  sizes,     \* rows of every leaf
  cond,      \* the condition of the predicates
  fault,     \* the call that fails: [leaf, op, nth]
  ops,       \* state of every operator
  vphase,    \* init, open, eof, failed, closed
  rows,      \* history: the rows SqlResult handed out
  misuse     \* history: a leaf was advanced while it was not open

vvars == <<tree, sizes, cond, fault, ops, vphase, rows, misuse>>

Kids(n) == tree[n].kids
Leaves == {n \in DOMAIN tree : tree[n].kind = "SCAN"}

\* State of one operator; each kind uses its own fields.
FreshOp ==
  [isOpen |-> FALSE, pos |-> 0, calls |-> [open |-> 0, next |-> 0, close |-> 0],
   cur |-> <<>>, left |-> <<>>, right |-> <<>>, leftSet |-> FALSE,
   roundDone |-> TRUE, rightClosed |-> TRUE,
   groups |-> <<>>, emitted |-> FALSE]

Ret(rc, s) == [rc |-> rc, s |-> s]
Set(s, n, r) == [s EXCEPT ![n] = r]

\* What a caller does with the result of a call.
With(r, Use(_)) == Use(r)

Weight(row) == FoldFunction(LAMBDA p, acc : p[2] + acc, 0, row)

\* Expression::get_value of a WHERE condition on a row.
Holds(row) ==
  CASE cond = "all"   -> "true"
    [] cond = "even"  -> IF Weight(row) % 2 = 0 THEN "true" ELSE "false"
    [] cond = "none"  -> "false"
    [] cond = "error" -> "error"

\* The values of the GROUP BY expressions on a row.
Key(row) == Weight(row) % 2

\* current_tuple: a filter and a projection show the row of their child, a join the rows of
\* its two children side by side.
RECURSIVE CurrentTuple(_, _)
PredicateTuple(s, n) == CurrentTuple(s, Kids(n)[1])
ProjectTuple(s, n) == CurrentTuple(s, Kids(n)[1])
JoinTuple(s, n) == s[n].left \o s[n].right
CurrentTuple(s, n) ==
  CASE tree[n].kind = "PREDICATE" -> PredicateTuple(s, n)
    [] tree[n].kind = "PROJECT" -> ProjectTuple(s, n)
    [] tree[n].kind = "NLJ" -> JoinTuple(s, n)
    [] OTHER -> s[n].cur

-----------------------------------------------------------------------------
(* The storage's side *)

Faulty(s, n, op) == fault.leaf = n /\ fault.op = op /\ s[n].calls[op] + 1 = fault.nth
Called(s, n, op) == [s[n] EXCEPT !.calls[op] = @ + 1]

LeafOpen(s, n) ==
  IF Faulty(s, n, "open") THEN Ret("IOERR", Set(s, n, Called(s, n, "open")))
  ELSE Ret("SUCCESS", Set(s, n, [Called(s, n, "open") EXCEPT !.isOpen = TRUE, !.pos = 0]))

LeafNext(s, n) ==
  LET c == Called(s, n, "next") IN
  IF Faulty(s, n, "next") THEN Ret("IOERR", Set(s, n, c))
  ELSE IF c.pos = sizes[n] THEN Ret("RECORD_EOF", Set(s, n, c))
  ELSE Ret("SUCCESS", Set(s, n, [c EXCEPT !.pos = @ + 1, !.cur = << <<n, c.pos + 1>> >>]))

LeafClose(s, n) ==
  Ret(IF Faulty(s, n, "close") THEN "IOERR" ELSE "SUCCESS",
      Set(s, n, [Called(s, n, "close") EXCEPT !.isOpen = FALSE]))

-----------------------------------------------------------------------------
(* The operators *)

RECURSIVE Open(_, _), NextRow(_, _), Close(_, _)

\* PredicatePhysicalOperator::next: rows of the child are skipped until one satisfies
\* the condition.
PredicateNext(s, n) ==
  LET RECURSIVE Loop(_)
      Loop(t) == With(NextRow(t, Kids(n)[1]), LAMBDA r :
                   LET h == Holds(CurrentTuple(r.s, n))
                   IN CASE r.rc # "SUCCESS" -> r
                        [] r.rc = "SUCCESS" /\ h = "true" -> r
                        [] r.rc = "SUCCESS" /\ h = "false" -> Loop(r.s)
                        [] r.rc = "SUCCESS" /\ h = "error" -> Ret("INVALID_ARGUMENT", r.s))
  IN Loop(s)

\* NestedLoopJoinPhysicalOperator::left_next.
LeftNext(s, n) ==
  With(NextRow(s, Kids(n)[1]), LAMBDA r :
    IF r.rc # "SUCCESS" THEN r
    ELSE Ret("SUCCESS", [r.s EXCEPT ![n].left = CurrentTuple(r.s, Kids(n)[1]), ![n].leftSet = TRUE]))

\* Mutation: the right child is not opened again for the next row of the left one.
RightNext_NoReopen(s, n) ==
  LET right == Kids(n)[2]
      o == IF s[n].roundDone /\ s[n].rightClosed THEN Open(s, right) ELSE Ret("SUCCESS", s)
      r == NextRow([o.s EXCEPT ![n].roundDone = FALSE, ![n].rightClosed = FALSE], right)
  IN CASE o.rc # "SUCCESS" -> o
       [] o.rc = "SUCCESS" /\ r.rc = "SUCCESS" ->
            Ret("SUCCESS", [r.s EXCEPT ![n].right = CurrentTuple(r.s, right)])
       [] o.rc = "SUCCESS" /\ r.rc # "SUCCESS" ->
            Ret(r.rc, [r.s EXCEPT ![n].roundDone = @ \/ r.rc = "RECORD_EOF"])

\* NestedLoopJoinPhysicalOperator::right_next: at the start of a round the right child
\* is closed, if it is not, and opened again.
RightNext(s, n) ==
  LET right == Kids(n)[2]
      Closed == IF s[n].roundDone /\ ~s[n].rightClosed
                THEN With(Close(s, right), LAMBDA k : Ret(k.rc, [k.s EXCEPT ![n].rightClosed = TRUE]))
                ELSE Ret("SUCCESS", s)
      Opened(c) == IF c.rc = "SUCCESS" /\ s[n].roundDone
                   THEN With(Open(c.s, right), LAMBDA k :
                          IF k.rc = "SUCCESS"
                          THEN Ret("SUCCESS", [k.s EXCEPT ![n].rightClosed = FALSE, ![n].roundDone = FALSE])
                          ELSE k)
                   ELSE c
      Advanced(o) == IF o.rc # "SUCCESS" THEN o
                     ELSE With(NextRow(o.s, right), LAMBDA r :
                            IF r.rc = "SUCCESS"
                            THEN Ret("SUCCESS", [r.s EXCEPT ![n].right = CurrentTuple(r.s, right)])
                            ELSE Ret(r.rc, [r.s EXCEPT ![n].roundDone = @ \/ r.rc = "RECORD_EOF"]))
  IN Advanced(Opened(Closed))

\* NestedLoopJoinPhysicalOperator::next: rounds over the right child until a pair is found
\* or the left child ends.
JoinNext(s, n) ==
  LET RECURSIVE Loop(_), Round(_)
      Loop(t) == With(IF t[n].roundDone \/ ~t[n].leftSet THEN LeftNext(t, n) ELSE Ret("SUCCESS", t),
                   LAMBDA l : IF l.rc # "SUCCESS" THEN l ELSE Round(l.s))
      Round(t) == With(RightNext(t, n), LAMBDA r :
                    IF r.rc = "RECORD_EOF" THEN Loop([r.s EXCEPT ![n].roundDone = TRUE]) ELSE r)
  IN Loop(s)

\* NestedLoopJoinPhysicalOperator::close.
JoinClose(s, n) ==
  With(Close(s, Kids(n)[1]), LAMBDA l :
    IF s[n].rightClosed THEN l
    ELSE With(Close(l.s, Kids(n)[2]), LAMBDA r :
           Ret(r.rc, [r.s EXCEPT ![n].rightClosed = (r.rc = "SUCCESS")])))

\* Mutation: the group found is the last one, whatever its key.
FindGroup_Last(groups, row) == IF groups = <<>> THEN 0 ELSE Len(groups)

\* HashGroupByPhysicalOperator::find_group: a linear search by key, 0 when there is none.
FindGroup(groups, row) == SelectInSeq(groups, LAMBDA g : g.key = Key(row))

\* GroupByPhysicalOperator::aggregate on the group of the row, made first if need be.
Accumulate(groups, row, scalar) ==
  LET i == IF scalar THEN Len(groups) ELSE FindGroup(groups, row)
  IN IF i = 0 THEN Append(groups, [key |-> Key(row), acc |-> <<row>>])
     ELSE [groups EXCEPT ![i].acc = Append(@, row)]

\* open of the group-by operators: the child is read to its end.
GroupOpen(s, n, scalar) ==
  LET RECURSIVE Loop(_)
      Loop(t) == With(NextRow(t, Kids(n)[1]), LAMBDA r :
                   LET row == CurrentTuple(r.s, Kids(n)[1])
                   IN CASE r.rc = "SUCCESS" -> Loop([r.s EXCEPT ![n].groups = Accumulate(@, row, scalar)])
                        [] r.rc = "RECORD_EOF" ->
                             Ret("SUCCESS", [r.s EXCEPT ![n].pos = 1, ![n].emitted = FALSE])
                        [] OTHER -> r)
  IN With(Open(s, Kids(n)[1]), LAMBDA c : IF c.rc # "SUCCESS" THEN c ELSE Loop(c.s))

\* groups_ of the hash variant is not emptied first.
HashGroupOpen(s, n) == GroupOpen(s, n, FALSE)
ScalarGroupOpen(s, n) == GroupOpen(s, n, TRUE)

\* What the row of group i shows: the values its aggregators evaluate to.
GroupRow(groups, i) == IF i \in DOMAIN groups THEN FlattenSeq(groups[i].acc) ELSE <<>>

\* HashGroupByPhysicalOperator::next.
HashGroupNext(s, n) ==
  LET end == Len(s[n].groups) + 1
      p == IF s[n].emitted THEN s[n].pos + 1 ELSE s[n].pos
  IN IF s[n].pos = end THEN Ret("RECORD_EOF", s)
     ELSE Ret(IF p = end THEN "RECORD_EOF" ELSE "SUCCESS",
              [s EXCEPT ![n].pos = p, ![n].emitted = TRUE, ![n].cur = GroupRow(s[n].groups, p)])

\* ScalarGroupByPhysicalOperator::next.
ScalarGroupNext(s, n) ==
  IF s[n].groups = <<>> \/ s[n].emitted THEN Ret("RECORD_EOF", s)
  ELSE Ret("SUCCESS", [s EXCEPT ![n].emitted = TRUE, ![n].cur = GroupRow(s[n].groups, 1)])

\* StringListPhysicalOperator::next; emitted stands for started_.
StringListNext(s, n) ==
  LET end == tree[n].len + 1
      p == IF ~s[n].emitted THEN 1 ELSE IF s[n].pos # end THEN s[n].pos + 1 ELSE s[n].pos
  IN Ret(IF p = end THEN "RECORD_EOF" ELSE "SUCCESS",
         [s EXCEPT ![n].emitted = TRUE, ![n].pos = p, ![n].cur = << <<n, p>> >>])

\* CalcPhysicalOperator::next: one row, once.
CalcNext(s, n) ==
  IF s[n].emitted THEN Ret("RECORD_EOF", s)
  ELSE Ret("SUCCESS", [s EXCEPT ![n].emitted = TRUE, ![n].cur = << <<n, 1>> >>])

PredicateOpen(s, n) == Open(s, Kids(n)[1])
ProjectOpen(s, n) == IF Kids(n) = <<>> THEN Ret("SUCCESS", s) ELSE Open(s, Kids(n)[1])
JoinOpen(s, n) == Open([s EXCEPT ![n].rightClosed = TRUE, ![n].roundDone = TRUE], Kids(n)[1])

\* PhysicalOperator::open.
Open(s, n) ==
  CASE tree[n].kind = "SCAN" -> LeafOpen(s, n)
    [] tree[n].kind = "PREDICATE" -> PredicateOpen(s, n)
    [] tree[n].kind = "PROJECT" -> ProjectOpen(s, n)
    [] tree[n].kind = "NLJ" -> JoinOpen(s, n)
    [] tree[n].kind = "HASH_GROUP_BY" -> HashGroupOpen(s, n)
    [] tree[n].kind = "SCALAR_GROUP_BY" -> ScalarGroupOpen(s, n)
    [] OTHER -> Ret("SUCCESS", s)

ProjectNext(s, n) == IF Kids(n) = <<>> THEN Ret("RECORD_EOF", s) ELSE NextRow(s, Kids(n)[1])

\* PhysicalOperator::next.
NextRow(s, n) ==
  CASE tree[n].kind = "SCAN" -> LeafNext(s, n)
    [] tree[n].kind = "PREDICATE" -> PredicateNext(s, n)
    [] tree[n].kind = "PROJECT" -> ProjectNext(s, n)
    [] tree[n].kind = "NLJ" -> JoinNext(s, n)
    [] tree[n].kind = "HASH_GROUP_BY" -> HashGroupNext(s, n)
    [] tree[n].kind = "SCALAR_GROUP_BY" -> ScalarGroupNext(s, n)
    [] tree[n].kind = "STRING_LIST" -> StringListNext(s, n)
    [] tree[n].kind = "CALC" -> CalcNext(s, n)

\* The unary operators ignore what close of their child returns.
PredicateClose(s, n) == Ret("SUCCESS", Close(s, Kids(n)[1]).s)
ProjectClose(s, n) == IF Kids(n) = <<>> THEN Ret("SUCCESS", s) ELSE Ret("SUCCESS", Close(s, Kids(n)[1]).s)
HashGroupClose(s, n) == Ret("SUCCESS", Close(s, Kids(n)[1]).s)
StringListClose(s, n) == Ret("SUCCESS", [s EXCEPT ![n].pos = tree[n].len + 1])

\* Mutation: a scalar aggregate is not reset and does not close its child.
ScalarGroupClose_Keeps(s, n) == Ret("SUCCESS", s)

ScalarGroupClose(s, n) ==
  Ret("SUCCESS", Close([s EXCEPT ![n].groups = <<>>, ![n].emitted = FALSE], Kids(n)[1]).s)

\* PhysicalOperator::close.
Close(s, n) ==
  CASE tree[n].kind = "SCAN" -> LeafClose(s, n)
    [] tree[n].kind = "NLJ" -> JoinClose(s, n)
    [] tree[n].kind = "PREDICATE" -> PredicateClose(s, n)
    [] tree[n].kind = "PROJECT" -> ProjectClose(s, n)
    [] tree[n].kind = "HASH_GROUP_BY" -> HashGroupClose(s, n)
    [] tree[n].kind = "SCALAR_GROUP_BY" -> ScalarGroupClose(s, n)
    [] tree[n].kind = "STRING_LIST" -> StringListClose(s, n)
    [] OTHER -> Ret("SUCCESS", s)

-----------------------------------------------------------------------------
(* SqlResult *)

NoFault == [leaf |-> 0, op |-> "next", nth |-> 0]
Faults == {NoFault} \cup [leaf : Leaves, op : {"open", "next", "close"}, nth : 1 .. MaxCalls]

VInit ==
  /\ tree \in Trees
  /\ sizes \in [Leaves -> 0 .. MaxRows]
  /\ cond \in {"all", "even", "none", "error"}
  /\ fault \in Faults
  /\ ops = [n \in DOMAIN tree |-> FreshOp]
  /\ vphase = "init" /\ rows = <<>> /\ misuse = FALSE

\* A leaf was advanced in this call although it was closed before and after it, or a
\* call of next came before the first open.
Misused(s, t) ==
  \E l \in Leaves : /\ t[l].calls.next > s[l].calls.next
                    /\ ~s[l].isOpen /\ t[l].calls.open = s[l].calls.open

\* SqlResult::open.
SqlOpen ==
  /\ vphase = "init"
  /\ \E r \in {Open(ops, 1)} :
       /\ ops' = r.s
       /\ vphase' = IF r.rc = "SUCCESS" THEN "open" ELSE "failed"
       /\ misuse' = (misuse \/ Misused(ops, r.s))
  /\ UNCHANGED <<tree, sizes, cond, fault, rows>>

\* SqlResult::next_tuple.
NextTuple ==
  /\ vphase = "open"
  /\ \E r \in {NextRow(ops, 1)} :
       /\ ops' = r.s
       /\ vphase' = CASE r.rc = "SUCCESS" -> "open"
                      [] r.rc = "RECORD_EOF" -> "eof"
                      [] OTHER -> "failed"
       /\ rows' = IF r.rc = "SUCCESS" THEN Append(rows, CurrentTuple(r.s, 1)) ELSE rows
       /\ misuse' = (misuse \/ Misused(ops, r.s))
  /\ UNCHANGED <<tree, sizes, cond, fault>>

\* SqlResult::close, at the end, after a failure or when the client is gone.
SqlClose ==
  /\ vphase \in {"open", "eof", "failed"}
  /\ ops' = Close(ops, 1).s
  /\ vphase' = "closed"
  /\ UNCHANGED <<tree, sizes, cond, fault, rows, misuse>>

VNext == SqlOpen \/ NextTuple \/ SqlClose

VSpec == VInit /\ [][VNext]_vvars

-----------------------------------------------------------------------------
(* What a tree means *)

\* Reference: the rows of the subtree, computed set at a time.
Meaning(root) ==
  LET RECURSIVE Rows(_)
      Rows(n) ==
        CASE tree[n].kind = "SCAN" -> [i \in 1 .. sizes[n] |-> << <<n, i>> >>]
          [] tree[n].kind = "PREDICATE" -> SelectSeq(Rows(Kids(n)[1]), LAMBDA r : Holds(r) = "true")
          [] tree[n].kind = "PROJECT" -> IF Kids(n) = <<>> THEN <<>> ELSE Rows(Kids(n)[1])
          [] tree[n].kind = "NLJ" ->
               LET Pairs(a, b) == [k \in 1 .. Len(a) * Len(b) |->
                                     a[((k - 1) \div Len(b)) + 1] \o b[((k - 1) % Len(b)) + 1]]
               IN Pairs(Rows(Kids(n)[1]), Rows(Kids(n)[2]))
          [] tree[n].kind = "HASH_GROUP_BY" ->
               LET Of(a, k) == FlattenSeq(SelectSeq(a, LAMBDA r : Key(r) = k))
                   Groups(a, k) == <<Of(a, k)>> \o IF \A i \in DOMAIN a : Key(a[i]) = k THEN <<>> ELSE <<Of(a, 1 - k)>>
               IN With(Rows(Kids(n)[1]), LAMBDA a : IF a = <<>> THEN <<>> ELSE Groups(a, Key(a[1])))
          [] tree[n].kind = "SCALAR_GROUP_BY" ->
               With(Rows(Kids(n)[1]), LAMBDA a : IF a = <<>> THEN <<>> ELSE <<FlattenSeq(a)>>)
          [] tree[n].kind = "STRING_LIST" -> [i \in 1 .. tree[n].len |-> << <<n, i>> >>]
          [] tree[n].kind = "CALC" -> << << <<n, 1>> >> >>
  IN Rows(root)

\* Whatever call of a leaf fails, the rows handed out are the first rows of what the tree
\* means, in order, and all of them once the root reports its end: no pair of a join is
\* lost or repeated when the right side is read again, no group is split.
RowsExact ==
  /\ IsPrefix(rows, Meaning(1))
  /\ vphase = "eof" => rows = Meaning(1)

\* After SqlResult::close every leaf that any operator opened is closed again, whether the
\* run ended, failed half-way or was given up, and no leaf is advanced while it is closed.
LeavesClosed ==
  /\ ~misuse
  /\ vphase = "closed" => \A l \in Leaves : ~ops[l].isOpen
=============================================================================
