------------------------------- MODULE Tuples -------------------------------
(***************************************************************************)
(* The tuples that carry a row through the operators and the expressions   *)
(* evaluated on them (src/observer/sql/expr).                              *)
(*                                                                         *)
(* A tuple is a tree [k, specs, cells, kids]: a row of a table, a list of  *)
(* values, the two sides of a join, the parts of a group, expressions over *)
(* a tuple below, or a projection of one.  A cell spec is [table, field,   *)
(* alias]; a value is [type, v].  An expression is what its class answers: *)
(* its value type, the cell it reads (or -1), else the code and the value  *)
(* get_value gives, and the code of try_get_value.                         *)
(***************************************************************************)
EXTENDS Integers, Sequences, SequencesExt

CONSTANT Tuples     \* the tuples looked at

VARIABLES tuple, at, got

tvars == <<tuple, at, got>>

Undefined == [type |-> "UNDEFINED", v |-> 0]
Cell(rc, v) == [rc |-> rc, v |-> v]

\* TupleCellSpec(table, field, alias): without an alias the qualified name is taken.
CellSpec(table, field, alias) ==
  [table |-> table, field |-> field,
   alias |-> IF alias # "" THEN <<alias>> ELSE IF table = "" THEN <<field>> ELSE <<table, field>>]
AliasSpec(name) == [table |-> "", field |-> "", alias |-> name]
SpecEquals(a, b) == a = b

-----------------------------------------------------------------------------
(* Expressions *)

\* Expression: what a class answers unless it says otherwise.
Expr(name, type, rc) ==
  [name |-> name, type |-> type, reads |-> -1, rc |-> rc, v |-> Undefined, try |-> "UNIMPLEMENTED"]

StarExpr(name) == Expr(name, "UNDEFINED", "UNIMPLEMENTED")
UnboundFieldExpr(name) == Expr(name, "UNDEFINED", "INTERNAL")
\* A field is read by its position, whatever its table.
FieldExpr(name, idx, type) == [Expr(name, type, "SUCCESS") EXCEPT !.reads = idx]
ValueExpr(name, v) == [Expr(name, v.type, "SUCCESS") EXCEPT !.v = v, !.try = "SUCCESS"]
\* The operations on values are not implemented and leave the result as it was.
CastExpr(name, child, type) == Expr(name, type, "SUCCESS")
ComparisonExpr(name, left, right) == Expr(name, "BOOLEANS", "SUCCESS")
ConjunctionExpr(name, children) == Expr(name, "BOOLEANS", "SUCCESS")
ArithmeticExpr(name, left, right) == Expr(name, "UNDEFINED", "SUCCESS")
UnboundAggregateExpr(name, child) == Expr(name, child.type, "INTERNAL")

-----------------------------------------------------------------------------
(* Number of cells; cells and specs by position, counted from 0 *)

RECURSIVE CellNum(_), CellAt(_, _), SpecAt(_, _), FindCell(_, _)

CellNum(t) ==
  CASE t.k \in {"ROW", "EXPRS", "PROJECT"} -> Len(t.specs)
    [] t.k = "VALUES" -> Len(t.cells)
    [] t.k \in {"JOINED", "COMPOSITE"} -> FoldLeft(LAMBDA n, u : n + CellNum(u), 0, t.kids)

Outside(t, i) == i < 0 \/ i >= CellNum(t)

\* Mutation: the right side comes first.
JoinedAt_Swapped(t, i) ==
  LET n == CellNum(t.kids[2])
  IN IF i >= 0 /\ i < n THEN <<2, i>>
     ELSE IF i >= n /\ i < n + CellNum(t.kids[1]) THEN <<1, i - n>> ELSE <<0, i>>

\* JoinedTuple: the side that holds position i, and the position in it.
JoinedAt(t, i) ==
  LET n == CellNum(t.kids[1])
  IN IF i >= 0 /\ i < n THEN <<1, i>>
     ELSE IF i >= n /\ i < n + CellNum(t.kids[2]) THEN <<2, i - n>> ELSE <<0, i>>

\* CompositeTuple: the part that holds position i; a negative position is not refused.
CompositeAt(t, i) ==
  LET RECURSIVE Go(_, _)
      Go(p, j) == IF p > Len(t.kids) THEN <<0, j>>
                  ELSE IF j < CellNum(t.kids[p]) THEN <<p, j>>
                  ELSE Go(p + 1, j - CellNum(t.kids[p]))
  IN Go(1, i)

PartAt(t, i) == IF t.k = "JOINED" THEN JoinedAt(t, i) ELSE CompositeAt(t, i)

GetValue(e, t) == IF e.reads >= 0 THEN CellAt(t, e.reads) ELSE Cell(e.rc, e.v)

\* ExpressionTuple::get_value: without a tuple below, only a constant has a value.
ExpressionValue(t, e) == IF t.kids = <<>> THEN Cell(e.try, e.v) ELSE GetValue(e, t.kids[1])

RowCellAt(t, i) ==
  IF i < 0 \/ i >= Len(t.cells) THEN Cell("INVALID_ARGUMENT", Undefined) ELSE Cell("SUCCESS", t.cells[i + 1])

ValueListCellAt(t, i) == IF Outside(t, i) THEN Cell("NOTFOUND", Undefined) ELSE Cell("SUCCESS", t.cells[i + 1])

ExpressionCellAt(t, i) ==
  IF Outside(t, i) THEN Cell("INVALID_ARGUMENT", Undefined) ELSE ExpressionValue(t, t.specs[i + 1])

ProjectCellAt(t, i) ==
  IF Outside(t, i) \/ t.kids = <<>> THEN Cell("INTERNAL", Undefined) ELSE GetValue(t.specs[i + 1], t.kids[1])

\* Tuple::cell_at.
CellAt(t, i) ==
  CASE t.k = "ROW" -> RowCellAt(t, i)
    [] t.k = "VALUES" -> ValueListCellAt(t, i)
    [] t.k = "EXPRS" -> ExpressionCellAt(t, i)
    [] t.k = "PROJECT" -> ProjectCellAt(t, i)
    [] OTHER -> LET In(p) == IF p[1] = 0 THEN Cell("NOTFOUND", Undefined) ELSE CellAt(t.kids[p[1]], p[2])
                IN In(PartAt(t, i))

\* Tuple::spec_at, for the positions a tuple has.
SpecAt(t, i) ==
  CASE t.k \in {"EXPRS", "PROJECT"} -> AliasSpec(t.specs[i + 1].name)
    [] t.k \in {"ROW", "VALUES"} -> t.specs[i + 1]
    [] OTHER -> LET In(p) == SpecAt(t.kids[p[1]], p[2]) IN In(PartAt(t, i))

-----------------------------------------------------------------------------
(* Cells by name *)

NotFound == Cell("NOTFOUND", Undefined)

\* A row compares the name of the field alone.
RowFind(t, spec) ==
  LET i == SelectInSeq(t.specs, LAMBDA s : s.field = spec.field)
  IN IF i = 0 THEN NotFound ELSE CellAt(t, i - 1)

ValueListFind(t, spec) ==
  LET i == SelectInSeq(t.specs, LAMBDA s : SpecEquals(s, spec))
  IN IF i = 0 THEN NotFound ELSE Cell("SUCCESS", t.cells[i])

ExpressionFind(t, spec) ==
  LET below == IF t.kids = <<>> THEN NotFound ELSE FindCell(t.kids[1], spec)
      i == SelectInSeq(t.specs, LAMBDA e : e.name = spec.alias)
  IN IF below.rc = "SUCCESS" THEN below
     ELSE IF i = 0 THEN NotFound ELSE ExpressionValue(t, t.specs[i])

\* A join looks at its right side when its left side does not know the name.
JoinedFind(t, spec) ==
  LET left == FindCell(t.kids[1], spec) IN IF left.rc # "NOTFOUND" THEN left ELSE FindCell(t.kids[2], spec)

\* The first part that succeeds, else what the last part said.
CompositeFind(t, spec) ==
  LET answers == [p \in DOMAIN t.kids |-> FindCell(t.kids[p], spec)]
      i == SelectInSeq(answers, LAMBDA a : a.rc = "SUCCESS")
  IN IF t.kids = <<>> THEN NotFound ELSE IF i = 0 THEN Last(answers) ELSE answers[i]

\* Tuple::find_cell; a projection asks the tuple below.
FindCell(t, spec) ==
  CASE t.k = "ROW" -> RowFind(t, spec)
    [] t.k = "VALUES" -> ValueListFind(t, spec)
    [] t.k = "EXPRS" -> ExpressionFind(t, spec)
    [] t.k = "PROJECT" -> FindCell(t.kids[1], spec)
    [] t.k = "JOINED" -> JoinedFind(t, spec)
    [] t.k = "COMPOSITE" -> CompositeFind(t, spec)

\* ValueListTuple::make: the cells and specs of a tuple, copied; the first error ends it.
Make(t) ==
  LET bad == {i \in 0 .. CellNum(t) - 1 : CellAt(t, i).rc # "SUCCESS"}
  IN [rc |-> IF bad = {} THEN "SUCCESS" ELSE CellAt(t, CHOOSE i \in bad : \A j \in bad : i <= j).rc,
      t |-> [k |-> "VALUES", kids |-> <<>>,
             specs |-> IF bad = {} THEN [i \in 1 .. CellNum(t) |-> SpecAt(t, i - 1)] ELSE <<>>,
             cells |-> IF bad = {} THEN [i \in 1 .. CellNum(t) |-> CellAt(t, i - 1).v] ELSE <<>>]]

\* compare of the data types: 2 stands for INT32_MAX, no comparison implemented.
Compare(a, b) ==
  IF {a.type, b.type} \subseteq {"INTS", "FLOATS"} \/ {a.type, b.type} = {"CHARS"}
  THEN IF a.v < b.v THEN -1 ELSE IF a.v > b.v THEN 1 ELSE 0
  ELSE 2

\* Tuple::compare: by number of cells, then cell by cell.
CompareTuples(t, u) ==
  LET n == CellNum(t)  m == CellNum(u)
      differ == {i \in 0 .. n - 1 : Compare(CellAt(t, i).v, CellAt(u, i).v) # 0}
      first == CHOOSE i \in differ : \A j \in differ : i <= j
  IN IF n < m THEN -1 ELSE IF n > m THEN 1
     ELSE IF differ = {} THEN 0 ELSE Compare(CellAt(t, first).v, CellAt(u, first).v)

-----------------------------------------------------------------------------
TInit == tuple \in Tuples /\ at = -1 /\ got = <<>>

\* A reader walks over the cells of a tuple, as the protocol's writer does.
ReadCell ==
  /\ at + 1 < CellNum(tuple)
  /\ at' = at + 1
  /\ got' = Append(got, CellAt(tuple, at + 1))
  /\ UNCHANGED tuple

\* The tuple is copied into a list of values (a group's first row), and read from the start.
Snapshot ==
  /\ at = -1 /\ tuple.k # "VALUES" /\ Make(tuple).rc = "SUCCESS"
  /\ tuple' = Make(tuple).t
  /\ UNCHANGED <<at, got>>

TNext == ReadCell \/ Snapshot

TSpec == TInit /\ [][TNext]_tvars

-----------------------------------------------------------------------------
\* The base rows of a tuple side by side.
RECURSIVE Flat(_)
Flat(t) ==
  CASE t.k \in {"ROW", "VALUES"} -> [i \in DOMAIN t.cells |-> Cell("SUCCESS", t.cells[i])]
    [] t.k = "EXPRS" -> [i \in DOMAIN t.specs |-> ExpressionValue(t, t.specs[i])]
    [] t.k = "PROJECT" -> [i \in DOMAIN t.specs |-> GetValue(t.specs[i], t.kids[1])]
    [] OTHER -> FoldLeft(LAMBDA s, u : s \o Flat(u), <<>>, t.kids)

\* Two cells whose fields, or whose aliases if they are not fields, have the same name.
Ambiguous(t) ==
  LET SameName(a, b) == a.field = b.field /\ (a.field # "" \/ a.alias = b.alias)
  IN \E i, j \in 0 .. CellNum(t) - 1 : i # j /\ SameName(SpecAt(t, i), SpecAt(t, j))

\* Reading a tuple by position gives the cells of its parts side by side, whatever way
\* joins, groups and projections are nested, and the position behind the last cell is
\* refused; a cell found by the name its own spec gives it is the cell at that position,
\* when no other cell has the name; a copy of the tuple compares equal to it when all its
\* types can be compared.
ReadsAgree ==
  /\ at = CellNum(tuple) - 1 => got = Flat(tuple)
  /\ CellAt(tuple, CellNum(tuple)).rc # "SUCCESS"
  /\ ~Ambiguous(tuple) /\ tuple.k \notin {"EXPRS", "PROJECT"} =>
       \A i \in 0 .. CellNum(tuple) - 1 : FindCell(tuple, SpecAt(tuple, i)) = CellAt(tuple, i)
  /\ LET Comparable(cells) == \A i \in DOMAIN cells : cells[i].v.type # "UNDEFINED"
         Same(copy) == copy.rc = "SUCCESS" /\ Comparable(Flat(tuple)) => CompareTuples(tuple, copy.t) = 0
     IN Same(Make(tuple))
=============================================================================
