------------------------------- MODULE MCSql -------------------------------
(***************************************************************************)
(* The SQL layer for TLC.  Its parts are connected by values handed from   *)
(* one to the next (a text, a plan, a tree of operators, a tuple), so each *)
(* is explored on its own: "scene" says which one runs, and the variables  *)
(* of the others are 0.                                                    *)
(***************************************************************************)
EXTENDS Integers, Sequences, TLC

CONSTANTS
  Scenes,                          \* the parts to explore
  Clients, MaxStatements,          \* of SqlStages
  MaxTokens,                       \* length of the expressions parsed
  MaxRows, MaxCalls,               \* of Volcano
  Slots, Texts, MaxCells           \* of Values

VARIABLES
  scene,
  event, current, databases, tables, nextId, up, count,       \* SqlStages
  stmt, stage, plan, rounds,                                  \* Planner
  input, cphase, memo, stack, result,                         \* Cascade
  tree, sizes, cond, fault, ops, vphase, rows, misuse,        \* Volcano
  vals, heap, used, badFree,                                  \* Values
  tuple, at, got,                                             \* Tuples
  seen, sum, alive                                            \* DataTypes

stageVars == <<event, current, databases, tables, nextId, up, count>>
planVars == <<stmt, stage, plan, rounds>>
cascadeVars == <<input, cphase, memo, stack, result>>
operVars == <<tree, sizes, cond, fault, ops, vphase, rows, misuse>>
valueVars == <<vals, heap, used, badFree>>
tupleVars == <<tuple, at, got>>
typeVars == <<seen, sum, alive>>
vars == <<scene, stageVars, planVars, cascadeVars, operVars, valueVars, tupleVars, typeVars>>

-----------------------------------------------------------------------------
(* Statements: one or more for every command of the grammar, complete and incomplete. *)

Word(t) == [t |-> t, v |-> t]
Words(ts) == [i \in DOMAIN ts |-> Word(ts[i])]
Id(v) == [t |-> "ID", v |-> v]
Number(v) == [t |-> "NUMBER", v |-> v]
Quoted(v) == [t |-> "SSS", v |-> v]
WhereA == <<Word("WHERE"), Id("a"), Word("EQ"), Number("1")>>

CreateTable(more) ==
  Words(<<"CREATE", "TABLE">>) \o <<Id("t"), Word("LBRACE"), Id("a"), Word("INT_T"), Word("COMMA"), Id("b"),
    Word("STRING_T"), Word("LBRACE"), Number("9"), Word("RBRACE")>> \o more

Statements == {
  Words(<<"CREATE", "DATABASE">>) \o <<Id("d")>>,
  Words(<<"DROP", "DATABASE">>) \o <<Id("d")>>,
  Words(<<"DROP", "DATABASE">>) \o <<Id("sys"), Word("SEMICOLON")>>,
  <<Word("USE"), Id("d")>>,
  <<Word("USE"), Id("d"), Id("x")>>,
  CreateTable(<<Word("RBRACE")>>),
  CreateTable(Words(<<"COMMA", "PRIMARY", "KEY", "LBRACE">>) \o <<Id("a"), Word("COMMA"), Id("b")>>
    \o Words(<<"RBRACE", "RBRACE", "STORAGE", "FORMAT", "EQ">>) \o <<Id("PAX")>>),
  CreateTable(Words(<<"RBRACE", "STORAGE", "FORMAT", "EQ">>) \o <<Id("COL")>>),
  Words(<<"SHOW", "TABLES">>), Words(<<"SHOW", "DATABASES">>), Words(<<"HELP">>), Words(<<"EXIT">>),
  Words(<<"TRX_COMMIT">>), Words(<<"SYNC", "SEMICOLON", "HELP">>), <<>>,
  <<Word("DESC"), Id("t")>>, Words(<<"ANALYZE", "TABLE">>) \o <<Id("t")>>,
  Words(<<"INSERT", "INTO">>) \o <<Id("t"), Word("VALUES"), Word("LBRACE"), Number("1"), Word("COMMA"), Quoted("x"), Word("RBRACE")>>,
  Words(<<"DELETE", "FROM">>) \o <<Id("t")>> \o WhereA \o <<Word("AND")>>,
  Words(<<"DELETE", "FROM">>) \o <<Id("t")>> \o WhereA \o <<Word("AND"), Id("b"), Word("GE"), Number("2")>>,
  <<Word("UPDATE"), Id("t"), Word("SET"), Id("b"), Word("EQ"), Number("2")>> \o WhereA,
  <<Word("SET"), Id("sql_debug"), Word("EQ"), Quoted("on")>>,
  <<Word("SET"), Id("hash_join"), Word("EQ"), Quoted("maybe")>>,
  <<Word("SET"), Id("execution_mode"), Word("EQ"), Number("1")>>,
  <<Word("CALC"), Number("1"), Word("+"), Number("2"), Word("COMMA"), Number("3")>>,
  Words(<<"EXPLAIN", "CALC">>) \o <<Number("1")>>, Words(<<"EXPLAIN", "HELP">>), Words(<<"EXPLAIN", "EXPLAIN", "SYNC">>),
  Words(<<"SELECT", "*", "FROM">>),
  <<Word("SELECT"), Id("a"), Word("COMMA"), Id("t"), Word("DOT"), Id("b"), Word("COMMA"), Id("sum"), Word("LBRACE"), Id("a"), Word("RBRACE"),
    Word("FROM"), Id("t"), Word("COMMA"), Id("u")>> \o WhereA \o <<Word("AND"), Quoted("x"), Word("EQ"), Id("t"), Word("DOT"), Id("b"),
    Word("GROUP"), Word("BY"), Id("a")>>,
  Words(<<"LOAD", "DATA", "INFILE">>) \o <<Quoted("f"), Word("INTO"), Word("TABLE"), Id("t"), Word("FIELDS"), Word("TERMINATED"), Word("BY"), Quoted(","),
    Word("ENCLOSED"), Word("BY"), Quoted("|")>> }

\* Every text of a few tokens behind CALC.
ExpressionTexts ==
  {<<Word("CALC")>> \o s : s \in UNION {[1 .. n -> {Number("1")} \cup {Word(t) : t \in {"+", "*", "-", "LBRACE", "RBRACE"}}] : n \in 1 .. MaxTokens}}

First == CHOOSE c \in Clients : TRUE

Stages == INSTANCE SqlStages WITH Requests <- Statements

-----------------------------------------------------------------------------
(* Statements for the plan generator, resolved. *)

Expr(k, v, t, kids) == [k |-> k, v |-> v, t |-> t, pos |-> -1, kids |-> kids]
Field(t, i) == Expr("FIELD", i, t, <<>>)
Aggregate(e) == Expr("AGGREGATION", "", "", <<e>>)
Plus(a, b) == Expr("ARITHMETIC", "", "", <<a, b>>)
Literal == Expr("VALUE", "1", "INTS", <<>>)

Column == [attr |-> TRUE, type |-> "UNDEFINED"]
Constant(t) == [attr |-> FALSE, type |-> t]
Unit(i, l, r) == [id |-> i, left |-> l, right |-> r]
Units == {Unit("c1", Column, Column), Unit("c1", Constant("INTS"), Constant("INTS")),
          Unit("c1", Column, Constant("INTS")), Unit("c1", Constant("INTS"), Constant("FLOATS"))}
Filters == {<<>>} \cup {<<u>> : u \in Units}
             \cup {<<Unit("c1", Column, Column), [u EXCEPT !.id = "c2"]>> : u \in Units}
Queries == {<<Field("t1", "0")>>, <<Aggregate(Field("t1", "1"))>>,
            <<Field("t1", "0"), Aggregate(Field("t1", "1")), Aggregate(Literal)>>,
            <<Plus(Field("t1", "0"), Aggregate(Field("t1", "1")))>>,
            <<Plus(Field("t1", "0"), Field("t1", "1"))>>}
Select(t, f, q, g, n) == [type |-> "SELECT", tables |-> t, filter |-> f, query |-> q, groupBy |-> g, noFilter |-> n]
Resolved ==
  {Select(t, f, q, g, FALSE) :
     t \in {<<>>, <<"t1">>, <<"t1", "t2">>, <<"t1", "t2", "t3">>}, f \in Filters, q \in Queries,
     g \in {<<>>, <<Field("t1", "0")>>, <<Field("t1", "0"), Field("t1", "1")>>}}
    \cup {Select(<<>>, <<>>, <<>>, <<>>, TRUE)}
    \cup {[type |-> "DELETE", tables |-> <<"t1">>, filter |-> f] : f \in Filters}
    \cup {[type |-> "CALC", query |-> <<Literal>>], [type |-> "INSERT", tables |-> <<"t1">>], [type |-> "BEGIN"]}

Planning == INSTANCE Planner WITH Stmts <- Resolved \cup {[type |-> "EXPLAIN", child |-> s] : s \in Resolved}

-----------------------------------------------------------------------------
(* Logical plans for the cascade optimizer. *)

Logical(o, k) == [op |-> o, kids |-> k]
Get == Logical("TABLE_GET", <<>>)
Explain(p) == Logical("EXPLAIN", <<p>>)
LogicalPlans == {
  Logical("CALC", <<>>), Explain(Logical("CALC", <<>>)), Explain(Explain(Logical("CALC", <<>>))),
  Logical("INSERT", <<>>), Explain(Logical("INSERT", <<>>)), Logical("DELETE", <<Get>>),
  Logical("PROJECTION", <<>>), Explain(Logical("PROJECTION", <<Get>>)),
  Logical("PROJECTION", <<Logical("JOIN", <<Get, Get>>)>>)}

Cascades == INSTANCE Cascade WITH Plans <- LogicalPlans

-----------------------------------------------------------------------------
(* Trees of operators, as the physical plan generator and the executors build them: the
   operators numbered from the root, each with its children. *)

Operator(k, s) == [kind |-> k, kids |-> s, len |-> 0]
Scan == Operator("SCAN", <<>>)
OperatorTrees == {
  <<Operator("PROJECT", <<2>>), Operator("PREDICATE", <<3>>), Operator("NLJ", <<4, 5>>), Scan, Scan>>,
  <<Operator("PROJECT", <<2>>), Operator("NLJ", <<3, 6>>), Operator("NLJ", <<4, 5>>), Scan, Scan, Scan>>,
  <<Operator("PROJECT", <<2>>), Operator("HASH_GROUP_BY", <<3>>), Operator("PREDICATE", <<4>>), Scan>>,
  <<Operator("PROJECT", <<2>>), Operator("SCALAR_GROUP_BY", <<3>>), Operator("NLJ", <<4, 5>>), Operator("PREDICATE", <<6>>), Scan, Scan>>,
  <<Operator("PROJECT", <<>>)>>, <<Operator("CALC", <<>>)>>, <<[kind |-> "STRING_LIST", kids |-> <<>>, len |-> 2]>> }

Opers == INSTANCE Volcano WITH Trees <- OperatorTrees

Vals == INSTANCE Values

-----------------------------------------------------------------------------
(* Tuples: rows, joins of two and three of them, groups and projections over them. *)

Ints(n) == [type |-> "INTS", v |-> n]
Chars(n) == [type |-> "CHARS", v |-> n]
Shape == INSTANCE Tuples WITH Tuples <- {}

Made(k, specs, cells, kids) == [k |-> k, specs |-> specs, cells |-> cells, kids |-> kids]
Row(t, fs, vs) == Made("ROW", [i \in DOMAIN fs |-> Shape!CellSpec(t, fs[i], "")], vs, <<>>)
Rows == {Row("t1", <<"a", "b">>, <<Ints(1), Chars(2)>>), Row("t2", <<"c">>, <<Ints(3)>>),
         Row("t3", <<"a">>, <<Ints(4)>>), Row("t4", <<>>, <<>>)}
Joined(l, r) == Made("JOINED", <<>>, <<>>, <<l, r>>)
Pairs == {Joined(l, r) : l, r \in Rows}
Sums == Made("VALUES", <<Shape!AliasSpec(<<"sum">>)>>, <<Ints(7)>>, <<>>)
Groups == {Made("COMPOSITE", <<>>, <<>>, <<Shape!Make(t).t, Sums>>) : t \in Pairs \cup Rows}
            \cup {Made("COMPOSITE", <<>>, <<>>, <<t, u, Sums>>) : t, u \in Rows}
Field0 == Shape!FieldExpr(<<"f0">>, 0, "INTS")
Field1 == Shape!FieldExpr(<<"f1">>, 1, "CHARS")
Const1 == Shape!ValueExpr(<<"one">>, Ints(1))
Projected ==
  {<<Field0, Const1>>, <<Field1>>,
   <<Shape!StarExpr(<<"*">>), Shape!ArithmeticExpr(<<"f0+1">>, Field0, Const1)>>,
   <<Shape!CastExpr(<<"cast">>, Field0, "CHARS"), Shape!UnboundAggregateExpr(<<"sum">>, Field0)>>,
   <<Shape!ConjunctionExpr(<<"and">>, <<Shape!ComparisonExpr(<<"=">>, Field0, Const1)>>), Shape!UnboundFieldExpr(<<"x">>)>>}
Projections ==
  {Made("EXPRS", es, <<>>, s) : es \in Projected, s \in {<<t>> : t \in Pairs \cup Groups} \cup {<<>>}}
    \cup {Made("PROJECT", es, <<>>, <<t>>) : es \in Projected, t \in Pairs \cup Groups}

Tups == INSTANCE Tuples WITH
  Tuples <- Rows \cup Pairs \cup {Joined(l, r) : l \in Pairs, r \in Rows} \cup Groups \cup Projections

-----------------------------------------------------------------------------
(* Values of every type.  A float is 4 bits of quarters, an int 6 bits: 31 meets its
   rounding and its overflow. *)

Typed(t, n, s) == [type |-> t, v |-> n, s |-> s]
TypedValues ==
  {Typed("INTS", n, <<>>) : n \in {-32, -1, 0, 1, 30, 31}}
    \cup {Typed("FLOATS", n, <<>>) : n \in {-1, 0, 1, 2, 3, 4, 6, 120}}
    \cup {Typed("CHARS", 0, s) : s \in {<<>>, <<1>>, <<1, 2>>, <<10>>}} \cup {Typed("BOOLEANS", 1, <<>>)}

Types == INSTANCE DataTypes WITH
  One <- 4, Epsilon <- 1, Mantissa <- 4, Width <- 6, MaxOperands <- 3, Operands <- TypedValues

-----------------------------------------------------------------------------
NoStages == event = 0 /\ current = 0 /\ databases = 0 /\ tables = 0 /\ nextId = 0 /\ up = 0 /\ count = 0
NoPlan == stmt = 0 /\ stage = 0 /\ plan = 0 /\ rounds = 0
NoCascade == input = 0 /\ cphase = 0 /\ memo = 0 /\ stack = 0 /\ result = 0
NoOpers == tree = 0 /\ sizes = 0 /\ cond = 0 /\ fault = 0 /\ ops = 0 /\ vphase = 0 /\ rows = 0 /\ misuse = 0
NoVals == vals = 0 /\ heap = 0 /\ used = 0 /\ badFree = 0
NoTuples == tuple = 0 /\ at = 0 /\ got = 0
NoTypes == seen = 0 /\ sum = 0 /\ alive = 0

Init ==
  /\ scene \in Scenes
  /\ CASE scene = "stages" -> Stages!QInit
       [] scene = "texts" -> Stages!Starts({[c \in Clients |-> IF c = First THEN Stages!Fresh(t) ELSE Stages!Idle] : t \in ExpressionTexts})
       [] OTHER -> NoStages
  /\ IF scene = "plan" THEN Planning!PInit ELSE NoPlan
  /\ IF scene = "cascade" THEN Cascades!CInit ELSE NoCascade
  /\ IF scene = "oper" THEN Opers!VInit ELSE NoOpers
  /\ IF scene = "value" THEN Vals!MInit ELSE NoVals
  /\ IF scene = "tuple" THEN Tups!TInit ELSE NoTuples
  /\ IF scene = "type" THEN Types!YInit ELSE NoTypes

\* The one statement of "texts" is all there is.
StageNext == scene \in {"stages", "texts"} /\ Stages!QNext /\ (scene = "texts" => count' = 0) /\ UNCHANGED <<scene, planVars, cascadeVars, operVars, valueVars, tupleVars, typeVars>>
PlanNext == scene = "plan" /\ Planning!PNext /\ UNCHANGED <<scene, stageVars, cascadeVars, operVars, valueVars, tupleVars, typeVars>>
CascadeNext == scene = "cascade" /\ Cascades!CNext /\ UNCHANGED <<scene, stageVars, planVars, operVars, valueVars, tupleVars, typeVars>>
OperNext == scene = "oper" /\ Opers!VNext /\ UNCHANGED <<scene, stageVars, planVars, cascadeVars, valueVars, tupleVars, typeVars>>
ValueNext == scene = "value" /\ Vals!MNext /\ UNCHANGED <<scene, stageVars, planVars, cascadeVars, operVars, tupleVars, typeVars>>
TupleNext == scene = "tuple" /\ Tups!TNext /\ UNCHANGED <<scene, stageVars, planVars, cascadeVars, operVars, valueVars, typeVars>>
TypeNext == scene = "type" /\ Types!YNext /\ UNCHANGED <<scene, stageVars, planVars, cascadeVars, operVars, valueVars, tupleVars>>

Next == StageNext \/ PlanNext \/ CascadeNext \/ OperNext \/ ValueNext \/ TupleNext \/ TypeNext

\* execute_task_stack is a loop: the optimizer goes on as long as it has a task.
Spec == Init /\ [][Next]_vars /\ WF_vars(CascadeNext)

-----------------------------------------------------------------------------
\* What is answered is what happened, whatever stage ended the statement: a statement that
\* is told SUCCESS was executed once, and one that is told an error changed nothing
\* (SqlTaskHandler::handle_sql, ExecuteStage).
HonestAnswers == scene \in {"stages", "texts"} => Stages!HonestAnswers

\* Every text is parsed to what it says: the command with its parts, and every expression
\* to the only tree that precedence, associativity and brackets leave it (yacc_sql.y).
TextsMeant == scene \in {"stages", "texts"} => Stages!TextsMeant

\* Neither rewriting nor the physical plan loses a table or, over a join, a condition
\* (LogicalPlanGenerator, the rewriters, PhysicalPlanGenerator), and every column outside
\* the aggregates is bound to a group-by column (create_group_by_plan).
PlanFaithful == scene = "plan" => Planning!PlanFaithful /\ Planning!GroupsBound

\* choose_best_plan returns plans without holes only: every operator of the logical plan
\* has its physical one, with the inputs the optimizer chose for it (Optimizer).
CompletePlan == scene = "cascade" => Cascades!CompletePlan

\* Planning ends: every turn of the rewriting loop that asks for another one leaves a
\* smaller plan (OptimizeStage::rewrite), and the tasks of the cascade optimizer come to an
\* end with a plan whenever there are rules for all operators (execute_task_stack).
PlanFound ==
  /\ [][scene = "plan" /\ stage = "rewrite" /\ stage' = "rewrite"
          => Planning!Weight(<<plan'>>) < Planning!Weight(<<plan>>)]_vars
  /\ scene = "cascade" /\ Cascades!Implementable(input)
       => <>(scene = "cascade" /\ cphase = "done" /\ result # Cascades!NoPlan)

\* Through open, next and close the tree of operators returns exactly the rows of the
\* relation it stands for, or an error, and no scan is left open when the result is closed;
\* the tuples it returns read the same by position, by name and from a copy.
RowsExact ==
  /\ scene = "oper" => Opers!RowsExact /\ Opers!LeavesClosed
  /\ scene = "tuple" => Tups!ReadsAgree

\* Values neither free what they do not own nor lose what they allocated, through any
\* sequence of constructions, copies, moves, sets and resets (Value).
HeapSound == scene = "value" => Vals!HeapSound

\* Comparisons order ints, floats and strings, also mixed and cast; sums of ints and floats
\* are exact until they overflow or are rounded (the DataType classes, SumAggregator).
OrderSound == scene = "type" => Types!OrderSound /\ Types!SumExact

\* The comment on own_data_ (value.h:135): it says whether the Value allocated its memory.
OwnsAllocated == scene = "value" => Vals!OwnsAllocated

\* The comment of the pushdown rule (predicate_pushdown_rewriter.cpp:38): a comparison that
\* leaves the filter is checked by the scan.
WhereKept == scene = "plan" => Planning!WhereKept

\* DESC of a table that was created shows it: see SqlStages.
DescShows == scene = "stages" => Stages!DescShows
=============================================================================
