------------------------------- MODULE Planner -------------------------------
(***************************************************************************)
(* OptimizeStage::handle_request (src/observer/sql/optimizer): a resolved  *)
(* statement becomes a logical plan, the plan is rewritten until nothing   *)
(* changes, and a physical plan is made from it.                           *)
(*                                                                         *)
(* An expression is [k, v, t, pos, kids]: its kind, the value, comparison  *)
(* or field index it holds, its table or conjunction type, its position in *)
(* the output of a group by (-1 for none), its subexpressions. A plan is   *)
(* [op, arg, exprs, kids]; arg holds the table of a scan or the group-by   *)
(* expressions of a group by.                                              *)
(***************************************************************************)
EXTENDS Integers, Sequences, SequencesExt

CONSTANT Stmts     \* the statements given to the optimize stage

VARIABLES
    stmt,          \* the resolved statement
    stage,         \* "stmt", "rewrite", "physical", "done", "failed", "crashed"
    plan,          \* the logical plan, at the end the physical plan
    rounds         \* history: turns of the rewriting loop

pvars == <<stmt, stage, plan, rounds>>

Expr(k, v, t, kids) == [k |-> k, v |-> v, t |-> t, pos |-> -1, kids |-> kids]
True == Expr("VALUE", "true", "BOOLEANS", <<>>)
Node(op, arg, exprs, kids) == [op |-> op, arg |-> arg, exprs |-> exprs, kids |-> kids]
NoOper == Node("null", <<>>, <<>>, <<>>)
Ok(p) == [rc |-> "SUCCESS", plan |-> p]
Fail(rc) == [rc |-> rc, plan |-> NoOper]

-----------------------------------------------------------------------------
(* cast_cost of the data types: only an integer converts, to a float.      *)
CastCost(from, to) ==
    IF from = to THEN 0
    ELSE IF from = "INTS" /\ to = "FLOATS" THEN 1 ELSE 100   \* 100: INT32_MAX

(* A filter object: a field has no type here, a value has its own.         *)
TypeOf(obj) == IF obj.attr THEN "UNDEFINED" ELSE obj.type

(* The comparison of one filter unit: sides of different types need a      *)
(* cast; a cast of a constant is folded, which CastExpr does not implement. *)
UnitRc(u) ==
    LET l2r == CastCost(TypeOf(u.left), TypeOf(u.right))
        r2l == CastCost(TypeOf(u.right), TypeOf(u.left))
    IN IF TypeOf(u.left) = TypeOf(u.right) THEN "SUCCESS"
       ELSE IF l2r = 100 /\ r2l = 100 THEN "UNSUPPORTED"
       ELSE IF (l2r <= r2l /\ ~u.left.attr) \/ (r2l < l2r /\ ~u.right.attr) THEN "UNIMPLEMENTED"
       ELSE "SUCCESS"

(* create_plan(FilterStmt): the comparisons under one AND, or no operator. *)
FilterPlan(units) ==
    LET bad == { i \in DOMAIN units : UnitRc(units[i]) # "SUCCESS" }
        first == CHOOSE i \in bad : \A j \in bad : i <= j
        cmps == [i \in DOMAIN units |-> Expr("COMPARISON", units[i].id, "", <<>>)]
    IN IF bad # {} THEN Fail(UnitRc(units[first]))
       ELSE IF units = <<>> THEN Ok(NoOper)
       ELSE Ok(Node("PREDICATE", <<>>, <<Expr("CONJUNCTION", "", "AND", cmps)>>, <<>>))

-----------------------------------------------------------------------------
(* FieldExpr::equal compares the index of the field only; the equal of an  *)
(* arithmetic expression or of an aggregate is always false.               *)
Equal(e, f) == e.k = f.k /\ e.k \in {"FIELD", "VALUE"} /\ e.v = f.v

(* bind_group_by_expr, for a sequence of expressions. *)
RECURSIVE Bind(_, _)
Bind(es, gb) ==
    IF es = <<>> \/ gb = <<>> THEN es
    ELSE LET e == Head(es)
             same == { i \in DOMAIN gb : Equal(e, gb[i]) }
             pos == IF same = {} THEN e.pos ELSE (CHOOSE i \in same : \A j \in same : i >= j) - 1
             one == IF e.k = "AGGREGATION" THEN e
                    ELSE [e EXCEPT !.pos = pos, !.kids = Bind(e.kids, gb)]
         IN <<one>> \o Bind(Tail(es), gb)

\* Mutation: only a column by itself is looked at, not those inside an expression.
Unbound_Shallow(e) == e.k = "FIELD" /\ e.pos = -1

(* find_unbound_column *)
RECURSIVE Unbound(_)
Unbound(e) == /\ e.k # "AGGREGATION" /\ e.pos = -1
              /\ e.k = "FIELD" \/ \E i \in DOMAIN e.kids : Unbound(e.kids[i])

(* collector: the aggregates of an expression, from left to right, given   *)
(* the positions after the group-by columns. The result is the expressions *)
(* with their positions, and the number of aggregates met.                 *)
RECURSIVE Collect(_, _)
Collect(es, n) ==
    IF es = <<>> THEN [es |-> <<>>, n |-> n]
    ELSE LET agg == Head(es).k = "AGGREGATION"
             e == IF agg THEN [Head(es) EXCEPT !.pos = n] ELSE Head(es)
             below == Collect(e.kids, IF agg THEN n + 1 ELSE n)
             rest == Collect(Tail(es), below.n)
         IN [es |-> <<[e EXCEPT !.kids = below.es]>> \o rest.es, n |-> rest.n]

(* create_group_by_plan *)
GroupByPlan(query, gb) ==
    LET bound == Bind(query, gb)
        all == Collect(bound, Len(gb))
    IN [rc |-> IF gb = <<>> /\ all.n = 0 THEN "SUCCESS"
               ELSE IF \E i \in DOMAIN bound : Unbound(bound[i]) THEN "INVALID_ARGUMENT"
               ELSE "SUCCESS",
        none |-> gb = <<>> /\ all.n = 0,
        query |-> all.es]

-----------------------------------------------------------------------------
Over(p, kid) == IF kid = NoOper THEN p ELSE [p EXCEPT !.kids = Append(@, kid)]

(* The scans of the tables under left-deep joins.                          *)
TablePlan(tables) ==
    FoldLeft(LAMBDA p, t : LET get == Node("TABLE_GET", <<t>>, <<>>, <<>>)
                           IN IF p = NoOper THEN get ELSE Node("JOIN", <<>>, <<>>, <<p, get>>),
             NoOper, tables)

(* create_plan(SelectStmt): project over group by over filter over joins.  *)
(* A statement without a filter object is read through a null pointer.     *)
SelectPlan(s) ==
    LET filter == FilterPlan(s.filter)
        groupBy == GroupByPlan(s.query, s.groupBy)
        tables == TablePlan(s.tables)
        filtered == IF filter.plan = NoOper THEN tables ELSE Over(filter.plan, tables)
        grouped == IF groupBy.none THEN filtered
                   ELSE Over(Node("GROUP_BY", s.groupBy, <<>>, <<>>), filtered)
    IN IF s.noFilter THEN Fail("crash")
       ELSE IF filter.rc # "SUCCESS" THEN filter
       ELSE IF groupBy.rc # "SUCCESS" THEN Fail(groupBy.rc)
       ELSE Ok(Over(Node("PROJECTION", <<>>, groupBy.query, <<>>), grouped))

(* create_plan(DeleteStmt) *)
DeletePlan(s) ==
    LET filter == FilterPlan(s.filter)
        get == TablePlan(s.tables)
    IN IF filter.rc # "SUCCESS" THEN filter
       ELSE Ok(Node("DELETE", s.tables, <<>>,
                    <<IF filter.plan = NoOper THEN get ELSE Over(filter.plan, get)>>))

(* LogicalPlanGenerator::create *)
RECURSIVE LogicalPlan(_)
LogicalPlan(s) ==
    CASE s.type = "CALC" -> Ok(Node("CALC", <<>>, s.query, <<>>))
      [] s.type = "SELECT" -> SelectPlan(s)
      [] s.type = "INSERT" -> Ok(Node("INSERT", s.tables, <<>>, <<>>))
      [] s.type = "DELETE" -> DeletePlan(s)
      [] s.type = "EXPLAIN" ->
            LET child == LogicalPlan(s.child)
            IN IF child.rc # "SUCCESS" THEN child
               ELSE Ok(Node("EXPLAIN", <<>>, <<>>, <<child.plan>>))
      [] OTHER -> Fail("UNIMPLEMENTED")

-----------------------------------------------------------------------------
(* ConjunctionSimplificationRule: neutral constants are dropped; at the    *)
(* first absorbing one the conjunction is replaced by its first remaining  *)
(* child and no change is reported; a single child replaces it.            *)
IsConst(e, v) == e.k = "VALUE" /\ e.t = "BOOLEANS" /\ e.v = v

SimplifyConjunction(e) ==
    LET neutral == IF e.t = "AND" THEN "true" ELSE "false"
        absorbing == IF e.t = "AND" THEN "false" ELSE "true"
        at == SelectInSeq(e.kids, LAMBDA k : IsConst(k, absorbing))
        keep(s) == SelectSeq(s, LAMBDA k : ~IsConst(k, neutral))
        rest == keep(e.kids)
    IN IF at # 0
       THEN [e |-> Head(keep(SubSeq(e.kids, 1, at - 1)) \o <<e.kids[at]>>), change |-> FALSE]
       ELSE IF Len(rest) = 1 THEN [e |-> rest[1], change |-> TRUE]
       ELSE [e |-> [e EXCEPT !.kids = rest], change |-> FALSE]

(* rewrite_expression, for a sequence of expressions: the rules on each,   *)
(* and its subexpressions if nothing changed. ComparisonSimplificationRule *)
(* never fires: ComparisonExpr does not implement try_get_value.           *)
RECURSIVE RewriteExprs(_)
RewriteExprs(es) ==
    IF es = <<>> THEN [es |-> <<>>, change |-> FALSE]
    ELSE LET e == Head(es)
             r == IF e.k = "CONJUNCTION" THEN SimplifyConjunction(e)
                  ELSE [e |-> e, change |-> FALSE]
             deep == ~r.change /\ r.e.k \in {"CAST", "COMPARISON", "CONJUNCTION"}
             below == RewriteExprs(IF deep THEN r.e.kids ELSE <<>>)
             one == IF deep THEN [r.e EXCEPT !.kids = below.es] ELSE r.e
             rest == RewriteExprs(Tail(es))
         IN [es |-> <<one>> \o rest.es, change |-> r.change \/ below.change \/ rest.change]

(* ExpressionRewriter::rewrite: the expressions of the whole subtree.      *)
RECURSIVE ExpressionRewrite(_)
ExpressionRewrite(ps) ==
    IF ps = <<>> THEN [plans |-> <<>>, change |-> FALSE]
    ELSE LET p == Head(ps)
             own == RewriteExprs(p.exprs)
             below == ExpressionRewrite(p.kids)
             rest == ExpressionRewrite(Tail(ps))
         IN [plans |-> <<[p EXCEPT !.exprs = own.es, !.kids = below.plans]>> \o rest.plans,
             change |-> own.change \/ below.change \/ rest.change]

(* PredicateRewriteRule: a filter on a constant goes, or its branch goes.  *)
PredicateRewrite(p) ==
    LET kid == p.kids[1]
        fires == /\ Len(p.kids) = 1 /\ kid.op = "PREDICATE"
                 /\ Len(kid.exprs) = 1 /\ kid.exprs[1].k = "VALUE"
    IN [rc |-> "SUCCESS", change |-> fires,
        plan |-> IF ~fires THEN p
                 ELSE [p EXCEPT !.kids = IF kid.exprs[1].v = "true" THEN kid.kids ELSE <<>>]]

(* get_exprs_can_pushdown, for a sequence of expressions: comparisons      *)
(* under ANDs are moved out, an OR is an error. es is what stays.          *)
RECURSIVE Pushdown(_)
Pushdown(es) ==
    IF es = <<>> THEN [rc |-> "SUCCESS", es |-> <<>>, pushed |-> FALSE]
    ELSE LET e == Head(es)
             and == e.k = "CONJUNCTION" /\ e.t = "AND"
             below == Pushdown(IF and THEN e.kids ELSE <<>>)
             stays == IF e.k = "COMPARISON" THEN <<>>
                      ELSE IF and THEN <<[e EXCEPT !.kids = below.es]>> ELSE <<e>>
             rest == Pushdown(Tail(es))
         IN [rc |-> IF (e.k = "CONJUNCTION" /\ ~and) \/ below.rc # "SUCCESS" \/ rest.rc # "SUCCESS"
                    THEN "UNIMPLEMENTED" ELSE "SUCCESS",
             es |-> stays \o rest.es,
             pushed |-> e.k = "COMPARISON" \/ below.pushed \/ rest.pushed]

\* Mutation: a predicate is pushed into whatever is below it.
Pushable_Any(p) == TRUE

(* The operators a predicate may be pushed into.                           *)
Pushable(p) == p.op = "TABLE_GET"

\* Mutation: a change is reported for every filter that is looked at.
PushdownRewrite_AlwaysChanges(p) ==
    [rc |-> "SUCCESS", plan |-> p, change |-> p.op = "PREDICATE" /\ Len(p.kids) = 1]

is_empty_predicate(es) == es = <<>> \/ (es[1].k = "CONJUNCTION" /\ es[1].kids = <<>>)

(* PredicatePushdownRewriter: what is moved out of the filter is to become *)
(* the predicates of the scan, but set_predicates is commented out.        *)
PushdownRewrite(p) ==
    LET fires == /\ p.op = "PREDICATE" /\ Len(p.kids) = 1
                 /\ Pushable(p.kids[1]) /\ Len(p.exprs) = 1
        r == Pushdown(p.exprs)
    IN IF ~fires THEN [rc |-> "SUCCESS", plan |-> p, change |-> FALSE]
       ELSE [rc |-> r.rc, change |-> r.pushed,
             plan |-> [p EXCEPT !.exprs = IF is_empty_predicate(r.es) THEN <<True>> ELSE r.es]]

(* Rewriter::rewrite, for a sequence of plans: the three rules on the      *)
(* root, then the children; the first error ends it.                       *)
RECURSIVE Rewrite(_)
Rewrite(ps) ==
    IF ps = <<>> THEN [rc |-> "SUCCESS", plans |-> <<>>, change |-> FALSE]
    ELSE LET All(changed, c, below, rest) ==
               [rc |-> IF c.rc # "SUCCESS" THEN c.rc
                       ELSE IF below.rc # "SUCCESS" THEN below.rc ELSE rest.rc,
                plans |-> <<[c.plan EXCEPT !.kids = below.plans]>> \o rest.plans,
                change |-> changed \/ below.change \/ rest.change]
             Children(changed, c) == All(changed \/ c.change, c, Rewrite(c.plan.kids), Rewrite(Tail(ps)))
             Pushed(a, b) == Children(a.change \/ b.change, PushdownRewrite(b.plan))
             Predicate(a) == Pushed(a, PredicateRewrite(a.plans[1]))
         IN Predicate(ExpressionRewrite(<<Head(ps)>>))

-----------------------------------------------------------------------------
(* The physical operator for a logical one: can_use_hash_join is false.    *)
JoinOp == "NESTED_LOOP_JOIN"
GroupByOp(p) == IF p.arg = <<>> THEN "SCALAR_GROUP_BY" ELSE "HASH_GROUP_BY"
PhysicalOp(p) ==
    CASE p.op = "TABLE_GET" -> "TABLE_SCAN"
      [] p.op = "JOIN" -> JoinOp
      [] p.op = "GROUP_BY" -> GroupByOp(p)
      [] OTHER -> p.op

(* Children an operator must have: an ASSERT for the filter and the group  *)
(* by, an error for the join.                                              *)
BadArity(p) ==
    CASE p.op \in {"PREDICATE", "GROUP_BY"} /\ Len(p.kids) # 1 -> "crash"
      [] p.op = "JOIN" /\ Len(p.kids) # 2 -> "INTERNAL"
      [] OTHER -> "SUCCESS"

(* PhysicalPlanGenerator::create, for a sequence of plans: the children    *)
(* before their parent; the first error ends it.                           *)
RECURSIVE PhysicalPlans(_)
PhysicalPlans(ps) ==
    IF ps = <<>> THEN [rc |-> "SUCCESS", plans |-> <<>>]
    ELSE LET p == Head(ps)
             below == PhysicalPlans(p.kids)
             one == Node(PhysicalOp(p), p.arg, p.exprs, below.plans)
             rest == PhysicalPlans(Tail(ps))
         IN [rc |-> IF BadArity(p) # "SUCCESS" THEN BadArity(p)
                    ELSE IF below.rc # "SUCCESS" THEN below.rc ELSE rest.rc,
             plans |-> <<one>> \o rest.plans]

-----------------------------------------------------------------------------
PInit == stmt \in Stmts /\ stage = "stmt" /\ plan = NoOper /\ rounds = 0

Outcome(rc, next) ==
    stage' = IF rc = "SUCCESS" THEN next ELSE IF rc = "crash" THEN "crashed" ELSE "failed"

(* create_logical_plan; without a statement there is nothing to plan.      *)
CreateLogicalPlan ==
    /\ stage = "stmt"
    /\ \E r \in {LogicalPlan(stmt)} :
          plan' = r.plan /\ Outcome(r.rc, "rewrite")
    /\ UNCHANGED <<stmt, rounds>>

(* One turn of the loop in OptimizeStage::rewrite.                         *)
RewriteRound ==
    /\ stage = "rewrite"
    /\ \E r \in {Rewrite(<<plan>>)} :
          plan' = r.plans[1] /\ Outcome(r.rc, IF r.change THEN "rewrite" ELSE "physical")
    /\ rounds' = rounds + 1
    /\ UNCHANGED stmt

GeneratePhysicalPlan ==
    /\ stage = "physical"
    /\ \E r \in {PhysicalPlans(<<plan>>)} :
          plan' = r.plans[1] /\ Outcome(r.rc, "done")
    /\ UNCHANGED <<stmt, rounds>>

PNext == CreateLogicalPlan \/ RewriteRound \/ GeneratePhysicalPlan

PSpec == PInit /\ [][PNext]_pvars

-----------------------------------------------------------------------------
(* What a plan lets through, when the comparisons in the set h hold.       *)
RECURSIVE Holds(_, _)
Holds(e, h) ==
    CASE e.k = "COMPARISON" -> e.v \in h
      [] e.k = "CONJUNCTION" /\ e.t = "AND" -> \A i \in DOMAIN e.kids : Holds(e.kids[i], h)
      [] e.k = "CONJUNCTION" /\ e.t = "OR" -> \E i \in DOMAIN e.kids : Holds(e.kids[i], h)
      [] OTHER -> e.v = "true"

RECURSIVE Passes(_, _)
Passes(p, h) ==
    /\ p.op = "PREDICATE" => \A i \in DOMAIN p.exprs : Holds(p.exprs[i], h)
    /\ \A i \in DOMAIN p.kids : Passes(p.kids[i], h)

RECURSIVE Leaves(_)
Leaves(p) == IF p.op \in {"TABLE_GET", "TABLE_SCAN"} THEN p.arg
             ELSE FoldLeft(LAMBDA s, k : s \o Leaves(k), <<>>, p.kids)

RECURSIVE Target(_)
Target(s) == IF s.type = "EXPLAIN" THEN Target(s.child) ELSE s

Ids(s) == { s.filter[i].id : i \in DOMAIN s.filter }
Planned == stage \in {"rewrite", "physical", "done"}

FilterKept(s) == \A h \in SUBSET Ids(s) : Passes(plan, h) <=> h = Ids(s)

(* At every stage of planning, the plan reads each table of the statement  *)
(* once, in the order of the FROM clause, and over several tables exactly  *)
(* the rows that meet every condition of the WHERE clause pass it: neither *)
(* the rewriting rules, whose pushdown stops at a join, nor the physical   *)
(* plan loses or adds a table or a condition.                              *)
PlanFaithful ==
    Planned /\ Target(stmt).type \in {"SELECT", "DELETE"} =>
        /\ Leaves(plan) = Target(stmt).tables
        /\ Len(Target(stmt).tables) > 1 => FilterKept(Target(stmt))

RECURSIVE Bare(_)
Bare(e) == IF e.k = "AGGREGATION" THEN {}
           ELSE (IF e.k = "FIELD" /\ e.pos = -1 THEN {e} ELSE {})
                \cup UNION { IF e.pos = -1 THEN Bare(e.kids[i]) ELSE {} : i \in DOMAIN e.kids }

(* In a plan with a GROUP BY, every column outside the aggregates is bound *)
(* to a group-by column, and the aggregates are numbered after them from   *)
(* left to right, so that the project operator finds every value it needs. *)
GroupsBound ==
    stage = "done" /\ Target(stmt).type = "SELECT" /\ Target(stmt).groupBy # <<>> =>
        LET project == IF plan.op = "EXPLAIN" THEN plan.kids[1] ELSE plan
            tops == SelectSeq(project.exprs, LAMBDA e : e.k = "AGGREGATION")
        IN /\ \A i \in DOMAIN project.exprs : Bare(project.exprs[i]) = {}
           /\ \A i, j \in DOMAIN tops : i < j =>
                 Len(Target(stmt).groupBy) <= tops[i].pos /\ tops[i].pos < tops[j].pos

RECURSIVE ExprWeight(_)
ExprWeight(es) ==
    IF es = <<>> THEN 0
    ELSE (IF Head(es).k = "VALUE" THEN 0 ELSE 1) + ExprWeight(Head(es).kids) + ExprWeight(Tail(es))

RECURSIVE Weight(_)
Weight(ps) ==
    IF ps = <<>> THEN 0
    ELSE 1 + ExprWeight(Head(ps).exprs) + Weight(Head(ps).kids) + Weight(Tail(ps))

(* Every turn of the loop in OptimizeStage::rewrite that asks for another  *)
(* one leaves a smaller plan, counted in operators and in expressions that *)
(* are not constants. So the loop ends, and the rules never undo each      *)
(* other's changes. (The comment there asks what measure guarantees it.)   *)
RewriteShrinks ==
    [][stage = "rewrite" /\ stage' = "rewrite" => Weight(<<plan'>>) < Weight(<<plan>>)]_pvars

(* The comment of the pushdown rule: "Comparison: pushed down to the       *)
(* TableGet directly". A condition that leaves the filter is checked by    *)
(* the scan: no statement's WHERE clause is lost.                          *)
WhereKept ==
    Planned /\ Target(stmt).type \in {"SELECT", "DELETE"} /\ Target(stmt).tables # <<>>
        => FilterKept(Target(stmt))
=============================================================================
