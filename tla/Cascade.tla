------------------------------- MODULE Cascade -------------------------------
(***************************************************************************)
(* The Cascade optimizer (src/observer/sql/optimizer/cascade): a logical   *)
(* plan is copied into a memo of groups, a stack of tasks applies the      *)
(* implementation rules and prices the physical expressions, and the       *)
(* winners of the groups are assembled into a physical plan.               *)
(*                                                                         *)
(* A plan is a record [op, kids]; op is the class of the logical operator. *)
(* Two expressions are the same to the memo when they have the same type   *)
(* and the same child groups, whatever table or expression they hold.      *)
(* Every cost that can be computed is 0.0, so costs are left out: the      *)
(* first physical expression priced in a group wins and is never replaced. *)
(* ExploreGroup is left out: no rule has a pattern two levels deep.        *)
(***************************************************************************)
EXTENDS Naturals, Sequences, SequencesExt

CONSTANT Plans     \* the logical plans given to Optimizer::optimize

VARIABLES
    input,         \* the logical plan
    cphase,        \* "start", "loop", "done", or "crashed"
    memo,          \* [exprs, groups]: the expressions and the groups
    stack,         \* PendingTasks::task_stack_, the top at the end
    result         \* what choose_best_plan returned

cvars == <<input, cphase, memo, stack, result>>

None == 0
NoPlan == [op |-> "null", kids |-> <<>>]

-----------------------------------------------------------------------------
(* OperatorNode::get_op_type. The scan, insert and delete operators do not *)
(* override it.                                                            *)
OpType(op) ==
    IF op \in {"TABLE_GET", "INSERT", "DELETE"} THEN "UNDEFINED" ELSE op

(* RuleSet: for each rule the operator type of its pattern, the number of  *)
(* child patterns, and the type of the physical operator it makes.         *)
Rules == { [match |-> "PROJECTION", arity |-> 1, makes |-> "PHYS_PROJECTION"],
           [match |-> "TABLE_GET", arity |-> 0, makes |-> "PHYS_SCAN"],
           [match |-> "INSERT", arity |-> 0, makes |-> "PHYS_INSERT"],
           [match |-> "EXPLAIN", arity |-> 1, makes |-> "PHYS_EXPLAIN"],
           [match |-> "CALC", arity |-> 0, makes |-> "PHYS_CALC"],
           [match |-> "DELETE", arity |-> 1, makes |-> "PHYS_DELETE"],
           [match |-> "PREDICATE", arity |-> 1, makes |-> "PHYS_FILTER"] }

PhysicalTypes == { r.makes : r \in Rules }

(* find_log_prop: no operator has a logical property of its own, and a     *)
(* join reads the properties of both children through a null pointer.      *)
FindLogProp(type) == IF type = "JOIN" THEN "crash" ELSE "null"

(* CostModel::calculate_cost: the projection reads the cardinality of its  *)
(* group's logical property, which is null.                                *)
CalculateCost(type) == IF type = "PHYS_PROJECTION" THEN "crash" ELSE "zero"

-----------------------------------------------------------------------------
NewGroup == [log |-> <<>>, phys |-> <<>>, winner |-> None, explored |-> FALSE]

AddExpr(m, type, kids, g) ==
    LET id == Len(m.exprs) + 1
        field == IF type \in PhysicalTypes THEN "phys" ELSE "log"
    IN [exprs |-> Append(m.exprs, [type |-> type, kids |-> kids, group |-> g, mask |-> {}]),
        groups |-> [m.groups EXCEPT ![g][field] = Append(@, id)]]

Find(m, type, kids) ==
    { i \in DOMAIN m.exprs : m.exprs[i].type = type /\ m.exprs[i].kids = kids }

(* Memo::insert_expression: an equal expression is reused wherever it is;  *)
(* a new one goes to the target group, or to a new group.                  *)
InsertExpression(m, type, kids, target) ==
    LET same == Find(m, type, kids)
        g == IF target = None THEN Len(m.groups) + 1 ELSE target
        opened == IF target = None
                  THEN [m EXCEPT !.groups = Append(@, NewGroup)] ELSE m
    IN IF same # {}
       THEN [memo |-> m, id |-> CHOOSE i \in same : TRUE, new |-> FALSE]
       ELSE [memo |-> AddExpr(opened, type, kids, g), id |-> Len(m.exprs) + 1, new |-> TRUE]

(* make_group_expression: the children first, left to right.               *)
RECURSIVE MakeKids(_, _)
MakeKids(m, kids) ==
    IF kids = <<>> THEN [memo |-> m, groups |-> <<>>]
    ELSE LET below == MakeKids(m, Head(kids).kids)
             one == InsertExpression(below.memo, OpType(Head(kids).op), below.groups, None)
             rest == MakeKids(one.memo, Tail(kids))
         IN [memo |-> rest.memo,
             groups |-> <<one.memo.exprs[one.id].group>> \o rest.groups]

RecordNode(m, plan) ==
    LET kids == MakeKids(m, plan.kids)
    IN InsertExpression(kids.memo, OpType(plan.op), kids.groups, None)

-----------------------------------------------------------------------------
EmptyMemo == [exprs |-> <<>>, groups |-> <<>>]

CInit == /\ input \in Plans
         /\ cphase = "start"
         /\ memo = EmptyMemo
         /\ stack = <<>>
         /\ result = NoPlan

Task(kind, on) == [kind |-> kind, on |-> on, rule |-> None, cur |-> 0, prev |-> 0]

(* Optimizer::optimize and optimize_loop: the plan is recorded, and the    *)
(* group of its root is the first task. A group whose property cannot be   *)
(* computed ends the process.                                              *)
Start ==
    LET root == RecordNode(memo, input)
    IN /\ cphase = "start"
       /\ IF \E e \in Range(root.memo.exprs) : FindLogProp(e.type) = "crash"
          THEN cphase' = "crashed" /\ UNCHANGED <<memo, stack>>
          ELSE /\ cphase' = "loop"
               /\ memo' = root.memo
               /\ stack' = <<Task("group", root.memo.exprs[root.id].group)>>
       /\ UNCHANGED <<input, result>>

Root == RecordNode(EmptyMemo, input).memo.exprs[RecordNode(EmptyMemo, input).id].group

Top(kind) == cphase = "loop" /\ stack # <<>> /\ Last(stack).kind = kind

(* OptimizeGroup::perform *)
OptimizeGroup ==
    /\ Top("group")
    /\ LET g == Last(stack).on
           grp == memo.groups[g]
           exprs == IF grp.explored THEN <<>> ELSE [i \in DOMAIN grp.log |-> Task("expr", grp.log[i])]
           inputs == [i \in DOMAIN grp.phys |-> Task("inputs", grp.phys[i])]
       IN IF grp.winner # None
          THEN stack' = Front(stack) /\ UNCHANGED memo
          ELSE /\ stack' = Front(stack) \o exprs \o inputs
               /\ memo' = [memo EXCEPT !.groups[g].explored = TRUE]
    /\ UNCHANGED <<input, cphase, result>>

(* OptimizeExpression::perform: the rules that match and were not applied. *)
OptimizeExpression ==
    /\ Top("expr")
    /\ LET e == memo.exprs[Last(stack).on]
           valid == { r \in Rules : r.match = e.type /\ r.arity = Len(e.kids)
                                    /\ r.makes \notin e.mask }
       IN stack' = Front(stack) \o
                   SetToSeq({ [Task("apply", Last(stack).on) EXCEPT !.rule = r.makes] : r \in valid })
    /\ UNCHANGED <<input, cphase, memo, result>>

\* Mutation: the physical expression is recorded and never priced.
ApplyRule_NoInputs ==
    /\ Top("apply")
    /\ LET t == Last(stack)
           e == memo.exprs[t.on]
           made == InsertExpression(memo, t.rule, e.kids, e.group)
       IN /\ stack' = Front(stack)
          /\ memo' = IF t.rule \in e.mask THEN memo
                     ELSE [made.memo EXCEPT !.exprs[t.on].mask = @ \cup {t.rule}]
    /\ UNCHANGED <<input, cphase, result>>

(* ApplyRule::perform: the physical expression joins the group of the      *)
(* logical one, with the same child groups.                                *)
ApplyRule ==
    /\ Top("apply")
    /\ LET t == Last(stack)
           e == memo.exprs[t.on]
           made == InsertExpression(memo, t.rule, e.kids, e.group)
       IN IF t.rule \in e.mask
          THEN stack' = Front(stack) /\ UNCHANGED memo
          ELSE /\ stack' = Front(stack) \o
                           (IF made.new THEN <<Task("inputs", made.id)>> ELSE <<>>)
               /\ memo' = [made.memo EXCEPT !.exprs[t.on].mask = @ \cup {t.rule}]
    /\ UNCHANGED <<input, cphase, result>>

\* Mutation: the copy takes the child for done.
CopyOf_KeepsPrev(t, cur) == [t EXCEPT !.cur = cur, !.prev = cur]

(* The copy constructor of OptimizeInputs: the copy continues the work     *)
(* after a child group has been optimized, without prev_child_idx_.        *)
CopyOf(t, cur) == [t EXCEPT !.cur = cur, !.prev = 0]

(* OptimizeInputs::perform: the children that have a winner are passed     *)
(* over; at the first other one the task copies itself below a task for    *)
(* that group, unless it was optimized just before; past the last child    *)
(* the expression is the winner of its group if there is none.             *)
OptimizeInputs ==
    /\ Top("inputs")
    /\ LET t == Last(stack)
           e == memo.exprs[t.on]
           from == IF t.cur = 0 THEN 1 ELSE t.cur
           waits == { i \in from..Len(e.kids) :
                        memo.groups[e.kids[i]].winner = None /\ t.prev # i }
           i == CHOOSE j \in waits : \A k \in waits : j <= k
       IN \/ /\ t.cur = 0 /\ CalculateCost(e.type) = "crash"
             /\ cphase' = "crashed"
             /\ UNCHANGED <<memo, stack>>
          \/ /\ ~(t.cur = 0 /\ CalculateCost(e.type) = "crash")
             /\ waits # {}
             /\ stack' = Front(stack) \o <<CopyOf(t, i), Task("group", e.kids[i])>>
             /\ UNCHANGED <<cphase, memo>>
          \/ /\ ~(t.cur = 0 /\ CalculateCost(e.type) = "crash")
             /\ waits = {}
             /\ stack' = Front(stack)
             /\ memo' = [memo EXCEPT !.groups[e.group].winner = IF @ = None THEN t.on ELSE @]
             /\ UNCHANGED cphase
    /\ UNCHANGED <<input, result>>

(* Optimizer::choose_best_plan *)
RECURSIVE BestPlan(_, _)
BestPlan(m, g) ==
    LET w == m.groups[g].winner
    IN IF w = None THEN NoPlan
       ELSE [op |-> m.exprs[w].type,
             kids |-> [i \in DOMAIN m.exprs[w].kids |-> BestPlan(m, m.exprs[w].kids[i])]]

ChooseBestPlan ==
    /\ cphase = "loop" /\ stack = <<>>
    /\ cphase' = "done"
    /\ result' = BestPlan(memo, Root)
    /\ UNCHANGED <<input, memo, stack>>

CNext == Start \/ OptimizeGroup \/ OptimizeExpression \/ ApplyRule \/ OptimizeInputs
         \/ ChooseBestPlan

CSpec == CInit /\ [][CNext]_cvars /\ WF_cvars(CNext)

-----------------------------------------------------------------------------
RECURSIVE Size(_)
Size(p) == 1 + FoldSeq(LAMBDA k, n : n + Size(k), 0, p.kids)

RECURSIVE Complete(_)
Complete(p) == p # NoPlan /\ \A i \in DOMAIN p.kids : Complete(p.kids[i])

(* A plan that choose_best_plan returns has the shape of the logical plan  *)
(* and no null child: OptimizeInputs makes an expression the winner only   *)
(* when every child group has one.                                         *)
CompletePlan == result # NoPlan => Complete(result) /\ Size(result) = Size(input)

(* Every operator of the plan has an implementation rule that matches it,  *)
(* and a cost.                                                             *)
RECURSIVE Implementable(_)
Implementable(p) ==
    /\ \E r \in Rules : r.match = OpType(p.op) /\ r.arity = Len(p.kids)
                        /\ CalculateCost(r.makes) = "zero"
    /\ \A i \in DOMAIN p.kids : Implementable(p.kids[i])

(* execute_task_stack empties the stack and a plan is found whenever rules *)
(* exist for all operators.                                                *)
PlanFound == Implementable(input) => <>(cphase = "done" /\ result # NoPlan)

(* The comment on prev_child_idx_: "keep track of the previous optimized   *)
(* input idx", so that a child without a plan is tried once and the task   *)
(* stack runs empty whatever the plan.                                     *)
OptimizeEnds == <>(cphase \in {"done", "crashed"})
=============================================================================
