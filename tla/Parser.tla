------------------------------- MODULE Parser -------------------------------
(***************************************************************************)
(* The SQL grammar of yacc_sql.y: from the tokens of one request to the    *)
(* ParsedSqlNodes sql_parse adds to its result.  A token is its class and  *)
(* its text; lex_sql.l, which makes the tokens, and the LALR(1) automaton  *)
(* bison makes of the grammar are external: a rule is a recursive operator *)
(* that looks one token ahead, which reads the same sentences, and %left   *)
(* and %right are precedence climbing.  As bison's automaton reduces by    *)
(* default, a complete command is added to the result before the token     *)
(* behind it is found wrong.                                               *)
(*                                                                         *)
(* A rule returns the index of the next token and its value, or why there  *)
(* is none: "syntax", or "null" where an action uses a null $n.            *)
(***************************************************************************)
EXTENDS Integers, Sequences, SequencesExt, FiniteSets

Cls(s, i) == IF i \in DOMAIN s THEN s[i].t ELSE "END"

Yes(i, v) == [st |-> "ok", i |-> i, v |-> v]
No(why) == [st |-> why, i |-> 0, v |-> <<>>]
Then(r, F(_)) == IF r.st = "ok" THEN F(r) ELSE r

\* The tokens from i on have these classes.
Match(s, i, shape) == \A k \in DOMAIN shape : Cls(s, i + k - 1) = shape[k]

-----------------------------------------------------------------------------
(* Expressions.  A name is the tokens it spans; StarExpr is given none. *)

Ast(k, v, kids, name) == [k |-> k, v |-> v, kids |-> kids, name |-> name]
NoName == <<0, 0>>
ValueTokens == {"NUMBER", "FLOAT", "SSS"}

\* value: SSS loses its quotes.
ValueOf(token) == [type |-> token.t, v |-> token.v]

RelAttrSqlNode(rel, attr) == [rel |-> rel, attr |-> attr]

\* rel_attr: ID or ID DOT ID
RelAttr(s, i) ==
  IF Cls(s, i + 1) # "DOT" THEN Yes(i + 1, RelAttrSqlNode("", s[i].v))
  ELSE IF Cls(s, i + 2) = "ID" THEN Yes(i + 3, RelAttrSqlNode(s[i].v, s[i + 2].v))
  ELSE No("syntax")

\* %left '+' '-'  and  %left '*' '/'
Precedence_Flat(t) == IF t \in {"+", "-", "*", "/"} THEN 1 ELSE 0

Precedence(t) == CASE t \in {"+", "-"} -> 1 [] t \in {"*", "/"} -> 2 [] OTHER -> 0

RECURSIVE Expression(_, _, _), Climb(_, _, _, _)

\* '-' expression %prec UMINUS binds closest: its operand is a primary again.
Primary(s, i) ==
  LET t == Cls(s, i)
  IN CASE t = "LBRACE" ->
            Then(Expression(s, i + 1, 1), LAMBDA e :
              IF Cls(s, e.i) = "RBRACE" THEN Yes(e.i + 1, [e.v EXCEPT !.name = <<i, e.i>>])
              ELSE No("syntax"))
       [] t = "-" ->
            Then(Expression(s, i + 1, 3), LAMBDA e :
              Yes(e.i, Ast("NEGATIVE", "", <<e.v>>, <<i, e.i - 1>>)))
       [] t = "*" -> Yes(i + 1, Ast("STAR", "", <<>>, NoName))
       [] t \in ValueTokens -> Yes(i + 1, Ast("VALUE", ValueOf(s[i]), <<>>, <<i, i>>))
       [] t = "ID" /\ Cls(s, i + 1) = "LBRACE" ->
            Then(Expression(s, i + 2, 1), LAMBDA e :
              IF Cls(s, e.i) = "RBRACE"
              THEN Yes(e.i + 1, Ast("AGGREGATE", s[i].v, <<e.v>>, <<i, e.i>>))
              ELSE No("syntax"))
       [] t = "ID" ->
            Then(RelAttr(s, i), LAMBDA a : Yes(a.i, Ast("FIELD", a.v, <<>>, <<i, a.i - 1>>)))
       [] OTHER -> No("syntax")

\* The operators behind "left", which began at i, that bind at least as close as "min".
Climb(s, i, left, min) ==
  LET op == Cls(s, left.i)
  IN IF Precedence(op) = 0 \/ Precedence(op) < min THEN left
     ELSE Then(Expression(s, left.i + 1, Precedence(op) + 1), LAMBDA right :
            Climb(s, i, Yes(right.i, Ast(op, "", <<left.v, right.v>>, <<i, right.i - 1>>)), min))

Expression(s, i, min) == Then(Primary(s, i), LAMBDA e : Climb(s, i, e, min))

-----------------------------------------------------------------------------
(* Lists and conditions *)

AttrInfoSqlNode(name, type, length) == [name |-> name, type |-> type, length |-> length]

\* attr_def: a column without a length has length 4.
AttrDef(s, i) ==
  IF ~(Cls(s, i) = "ID" /\ Cls(s, i + 1) \in {"INT_T", "STRING_T", "FLOAT_T", "VECTOR_T"}) THEN No("syntax")
  ELSE IF Cls(s, i + 2) # "LBRACE" THEN Yes(i + 2, AttrInfoSqlNode(s[i].v, s[i + 1].t, "4"))
  ELSE IF Match(s, i + 3, <<"NUMBER", "RBRACE">>)
       THEN Yes(i + 5, AttrInfoSqlNode(s[i].v, s[i + 1].t, s[i + 3].v))
  ELSE No("syntax")

Item(kind, s, i) ==
  CASE kind = "expression" -> Expression(s, i, 1)
    [] kind = "id" -> IF Cls(s, i) = "ID" THEN Yes(i + 1, s[i].v) ELSE No("syntax")
    [] kind = "value" -> IF Cls(s, i) \in ValueTokens THEN Yes(i + 1, ValueOf(s[i])) ELSE No("syntax")
    [] kind = "attr_def" -> AttrDef(s, i)

\* expression_list, rel_list, attr_list, value_list, attr_def_list: the order of the text.
RECURSIVE ListOf(_, _, _)
ListOf(kind, s, i) ==
  Then(Item(kind, s, i), LAMBDA e :
    IF Cls(s, e.i) # "COMMA" \/ (kind = "attr_def" /\ Cls(s, e.i + 1) = "PRIMARY") THEN Yes(e.i, <<e.v>>)
    ELSE Then(ListOf(kind, s, e.i + 1), LAMBDA rest : Yes(rest.i, <<e.v>> \o rest.v)))

ExpressionList(s, i) == ListOf("expression", s, i)
RelList(s, i) == ListOf("id", s, i)
AttrList(s, i) == ListOf("id", s, i)
ValueList(s, i) == ListOf("value", s, i)
AttrDefList(s, i) == ListOf("attr_def", s, i)

\* One side of a condition: a column or a value.
Side(s, i) ==
  IF Cls(s, i) = "ID" THEN Then(RelAttr(s, i), LAMBDA a : Yes(a.i, [attr |-> TRUE, v |-> a.v]))
  ELSE IF Cls(s, i) \in ValueTokens THEN Yes(i + 1, [attr |-> FALSE, v |-> ValueOf(s[i])])
  ELSE No("syntax")

ConditionSqlNode(l, op, r) == [left |-> l, comp |-> op, right |-> r]

CompOps == {"EQ", "LT", "GT", "LE", "GE", "NE"}

Condition(s, i) ==
  Then(Side(s, i), LAMBDA l :
    IF Cls(s, l.i) \notin CompOps THEN No("syntax")
    ELSE Then(Side(s, l.i + 1), LAMBDA r :
           Yes(r.i, ConditionSqlNode(l.v, Cls(s, l.i), r.v))))

\* condition_list may be empty and is then null, also behind AND, where its action
\* appends to it; the conditions come out last first.
RECURSIVE ConditionList(_, _)
ConditionList(s, i) ==
  IF Cls(s, i) \notin ValueTokens \cup {"ID"} THEN Yes(i, <<>>)
  ELSE Then(Condition(s, i), LAMBDA c :
         IF Cls(s, c.i) # "AND" THEN Yes(c.i, <<c.v>>)
         ELSE Then(ConditionList(s, c.i + 1), LAMBDA rest :
                IF rest.v = <<>> THEN No("null") ELSE Yes(rest.i, Append(rest.v, c.v))))

Where(s, i) == IF Cls(s, i) = "WHERE" THEN ConditionList(s, i + 1) ELSE Yes(i, <<>>)

GroupBy(s, i) ==
  IF Cls(s, i) # "GROUP" THEN Yes(i, <<>>)
  ELSE IF Cls(s, i + 1) = "BY" THEN ExpressionList(s, i + 2) ELSE No("syntax")

-----------------------------------------------------------------------------
(* Commands *)

\* ParsedSqlNode: the flag and what the commands store, each in its own member.
Blank(flag) ==
  [flag |-> flag, ids |-> <<>>, attrs |-> <<>>, keys |-> <<>>, format |-> "", exprs |-> <<>>,
   rels |-> <<>>, values |-> <<>>, conds |-> <<>>, group |-> <<>>, options |-> <<>>, child |-> <<>>]
ErrorNode == Blank("SCF_ERROR")

SelectSqlNode(exprs, rels, conds, group) ==
  [Blank("SCF_SELECT") EXCEPT !.exprs = exprs, !.rels = rels, !.conds = conds, !.group = group]
CalcSqlNode(exprs) == [Blank("SCF_CALC") EXCEPT !.exprs = exprs]
InsertSqlNode(rel, values) == [Blank("SCF_INSERT") EXCEPT !.ids = <<rel>>, !.values = values]
DeleteSqlNode(rel, conds) == [Blank("SCF_DELETE") EXCEPT !.ids = <<rel>>, !.conds = conds]
UpdateSqlNode(rel, attr, value, conds) ==
  [Blank("SCF_UPDATE") EXCEPT !.ids = <<rel, attr>>, !.values = <<value>>, !.conds = conds]
CreateTableSqlNode(rel, attrs, keys, format) ==
  [Blank("SCF_CREATE_TABLE") EXCEPT !.ids = <<rel>>, !.attrs = attrs, !.keys = keys, !.format = format]
LoadDataSqlNode(file, rel, options) ==
  [Blank("SCF_LOAD_DATA") EXCEPT !.ids = <<file, rel>>, !.options = options]
SetVariableSqlNode(name, value) == [Blank("SCF_SET_VARIABLE") EXCEPT !.ids = <<name>>, !.values = <<value>>]
ExplainSqlNode(node) == [Blank("SCF_EXPLAIN") EXCEPT !.child = <<node>>]

\* The commands of one form: classes of their tokens, and which of them are kept.
Fixed ==
  LET F(flag, shape) == [flag |-> flag, shape |-> shape]
  IN {F("SCF_EXIT", <<"EXIT">>), F("SCF_HELP", <<"HELP">>), F("SCF_SYNC", <<"SYNC">>),
      F("SCF_BEGIN", <<"TRX_BEGIN">>), F("SCF_COMMIT", <<"TRX_COMMIT">>), F("SCF_ROLLBACK", <<"TRX_ROLLBACK">>),
      F("SCF_DROP_TABLE", <<"DROP", "TABLE", "ID">>), F("SCF_ANALYZE_TABLE", <<"ANALYZE", "TABLE", "ID">>),
      F("SCF_SHOW_TABLES", <<"SHOW", "TABLES">>), F("SCF_SHOW_DATABASES", <<"SHOW", "DATABASES">>),
      F("SCF_CREATE_DATABASE", <<"CREATE", "DATABASE", "ID">>),
      F("SCF_DROP_DATABASE", <<"DROP", "DATABASE", "ID">>),
      F("SCF_USE_DATABASE", <<"USE", "ID">>), F("SCF_DESC_TABLE", <<"DESC", "ID">>),
      F("SCF_CREATE_INDEX", <<"CREATE", "INDEX", "ID", "ON", "ID", "LBRACE", "ID", "RBRACE">>),
      F("SCF_DROP_INDEX", <<"DROP", "INDEX", "ID", "ON", "ID">>)}

Spelled(s) == [k \in DOMAIN s |-> s[k].v]
IdsOf(s, i, n) == Spelled(SelectSeq(SubSeq(s, i, i + n - 1), LAMBDA x : x.t = "ID"))

StorageFormat(s, i) ==
  IF Cls(s, i) # "STORAGE" THEN Yes(i, "")
  ELSE IF Match(s, i, <<"STORAGE", "FORMAT", "EQ", "ID">>) THEN Yes(i + 4, s[i + 3].v) ELSE No("syntax")

PrimaryKey(s, i) ==
  IF Cls(s, i) # "COMMA" THEN Yes(i, <<>>)
  ELSE IF ~Match(s, i, <<"COMMA", "PRIMARY", "KEY", "LBRACE">>) THEN No("syntax")
  ELSE Then(AttrList(s, i + 4), LAMBDA k :
         IF Cls(s, k.i) = "RBRACE" THEN Yes(k.i + 1, k.v) ELSE No("syntax"))

CreateTable(s, i) ==
  Then(AttrDefList(s, i + 4), LAMBDA a : Then(PrimaryKey(s, a.i), LAMBDA k :
    IF Cls(s, k.i) # "RBRACE" THEN No("syntax")
    ELSE Then(StorageFormat(s, k.i + 1), LAMBDA f :
           Yes(f.i, CreateTableSqlNode(s[i + 2].v, a.v, k.v, f.v)))))

Insert(s, i) ==
  Then(ValueList(s, i + 5), LAMBDA v :
    IF Cls(s, v.i) # "RBRACE" THEN No("syntax")
    ELSE Yes(v.i + 1, InsertSqlNode(s[i + 2].v, v.v)))

Delete(s, i) ==
  Then(Where(s, i + 3), LAMBDA w : Yes(w.i, DeleteSqlNode(s[i + 2].v, w.v)))

Update(s, i) ==
  Then(Item("value", s, i + 5), LAMBDA v : Then(Where(s, v.i), LAMBDA w :
    Yes(w.i, UpdateSqlNode(s[i + 1].v, s[i + 3].v, v.v, w.v))))

SetVariable(s, i) ==
  Then(Item("value", s, i + 3), LAMBDA v : Yes(v.i, SetVariableSqlNode(s[i + 1].v, v.v)))

Select(s, i) ==
  Then(ExpressionList(s, i + 1), LAMBDA e :
    IF Cls(s, e.i) # "FROM" THEN No("syntax")
    ELSE Then(RelList(s, e.i + 1), LAMBDA r : Then(Where(s, r.i), LAMBDA w :
           Then(GroupBy(s, w.i), LAMBDA g : Yes(g.i, SelectSqlNode(e.v, r.v, w.v, g.v))))))

Calc(s, i) ==
  Then(ExpressionList(s, i + 1), LAMBDA e : Yes(e.i, CalcSqlNode(e.v)))

\* FIELDS TERMINATED BY and ENCLOSED BY keep their quotes: the unquoted copy is freed.
Option(s, i, shape) ==
  IF Cls(s, i) # shape[1] THEN Yes(i, <<>>)
  ELSE IF Match(s, i, shape) THEN Yes(i + Len(shape), <<s[i + Len(shape) - 1].v>>) ELSE No("syntax")

LoadData(s, i) ==
  Then(Option(s, i + 7, <<"FIELDS", "TERMINATED", "BY", "SSS">>), LAMBDA t :
    Then(Option(s, t.i, <<"ENCLOSED", "BY", "SSS">>), LAMBDA e :
      Yes(e.i, LoadDataSqlNode(s[i + 3].v, s[i + 6].v, t.v \o e.v))))

Explain(c) == Yes(c.i, ExplainSqlNode(c.v))

RECURSIVE Command(_, _)
Command(s, i) ==
  CASE Cls(s, i) = "SELECT" -> Select(s, i)
    [] Cls(s, i) = "CALC" -> Calc(s, i)
    [] Cls(s, i) = "EXPLAIN" -> Then(Command(s, i + 1), Explain)
    [] Match(s, i, <<"CREATE", "TABLE", "ID", "LBRACE">>) -> CreateTable(s, i)
    [] Match(s, i, <<"INSERT", "INTO", "ID", "VALUES", "LBRACE">>) -> Insert(s, i)
    [] Match(s, i, <<"DELETE", "FROM", "ID">>) -> Delete(s, i)
    [] Match(s, i, <<"UPDATE", "ID", "SET", "ID", "EQ">>) -> Update(s, i)
    [] Match(s, i, <<"SET", "ID", "EQ">>) -> SetVariable(s, i)
    [] Match(s, i, <<"LOAD", "DATA", "INFILE", "SSS", "INTO", "TABLE", "ID">>) -> LoadData(s, i)
    [] \E f \in Fixed : Match(s, i, f.shape) ->
         LET f == CHOOSE f \in Fixed : Match(s, i, f.shape)
         IN Yes(i + Len(f.shape), [Blank(f.flag) EXCEPT !.ids = IdsOf(s, i, Len(f.shape))])
    [] OTHER -> No("syntax")

\* commands: command_wrapper opt_semicolon.  yyerror adds a node of its own.
OptSemicolon(s, i) == IF Cls(s, i) = "SEMICOLON" THEN i + 1 ELSE i
sql_parse(s) ==
  LET c == Command(s, 1)
      end == OptSemicolon(s, c.i)
  IN CASE c.st = "null" -> [crash |-> TRUE, nodes |-> <<>>]
       [] c.st = "syntax" -> [crash |-> FALSE, nodes |-> <<ErrorNode>>]
       [] c.st = "ok" -> [crash |-> FALSE,
                          nodes |-> IF end > Len(s) THEN <<c.v>> ELSE <<c.v, ErrorNode>>]

-----------------------------------------------------------------------------
(* What the grammar should mean, said another way *)

\* The trees of tokens i to j whose operators bind at least as close as "min".
RECURSIVE Trees(_, _, _, _)
Trees(s, i, j, min) ==
  LET one == IF i # j THEN {}
             ELSE CASE Cls(s, i) \in ValueTokens -> {Ast("VALUE", ValueOf(s[i]), <<>>, <<i, i>>)}
                    [] Cls(s, i) = "ID" -> {Ast("FIELD", RelAttrSqlNode("", s[i].v), <<>>, <<i, i>>)}
                    [] Cls(s, i) = "*" -> {Ast("STAR", "", <<>>, NoName)}
                    [] OTHER -> {}
      dotted == IF j = i + 2 /\ Match(s, i, <<"ID", "DOT", "ID">>)
                THEN {Ast("FIELD", RelAttrSqlNode(s[i].v, s[j].v), <<>>, <<i, j>>)} ELSE {}
      braced == IF i < j /\ Cls(s, i) = "LBRACE" /\ Cls(s, j) = "RBRACE"
                THEN {[e EXCEPT !.name = <<i, j>>] : e \in Trees(s, i + 1, j - 1, 1)} ELSE {}
      called == IF i + 1 < j /\ Match(s, i, <<"ID", "LBRACE">>) /\ Cls(s, j) = "RBRACE"
                THEN {Ast("AGGREGATE", s[i].v, <<e>>, <<i, j>>) : e \in Trees(s, i + 2, j - 1, 1)} ELSE {}
      negated == IF i < j /\ Cls(s, i) = "-"
                 THEN {Ast("NEGATIVE", "", <<e>>, <<i, j>>) : e \in Trees(s, i + 1, j, 3)} ELSE {}
      binary(k) ==
        LET p == IF Cls(s, k) \in {"*", "/"} THEN 2 ELSE 1
        IN IF p < min THEN {}
           ELSE {Ast(Cls(s, k), "", <<l, r>>, <<i, j>>) :
                   l \in Trees(s, i, k - 1, p), r \in Trees(s, k + 1, j, p + 1)}
  IN one \cup dotted \cup braced \cup called \cup negated
       \cup UNION {binary(k) : k \in {x \in i + 1 .. j - 1 : Cls(s, x) \in {"+", "-", "*", "/"}}}

\* What a node holds, in the order in which it was written.
RECURSIVE ExprTexts(_)
ExprTexts(e) ==
  CASE e.k = "VALUE" -> <<e.v.v>>
    [] e.k = "FIELD" -> IF e.v.rel = "" THEN <<e.v.attr>> ELSE <<e.v.rel, e.v.attr>>
    [] OTHER -> (IF e.k = "AGGREGATE" THEN <<e.v>> ELSE <<>>)
                  \o FlattenSeq([k \in DOMAIN e.kids |-> ExprTexts(e.kids[k])])
AllTexts(es) == FlattenSeq([k \in DOMAIN es |-> ExprTexts(es[k])])

SideTexts(x) == ExprTexts([k |-> IF x.attr THEN "FIELD" ELSE "VALUE", v |-> x.v])

RECURSIVE Written(_)
Written(n) ==
  n.ids \o FlattenSeq([k \in DOMAIN n.attrs |-> <<n.attrs[k].name>>]) \o n.keys
    \o (IF n.format = "" THEN <<>> ELSE <<n.format>>)
    \o AllTexts(n.exprs) \o n.rels \o Spelled(n.values)
    \o FlattenSeq([k \in DOMAIN n.conds |->
                     SideTexts(Reverse(n.conds)[k].left) \o SideTexts(Reverse(n.conds)[k].right)])
    \o AllTexts(n.group) \o n.options
    \o FlattenSeq([k \in DOMAIN n.child |-> Written(n.child[k])])
=============================================================================
