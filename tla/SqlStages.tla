----------------------------- MODULE SqlStages -----------------------------
(***************************************************************************)
(* One statement from its text to its answer: SqlTaskHandler::handle_sql   *)
(* with the parse, resolve, optimize and execute stages, Stmt::create_stmt *)
(* and its statements, CommandExecutor and the executors.  Sessions run    *)
(* stage by stage, interleaved, over one ObSchemaService; what its calls   *)
(* do inside is in DdlService, and what write_result sends in              *)
(* PlainCommunicator.  Planner has the plans: here only whether there is   *)
(* one.  A SELECT has no filter statement and the plan generator reads it: *)
(* the process ends.                                                       *)
(***************************************************************************)
EXTENDS Parser

CONSTANTS
  Clients,         \* sessions
  Requests,        \* the requests they send, as tokens
  MaxStatements    \* bound on the statements of a run

VARIABLES
  event,        \* SQLStageEvent and SqlResult of every session
  current,      \* current_db_name_ and current_database_id_ of every session
  databases,    \* ObSchemaService::databases_
  tables,       \* ObSchemaService::tables_
  nextId,       \* next_database_id_ and next_table_id_
  up,           \* the process runs
  count         \* history: statements so far

qvars == <<event, current, databases, tables, nextId, up, count>>

NoStmt == [type |-> "null", ids |-> <<>>, values |-> <<>>, child |-> <<>>]

\* SQLStageEvent and SqlResult at the beginning of a request; "changed" is history.
Fresh(text) ==
  [at |-> "parse", text |-> text, node |-> ErrorNode, stmt |-> NoStmt, plan |-> FALSE,
   rc |-> "SUCCESS", code |-> "SUCCESS", rows |-> <<>>, oper |-> FALSE, state |-> "", changed |-> FALSE]
Idle == [Fresh(<<>>) EXCEPT !.at = "idle"]

Starts(events) ==
  /\ event \in events
  /\ current = [c \in Clients |-> [name |-> "sys", id |-> 1]]
  /\ databases = (1 :> "sys")
  /\ tables = <<>>
  /\ nextId = 2
  /\ up = TRUE
  /\ count = 0
QInit == Starts({[c \in Clients |-> Idle]})

-----------------------------------------------------------------------------
(* Statements *)

MakeStmt(type, n) == [type |-> type, ids |-> n.ids, values |-> n.values, child |-> <<>>]

\* strcasecmp: names are written in one case here.
get_storage_format(f) == CASE f \in {"", "ROW"} -> "ROW_FORMAT" [] f = "PAX" -> "PAX_FORMAT" [] OTHER -> "UNKNOWN_FORMAT"

Made(stmt) == [rc |-> "SUCCESS", stmt |-> stmt]
Refused(rc) == [rc |-> rc, stmt |-> NoStmt]

\* The statements, each made of its node as it is.
SelectStmt(n) == MakeStmt("SELECT", n)
CalcStmt(n) == MakeStmt("CALC", n)
HelpStmt(n) == MakeStmt("HELP", n)
ShowTablesStmt(n) == MakeStmt("SHOW_TABLES", n)
ShowDatabasesStmt(n) == MakeStmt("SHOW_DATABASES", n)
CreateDatabaseStmt(n) == MakeStmt("CREATE_DATABASE", n)
DropDatabaseStmt(n) == MakeStmt("DROP_DATABASE", n)
UseDatabaseStmt(n) == MakeStmt("USE_DATABASE", n)
TrxBeginStmt(n) == MakeStmt("BEGIN", n)
ExitStmt(n) == MakeStmt("EXIT", n)
SetVariableStmt(n) == MakeStmt("SET_VARIABLE", n)
TrxEndStmt(n) == MakeStmt(IF n.flag = "SCF_COMMIT" THEN "COMMIT" ELSE "ROLLBACK", n)

CreateTableStmt(n) ==
  IF get_storage_format(n.format) = "UNKNOWN_FORMAT" THEN Refused("INVALID_ARGUMENT")
  ELSE Made(MakeStmt("CREATE_TABLE", n))

\* DESC and ANALYZE TABLE are made without the name of their table.
DescTableStmt(n) == [MakeStmt("DESC_TABLE", n) EXCEPT !.ids = <<"">>]
AnalyzeTableStmt(n) == [MakeStmt("ANALYZE_TABLE", n) EXCEPT !.ids = <<"">>]

ExplainStmt(n, child) ==
  IF child.rc # "SUCCESS" THEN child ELSE Made([MakeStmt("EXPLAIN", n) EXCEPT !.child = <<child.stmt>>])

\* The others, INSERT and DELETE among them, are not implemented.
RECURSIVE create_stmt(_)
create_stmt(n) ==
  CASE n.flag = "SCF_SELECT" -> Made(SelectStmt(n))
    [] n.flag = "SCF_CALC" -> Made(CalcStmt(n))
    [] n.flag = "SCF_HELP" -> Made(HelpStmt(n))
    [] n.flag = "SCF_SHOW_TABLES" -> Made(ShowTablesStmt(n))
    [] n.flag = "SCF_SHOW_DATABASES" -> Made(ShowDatabasesStmt(n))
    [] n.flag = "SCF_CREATE_DATABASE" -> Made(CreateDatabaseStmt(n))
    [] n.flag = "SCF_DROP_DATABASE" -> Made(DropDatabaseStmt(n))
    [] n.flag = "SCF_USE_DATABASE" -> Made(UseDatabaseStmt(n))
    [] n.flag = "SCF_BEGIN" -> Made(TrxBeginStmt(n))
    [] n.flag \in {"SCF_COMMIT", "SCF_ROLLBACK"} -> Made(TrxEndStmt(n))
    [] n.flag = "SCF_EXIT" -> Made(ExitStmt(n))
    [] n.flag = "SCF_SET_VARIABLE" -> Made(SetVariableStmt(n))
    [] n.flag = "SCF_CREATE_TABLE" -> CreateTableStmt(n)
    [] n.flag = "SCF_DESC_TABLE" -> Made(DescTableStmt(n))
    [] n.flag = "SCF_ANALYZE_TABLE" -> Made(AnalyzeTableStmt(n))
    [] n.flag = "SCF_EXPLAIN" -> ExplainStmt(n, create_stmt(n.child[1]))
    [] OTHER -> Refused("UNIMPLEMENTED")

\* LogicalPlanGenerator::create: the others have no plan.
RECURSIVE PlanRc(_)
PlanRc(s) ==
  CASE s.type = "CALC" -> "SUCCESS"
    [] s.type = "SELECT" -> "crash"
    [] s.type = "EXPLAIN" -> PlanRc(s.child[1])
    [] OTHER -> "UNIMPLEMENTED"

\* SetVariableExecutor: the setters of Session are empty.
Booleans == {"true", "on", "yes", "t", "1", "false", "off", "no", "f", "0"}
var_value_to_boolean(v) == IF v.type = "SSS" /\ v.v \notin Booleans THEN "VARIABLE_NOT_VALID" ELSE "SUCCESS"
set_variable(name, v) ==
  CASE name \in {"sql_debug", "hash_join", "use_cascade"} -> var_value_to_boolean(v)
    [] name = "execution_mode" ->
         IF v.type = "SSS" /\ v.v \in {"TUPLE_ITERATOR", "CHUNK_ITERATOR"} THEN "SUCCESS" ELSE "INVALID_ARGUMENT"
    [] OTHER -> "VARIABLE_NOT_EXISTS"

-----------------------------------------------------------------------------
(* The stages.  A stage that fails ends handle_sql, and handle_event gives the code to
   the result. *)

At(c, stage) == up /\ event[c].at = stage
Schema == <<databases, tables, nextId>>

Ends_Untold(e, rc) == [e EXCEPT !.at = "write", !.rc = rc]
Ends(e, rc) == [e EXCEPT !.at = "write", !.rc = rc, !.code = IF rc = "SUCCESS" THEN @ ELSE rc]

\* read_event; QueryCacheStage does nothing.
ReadEvent(c, text) ==
  /\ At(c, "idle") /\ count < MaxStatements
  /\ event' = [event EXCEPT ![c] = Fresh(text)]
  /\ count' = count + 1
  /\ UNCHANGED <<current, Schema, up>>

\* ParseStage: of several nodes the first is taken.
ParseStage(c) ==
  /\ At(c, "parse")
  /\ LET p == sql_parse(event[c].text)
         n == p.nodes[1]
     IN /\ up' = ~p.crash
        /\ event' = [event EXCEPT ![c] =
             IF p.crash THEN @
             ELSE IF n.flag = "SCF_ERROR"
                  THEN [Ends(@, "SQL_SYNTAX") EXCEPT !.code = "SQL_SYNTAX", !.state = "Failed to parse sql"]
             ELSE [@ EXCEPT !.node = n, !.at = "resolve"]]
  /\ UNCHANGED <<current, Schema, count>>

ResolveStage(c) ==
  /\ At(c, "resolve")
  /\ LET r == create_stmt(event[c].node)
     IN event' = [event EXCEPT ![c] =
          IF r.rc = "SUCCESS" THEN [@ EXCEPT !.stmt = r.stmt, !.at = "optimize"]
          ELSE Ends([@ EXCEPT !.stmt = r.stmt], r.rc)]
  /\ UNCHANGED <<current, Schema, up, count>>

\* OptimizeStage: UNIMPLEMENTED is let through, for the commands.
OptimizeStage(c) ==
  /\ At(c, "optimize")
  /\ LET rc == PlanRc(event[c].stmt)
     IN /\ up' = (rc # "crash")
        /\ event' = [event EXCEPT ![c] = IF rc = "crash" THEN @ ELSE [@ EXCEPT !.plan = (rc = "SUCCESS"), !.at = "execute"]]
  /\ UNCHANGED <<current, Schema, count>>

\* ExecuteStage with a plan: the operator goes to the result.
ExecutePlan(c) ==
  /\ At(c, "execute") /\ event[c].plan
  /\ event' = [event EXCEPT ![c] = [Ends(@, "SUCCESS") EXCEPT !.oper = TRUE]]
  /\ UNCHANGED <<current, Schema, up, count>>

\* Session::set_current_db: nothing, when there is no such database.
Id(name) == CHOOSE i \in DOMAIN databases : databases[i] = name
Exists(name) == \E i \in DOMAIN databases : databases[i] = name
set_current_db(cur, name) == IF Exists(name) THEN [name |-> name, id |-> Id(name)] ELSE cur

Command1(c, type) == At(c, "execute") /\ ~event[c].plan /\ event[c].stmt.type = type

\* CommandExecutor: ExecuteStage stores the code of the executor over any other.
Executed(c, e, rc) == event' = [event EXCEPT ![c] = Ends([e EXCEPT !.code = rc], rc)]
Changed(c) == [event[c] EXCEPT !.changed = TRUE]

\* ObDDLService::create_database: fails when there is such a database, or on the log.
CreateDatabase(c) ==
  /\ Command1(c, "CREATE_DATABASE")
  /\ LET n == event[c].stmt.ids[1]
     IN \/ /\ Executed(c, event[c], "INTERNAL")
           /\ UNCHANGED <<databases, nextId>>
        \/ /\ ~Exists(n)
           /\ databases' = (nextId :> n) @@ databases
           /\ nextId' = nextId + 1
           /\ Executed(c, Changed(c), "SUCCESS")
  /\ UNCHANGED <<current, tables, up, count>>

\* drop_database erases the first of the name; its code is not looked at.
DropDatabase(c) ==
  /\ Command1(c, "DROP_DATABASE")
  /\ LET n == event[c].stmt.ids[1]
     IN /\ current' = [current EXCEPT ![c] = IF @.name = n THEN set_current_db(@, "sys") ELSE @]
        /\ databases' = [i \in DOMAIN databases \ (IF Exists(n) THEN {Id(n)} ELSE {}) |-> databases[i]]
  /\ Executed(c, Changed(c), "SUCCESS")
  /\ UNCHANGED <<tables, nextId, up, count>>

UseDatabase(c) ==
  /\ Command1(c, "USE_DATABASE")
  /\ LET new == set_current_db(current[c], event[c].stmt.ids[1])
     IN /\ current' = [current EXCEPT ![c] = new]
        /\ Executed(c, [event[c] EXCEPT !.changed = (new # current[c])],
                    IF new.id = 0 THEN "SCHEMA_DB_NOT_EXIST" ELSE "SUCCESS")
  /\ UNCHANGED <<Schema, up, count>>

CreateTableOf(c) ==
  /\ Command1(c, "CREATE_TABLE")
  /\ tables' = Append(tables, [name |-> event[c].stmt.ids[1], db |-> current[c].id])
  /\ Executed(c, Changed(c), "SUCCESS")
  /\ UNCHANGED <<current, databases, nextId, up, count>>

\* A StringListPhysicalOperator goes to the result.
Lists(c, type, lines) ==
  /\ Command1(c, type)
  /\ Executed(c, [event[c] EXCEPT !.oper = TRUE, !.rows = SetToSeq(lines)], "SUCCESS")
  /\ UNCHANGED <<current, Schema, up, count>>

Help(c) == Lists(c, "HELP", {"help"})
ShowDatabases(c) == Lists(c, "SHOW_DATABASES", {databases[i] : i \in DOMAIN databases})
ShowTables(c) ==
  Lists(c, "SHOW_TABLES", {tables[i].name : i \in {j \in DOMAIN tables : tables[j].db = current[c].id}})

\* DescTableExecutor returns SUCCESS also for a table that does not exist.
DescTable(c) ==
  /\ Command1(c, "DESC_TABLE")
  /\ LET found == \E i \in DOMAIN tables : tables[i].name = event[c].stmt.ids[1]
     IN Executed(c, IF found THEN [event[c] EXCEPT !.oper = TRUE]
                    ELSE [event[c] EXCEPT !.state = "Table not exists"], "SUCCESS")
  /\ UNCHANGED <<current, Schema, up, count>>

\* BEGIN, COMMIT, ROLLBACK and EXIT do nothing, SET VARIABLE checks its value; ANALYZE TABLE
\* and an EXPLAIN without a plan are not implemented.
OtherCommand(c) ==
  /\ \E type \in {"BEGIN", "COMMIT", "ROLLBACK", "EXIT", "SET_VARIABLE", "ANALYZE_TABLE", "EXPLAIN"} : Command1(c, type)
  /\ LET s == event[c].stmt
     IN Executed(c, event[c],
                 CASE s.type \in {"ANALYZE_TABLE", "EXPLAIN"} -> "UNIMPLEMENTED"
                   [] s.type = "SET_VARIABLE" -> set_variable(s.ids[1], s.values[1])
                   [] OTHER -> "SUCCESS")
  /\ UNCHANGED <<current, Schema, up, count>>

\* write_result, and the event is deleted.
WriteResult(c) ==
  /\ At(c, "write")
  /\ event' = [event EXCEPT ![c] = Idle]
  /\ UNCHANGED <<current, Schema, up, count>>

QNext ==
  \E c \in Clients :
    \/ \E text \in Requests : ReadEvent(c, text)
    \/ ParseStage(c) \/ ResolveStage(c) \/ OptimizeStage(c) \/ ExecutePlan(c)
    \/ CreateDatabase(c) \/ DropDatabase(c) \/ UseDatabase(c) \/ CreateTableOf(c)
    \/ Help(c) \/ ShowDatabases(c) \/ ShowTables(c) \/ DescTable(c) \/ OtherCommand(c)
    \/ WriteResult(c)

QSpec == QInit /\ [][QNext]_qvars

-----------------------------------------------------------------------------
\* What is answered is what happened, whatever stage ended the statement and whatever other
\* sessions do meanwhile: SUCCESS if and only if every stage succeeded; a statement that
\* fails has changed neither the schema nor its session; rows come with SUCCESS only
\* (SqlTaskHandler::handle_event, ExecuteStage, SqlResult::set_return_code).
HonestAnswers ==
  \A c \in Clients : LET e == event[c] IN
    e.at = "write" =>
      /\ (e.code = "SUCCESS") = (e.rc = "SUCCESS")
      /\ e.code # "SUCCESS" => ~e.changed /\ ~e.oper
      /\ e.code = "SUCCESS" => e.node = Command(e.text, 1).v

\* DESC of a table that was created shows it (the help text offers "desc `table name`;").
DescShows ==
  \A c \in Clients :
    event[c].at = "write" /\ event[c].node.flag = "SCF_DESC_TABLE"
      /\ (\E i \in DOMAIN tables : tables[i].name = event[c].node.ids[1]) => event[c].oper

\* A request means what its text says (the grammar of yacc_sql.y).  The expression of a CALC
\* is the only tree of its tokens in which * and / bind closer than + and -, operators of one
\* rank group to the left and a unary minus binds closest, and it is named by the text it
\* spans; a text without such a tree is refused.  In every command the names and values are
\* those of the text, each once and in its order, the conditions in the reverse order.
MeansItsText(s) ==
  LET c == Command(s, 1)
      valued == SelectSeq(SubSeq(s, 1, c.i - 1), LAMBDA x : x.t = "ID" \/ (x.t \in ValueTokens /\ c.v.flag # "SCF_CREATE_TABLE"))
  IN /\ c.st = "ok" => Spelled(valued) = Written(c.v)
     /\ Cls(s, 1) = "CALC" /\ (\A i \in DOMAIN s : s[i].t \notin {"COMMA", "SEMICOLON"}) =>
          LET trees == Trees(s, 2, Len(s), 1)
          IN /\ Cardinality(trees) <= 1
             /\ trees # {} => sql_parse(s).nodes = <<CalcSqlNode(<<CHOOSE t \in trees : TRUE>>)>>
             /\ trees = {} => \E i \in DOMAIN sql_parse(s).nodes : sql_parse(s).nodes[i] = ErrorNode

\* Every text a session sends is parsed to what it says (ParseStage::handle_request).
TextsMeant == \A c \in Clients : event[c].at = "parse" => MeansItsText(event[c].text)
=============================================================================
