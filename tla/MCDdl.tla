------------------------------- MODULE MCDdl -------------------------------
(***************************************************************************)
(* DdlService for TLC, under two kinds of clients chosen at the start:     *)
(* "race", two sessions that create the same database, of which s2 also    *)
(* drops, while power fails; and "calm", one session that creates two      *)
(* databases, uses one and creates a table, with crashes and failing SLOG  *)
(* writes but no power failure.                                            *)
(***************************************************************************)
EXTENDS DdlService

CONSTANTS s1, s2, main, RaceCreates

VARIABLE scene

\* What the clients of each scene never do.
InScene ==
  /\ pc[s1] \notin {"dropSet", "drop"}
  /\ CASE scene = "race" ->
           /\ creates <= RaceCreates
           /\ ackedTables = {}
           /\ \A p \in Procs : arg[p] # "b" /\ pc[p] # "use" /\ useOk[p] = ""
       [] scene = "calm" ->
           /\ \A s \in Sessions \ {s1} : arg[s] = ""
           /\ "clog" \notin cut

MCInit == Init /\ scene \in {"race", "calm"}
MCNext == Next /\ UNCHANGED scene /\ InScene'
MCSpec == MCInit /\ [][MCNext]_<<vars, scene>> /\ WF_vars(Recovery) /\ WF_vars(Create(Main))

\* With one session inside create_database at a time, the check of ObDDLOperator keeps
\* database names unique, over crashes and the replay of two logs that both have the name;
\* and until something is dropped or lost, replay gives every acknowledged database the id
\* it was created with, though it only counts the creations it finds in the log.
CalmStable == scene = "calm" => UniqueNames /\ IdsStable
=============================================================================
