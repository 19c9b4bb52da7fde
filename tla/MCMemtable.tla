---------------------------- MODULE MCMemtable ----------------------------
(***************************************************************************)
(* Memtable for TLC, under two kinds of callers chosen at the start:       *)
(* "race", two writers of one key, a crash, and a replay that can abort;   *)
(* and "one", a writer of single rows and batches over two keys, two       *)
(* crashes, and a replay that finds the unset bytes of key_len zero.       *)
(***************************************************************************)
EXTENDS Memtable

CONSTANTS w1, w2, k1, k2, RaceCrashes

VARIABLE scene

\* What does not happen in each scene.
InScene ==
  CASE scene = "race" ->
         /\ crashes' <= RaceCrashes
         /\ \A w \in Writers : \A i \in DOMAIN todo'[w] : i = 1 /\ todo'[w][i].key = k1
    [] scene = "one" ->
         /\ \A w \in Writers \ {w1} : pc'[w] = "idle"
         /\ rpos' < rpos => crashes' > crashes

MCInit == Init /\ scene \in {"race", "one"}
MCNext == Next /\ UNCHANGED scene /\ InScene
MCSpec == MCInit /\ [][MCNext]_<<vars, scene>> /\ WF_vars(Replay) /\ WF_vars(Set(Replayer))

\* With one writer, get returns the row a set acknowledged or one written later, also
\* after a restart, and scan returns the row get would return, once: replay hands the rows
\* of the log to set in their order, and ensure_kv only meets rows of the btree.
\* get_max_trans_version is at least the snapshot of every write that was acknowledged,
\* replayed ones included.
OneReads == scene = "one" => AckedReadable /\ ScanAgrees /\ MaxCovers

\* ObLogService::replay_ls gets to the end of the log, however often the process died
\* on the way before.
OneRecovers == (scene = "one" /\ phase = "recovering") ~> phase = "up"
=============================================================================
