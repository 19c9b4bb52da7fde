-------------------------------- MODULE Cli --------------------------------
(***************************************************************************)
(* Command line mode: CliServer::serve over a CliCommunicator, and the     *)
(* MiniobLineReader singleton that reads the lines and keeps the history   *)
(* of commands in a file across runs of the program.  The signal thread    *)
(* calls shutdown at any time; serve looks at started_ between two lines   *)
(* only, so a shutdown waits for the line being read.  The replxx library  *)
(* is external: its history is the set of the lines added to it.           *)
(***************************************************************************)
EXTENDS Integers, FiniteSets

CONSTANTS
  Commands,       \* texts that are neither blank nor an exit command
  Exits,          \* texts is_exit_command accepts
  Blanks,         \* "" (an empty line, the end of input) and white space
  SaveInterval,   \* history_save_interval_
  MaxClock, MaxRestarts

CliConstants == SaveInterval \in Nat /\ MaxClock \in Nat /\ MaxRestarts \in Nat

VARIABLES
  phase,          \* "down", "loop", "reading", "handling", "ended"
  command,        \* the request read_event made, or NoCommand
  started_, exit_,
  history, file, saved,   \* replxx's history, the file, previous_history_save_time_
  fds,            \* open descriptors: 0 is stdin, 1 stdout
  clock, restarts,
  typed,          \* history variable: when each line was last typed
  lastTyped

cliVars == <<phase, command, started_, exit_, history, file, saved, fds, clock, restarts, typed, lastTyped>>

NoCommand == "none"
Never == -1
Start == SaveInterval + 1     \* time() is long past the epoch

CInit ==
  /\ phase = "down" /\ command = NoCommand /\ started_ = FALSE /\ exit_ = FALSE
  /\ history = {} /\ file = {} /\ saved = 0 /\ fds = {0, 1}
  /\ clock = Start /\ restarts = 0
  /\ typed = [c \in Commands \cup Exits |-> Never] /\ lastTyped = Never

\* Communicator::init, then CliCommunicator::init for stdin: fd_ becomes -1.
cli_init(fd) == [ok |-> fd = 0, fd_ |-> IF fd = 0 THEN -1 ELSE fd, write_fd_ |-> 1]

\* MiniobLineReader::init.
reader_init == history' = history \cup file

serve ==
  /\ phase = "down" /\ cli_init(0).ok
  /\ reader_init
  /\ started_' = TRUE /\ phase' = "loop"
  /\ UNCHANGED <<command, exit_, file, saved, fds, clock, restarts, typed, lastTyped>>

check_and_save_history_Stamps(h) ==
  /\ file' = IF clock - saved > SaveInterval THEN file \cup h ELSE file
  /\ saved' = clock

check_and_save_history(h) ==
  IF clock - saved > SaveInterval THEN file' = file \cup h /\ saved' = clock
  ELSE UNCHANGED <<file, saved>>

\* A blank line is not remembered.
my_readline(line) ==
  IF line \in Blanks THEN UNCHANGED <<history, file, saved, typed, lastTyped>>
  ELSE /\ history' = history \cup {line}
       /\ check_and_save_history(history \cup {line})
       /\ typed' = [typed EXCEPT ![line] = clock] /\ lastTyped' = clock

is_exit_command(line) == line \in Exits

\* The loop of serve looks at both flags before each line.
serve_reads ==
  /\ phase = "loop" /\ started_ /\ ~exit_
  /\ phase' = "reading"
  /\ UNCHANGED <<command, started_, exit_, history, file, saved, fds, clock, restarts, typed, lastTyped>>

read_event(line) ==
  /\ phase = "reading"
  /\ my_readline(line)
  /\ exit_' = is_exit_command(line)
  /\ LET asks == line \in Commands
     IN  /\ command' = IF asks THEN line ELSE NoCommand
         /\ phase' = IF asks THEN "handling" ELSE "loop"
  /\ UNCHANGED <<started_, fds, clock, restarts>>

\* SqlTaskHandler::handle_event behind read_event: whatever becomes of the
\* write, need_disconnect is FALSE and serve goes on.
cli_write_result ==
  /\ phase = "handling"
  /\ command' = NoCommand /\ phase' = "loop"
  /\ UNCHANGED <<started_, exit_, history, file, saved, fds, clock, restarts, typed, lastTyped>>

\* From the thread the signal handler starts.
cli_shutdown ==
  /\ phase \in {"loop", "reading", "handling"} /\ started_
  /\ started_' = FALSE
  /\ UNCHANGED <<phase, command, exit_, history, file, saved, fds, clock, restarts, typed, lastTyped>>

\* ~Communicator closes fd_ unless it is -1; ~MiniobLineReader saves.
Closed(fd_) == IF fd_ >= 0 THEN fds \ {fd_} ELSE fds

serve_returns ==
  /\ phase = "loop" /\ (exit_ \/ ~started_)
  /\ phase' = "ended" /\ started_' = FALSE
  /\ fds' = Closed(cli_init(0).fd_)
  /\ file' = file \cup history
  /\ UNCHANGED <<command, exit_, history, saved, clock, restarts, typed, lastTyped>>

Tick ==
  /\ clock < MaxClock /\ phase \in {"reading", "handling"}
  /\ clock' = clock + 1
  /\ UNCHANGED <<phase, command, started_, exit_, history, file, saved, fds, restarts, typed, lastTyped>>

\* The program is started again, after its end or after it was killed; what was
\* typed and not saved is gone with the process.
Restart ==
  /\ phase # "down" /\ restarts < MaxRestarts
  /\ restarts' = restarts + 1
  /\ phase' = "down" /\ command' = NoCommand /\ started_' = FALSE /\ exit_' = FALSE
  /\ history' = {} /\ saved' = 0 /\ fds' = {0, 1}
  /\ typed' = [c \in Commands \cup Exits |-> IF c \in file THEN typed[c] ELSE Never]
  /\ lastTyped' = Never
  /\ UNCHANGED <<file, clock>>

CNext ==
  \/ serve \/ serve_reads \/ cli_write_result \/ cli_shutdown \/ serve_returns \/ Tick \/ Restart
  \/ \E line \in Commands \cup Exits \cup Blanks : read_event(line)
CSpec == CInit /\ [][CNext]_cliVars

-----------------------------------------------------------------------------
\* The command history of the terminal survives: a program that ends on its own leaves every
\* command ever remembered in the file and keeps stdin and stdout open, and a killed one
\* loses at most commands typed within the save interval of the last (check_and_save_history,
\* ~MiniobLineReader).
HistoryKept ==
  /\ phase = "ended" => {c \in DOMAIN typed : typed[c] # Never} \subseteq file /\ fds = {0, 1}
  /\ \A c \in DOMAIN typed : typed[c] # Never /\ lastTyped - typed[c] > SaveInterval => c \in file
=============================================================================
