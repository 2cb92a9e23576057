---------------------------- MODULE MenuCommand ----------------------------
(***************************************************************************)
(* The start menu of the command line tool and the command it runs as a    *)
(* process of its own on the same terminal (src/bin/mhfe/menu.rs), with    *)
(* the menu's handler of Ctrl+C on its own thread (terminal.rs) and the    *)
(* stop it passes on (protect.rs).                                         *)
(*                                                                         *)
(* A key of the terminal reaches both processes, SIGTERM the menu alone.   *)
(* Each thread's access to COMMAND is a step of its own, and a signal may  *)
(* fall between any two.                                                   *)
(***************************************************************************)
EXTENDS Naturals

CONSTANT MaxSignals    \* signals that reach the menu, a bound

VARIABLES
  menu,      \* what run_command does next; "choosing" outside it, "gone" at the end
  COMMAND,   \* "none", "process" for the number of the process, or "stopped"
  stopped,   \* run_command's own: whether the tool was stopped
  handler,   \* what the handler's thread does next
  caught,    \* signals its thread has yet to take
  process,   \* the command
  pending,   \* whether a halted command has a signal to take that ends it
  switched,  \* what the command changed of the terminal
  signals    \* signals so far, up to MaxSignals

menuVars    == <<menu, COMMAND, stopped>>
handlerVars == <<handler, caught, signals>>
commandVars == <<process, pending, switched>>
vars == <<menuVars, handlerVars, commandVars>>

Alive == {"starting", "halted", "running", "stopping"}
Changes == {"echo off", "alternate screen"}

TypeOK ==
  /\ menu \in {"choosing", "spawned", "waiting", "reaped own", "reaped killed", "restoring",
               "leaving", "ending", "gone"}
  /\ COMMAND \in {"none", "process", "stopped"} /\ stopped \in BOOLEAN
  /\ handler \in {"idle", "woken", "terminating", "continuing", "ending"}
  /\ caught \in 0..MaxSignals /\ signals \in 0..MaxSignals
  /\ process \in Alive \cup {"none", "own", "killed", "reaped"}
  /\ pending \in BOOLEAN /\ switched \subseteq Changes

Init ==
  /\ menu = "choosing" /\ COMMAND = "none" /\ stopped = FALSE
  /\ handler = "idle" /\ caught = 0 /\ signals = 0
  /\ process = "none" /\ pending = FALSE /\ switched = {}

-----------------------------------------------------------------------------
(* run_command.                                                            *)

Spawns ==
  /\ menu = "choosing" /\ menu' = "spawned"
  /\ process' = "starting" /\ pending' = FALSE
  /\ UNCHANGED <<COMMAND, stopped, switched>>

Stores ==
  /\ menu = "spawned" /\ menu' = "waiting" /\ COMMAND' = "process"
  /\ UNCHANGED <<stopped, commandVars>>

(* A wait does not see a stop, only the end.                               *)
Waits ==
  /\ menu = "waiting"
  /\ \/ process = "own" /\ menu' = "reaped own"
     \/ process = "killed" /\ menu' = "reaped killed"
  /\ process' = "reaped" /\ UNCHANGED <<COMMAND, stopped, pending, switched>>

AfterCommand(isStopped) == IF isStopped THEN "ending" ELSE "choosing"

(* After HANDLER_DELAY.                                                    *)
Swaps ==
  /\ stopped' = (COMMAND = "stopped") /\ COMMAND' = "none"
  /\ \/ menu = "reaped own" /\ menu' = AfterCommand(stopped')
     \/ menu = "reaped killed" /\ menu' = "restoring"
  /\ UNCHANGED commandVars

PutsBackSlip ==
  /\ menu = "restoring" /\ menu' = AfterCommand(stopped)
  /\ switched' = switched \ {"echo off"}
  /\ UNCHANGED <<COMMAND, stopped, process, pending>>

(* restore_terminal, then leave_screen_of_killed_command.                  *)
PutsBack ==
  /\ \/ /\ menu = "restoring" /\ menu' = "leaving"
        /\ switched' = switched \ {"echo off"}
     \/ /\ menu = "leaving" /\ menu' = AfterCommand(stopped)
        /\ switched' = switched \ {"alternate screen"}
  /\ UNCHANGED <<COMMAND, stopped, process, pending>>

(* The person quits, or run_command ends the tool after a stop.            *)
Ends == menu \in {"choosing", "ending"} /\ menu' = "gone"
        /\ UNCHANGED <<COMMAND, stopped, commandVars>>

RunCommand == Stores \/ Waits \/ Swaps \/ PutsBack \/ (menu = "ending" /\ Ends)

-----------------------------------------------------------------------------
(* The handler's thread of the menu: stop_on_ctrl_c, pass_on_stop and      *)
(* pass_on_termination.                                                    *)

Wakes ==
  /\ handler = "idle" /\ caught > 0 /\ handler' = "woken" /\ caught' = caught - 1
  /\ UNCHANGED <<menuVars, signals, commandVars>>

PassOnStop ==
  /\ handler = "woken"
  /\ \/ COMMAND = "none" /\ handler' = "ending" /\ UNCHANGED COMMAND
     \/ COMMAND = "stopped" /\ handler' = "idle" /\ UNCHANGED COMMAND
     \/ COMMAND = "process" /\ handler' = "terminating" /\ COMMAND' = "stopped"
  /\ UNCHANGED <<menu, stopped, caught, signals, commandVars>>

(* What a signal that ends the tool does to the command: fatal before its  *)
(* handlers are set, kept while it is halted, else it stops by itself.     *)
Takes ==
  /\ process' = CASE process = "starting" -> "killed" [] process = "running" -> "stopping"
                  [] OTHER -> process
  /\ pending' = (pending \/ process = "halted")

Terminates ==
  /\ handler = "terminating" /\ handler' = "continuing" /\ Takes
  /\ UNCHANGED <<menuVars, caught, signals, switched>>

ContinuesSlip ==
  /\ handler = "continuing" /\ handler' = "idle"
  /\ UNCHANGED <<menuVars, caught, signals, commandVars>>

(* A halted command may have set the handler of SIGTERM already, if not    *)
(* that of Ctrl+Z.                                                         *)
Continues ==
  /\ handler = "continuing" /\ handler' = "idle"
  /\ IF process = "halted"
     THEN /\ process' \in IF pending THEN {"killed", "stopping"} ELSE {"starting"}
          /\ pending' = FALSE
     ELSE UNCHANGED <<process, pending>>
  /\ UNCHANGED <<menuVars, caught, signals, switched>>

(* restore_and_exit: the menu itself has no prompt while a command runs.   *)
HandlerEnds ==
  /\ handler = "ending" /\ menu' = "gone"
  /\ UNCHANGED <<COMMAND, stopped, handlerVars, commandVars>>

Handler == Wakes \/ PassOnStop \/ Terminates \/ Continues \/ HandlerEnds

-----------------------------------------------------------------------------
(* The signals.                                                            *)

Caught ==
  /\ menu # "gone" /\ signals < MaxSignals
  /\ signals' = signals + 1 /\ caught' = caught + 1

(* Ctrl+C, Ctrl+\ or a closed terminal.                                    *)
CtrlC == Caught /\ Takes /\ UNCHANGED <<menuVars, handler, switched>>

(* Ctrl+Z halts a command that has not set its handlers.                   *)
CtrlZ ==
  /\ Caught
  /\ IF process = "starting" THEN process' = "halted" /\ UNCHANGED pending ELSE Takes
  /\ UNCHANGED <<menuVars, handler, switched>>

(* SIGTERM, from another program.                                          *)
Terminated == Caught /\ UNCHANGED <<menuVars, handler, commandVars>>

-----------------------------------------------------------------------------
(* The command: PrivateScreen is its inside.                               *)

SetsHandlers ==
  /\ process = "starting" /\ process' = "running" /\ UNCHANGED <<pending, switched>>

ChangesTerminal ==
  /\ process = "running" /\ switched' \in SUBSET Changes /\ switched' # switched
  /\ UNCHANGED <<process, pending>>

EndsItself ==
  /\ process = "running" /\ process' = "own" /\ switched' = {} /\ UNCHANGED pending

(* Its own handler puts the terminal back and ends it with CANCELLED.      *)
Stops ==
  /\ process = "stopping" /\ process' = "own" /\ switched' = {} /\ UNCHANGED pending

Crashes ==
  /\ process \in Alive /\ process' = "killed" /\ UNCHANGED <<pending, switched>>

Command == SetsHandlers \/ ChangesTerminal \/ EndsItself \/ Stops \/ Crashes

-----------------------------------------------------------------------------
Next ==
  \/ menu # "gone" /\ (Spawns \/ RunCommand \/ Ends) /\ UNCHANGED handlerVars
  \/ menu # "gone" /\ Handler
  \/ CtrlC \/ CtrlZ \/ Terminated
  \/ Command /\ UNCHANGED <<menuVars, handlerVars>>

Spec == Init /\ [][Next]_vars

(* Both threads of the menu go on, and so does a command that is stopping. *)
(* Nothing is assumed of a command that runs or is halted.                 *)
Fairness ==
  /\ WF_vars(menu # "gone" /\ RunCommand /\ UNCHANGED handlerVars)
  /\ WF_vars(menu # "gone" /\ Handler)
  /\ WF_vars(Stops /\ UNCHANGED <<menuVars, handlerVars>>)

-----------------------------------------------------------------------------
(* Properties.                                                             *)

(* The menu comes back to a terminal that echoes, on the main screen, also *)
(* after a command that crashed or was killed ("so that is done here").    *)
MenuComesBackClean == menu = "choosing" => switched = {}

(* A stop that the menu passed on ends the command and then the tool, also *)
(* a command that Ctrl+Z halted before its handlers were set: the menu does*)
(* not wait for ever, and does not come back.                              *)
PassedOnStopEnds ==
  (handler = "terminating") ~> (menu = "gone" /\ process \notin Alive)
=============================================================================
