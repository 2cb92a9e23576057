--------------------------- MODULE PrivateScreen ---------------------------
(***************************************************************************)
(* The terminal of the command line tool and the two threads that switch   *)
(* it: the command, which shows its steps and its secrets on the alternate *)
(* screen and switches the echo off while it reads, and the handler of     *)
(* Ctrl+C, which puts the terminal back and ends the tool at any moment    *)
(* (src/bin/mhfe/terminal.rs, hidden_input.rs, flow.rs).                   *)
(*                                                                         *)
(* Every lock, atomic and write to the terminal is a step of its own, so a *)
(* stop may fall between any two.  process::exit ends both threads; what   *)
(* the terminal holds then is what the person sees.                        *)
(***************************************************************************)
EXTENDS Naturals, Sequences

CONSTANT MaxNested    \* private screens within one another, a bound

(* What draws a secret: under the lock DRAWING, and without it.            *)
Guarded   == {"line", "phrase"}
Unguarded == {"heading", "scroll"}

VARIABLES
  main,        \* what the command's thread does next
  handler,     \* what the thread of Ctrl+C does next, "idle" before a signal
  drawing,     \* who holds DRAWING
  savedLock,   \* who holds the lock of SAVED
  saved,       \* SAVED: whether settings wait to be restored
  flow,        \* STATE: whether the command is shown one step at a time
  steps,       \* the command's Flow: whether it has the steps to end
  active,      \* PRIVATE_SCREEN_ACTIVE
  held,        \* the PrivateScreens the command holds, the innermost last
  container,   \* a container shown before its check: "no", "shown", "checked"
  unverified,  \* UNVERIFIED_CONTAINER_SHOWN
  screen,      \* the terminal: the screen it shows
  secrets,     \* the screens with a secret on them, and what drew it there
  echo,        \* whether the terminal echoes what is typed
  ended        \* "no", or what the tool said last: "quiet", "cancelled", "alarm"

locks    == <<drawing, savedLock>>
terminal == <<screen, secrets, echo>>
check    == <<container, unverified>>
vars == <<main, handler, locks, saved, flow, steps, active, held, check, terminal, ended>>

Owners  == {"free", "main", "handler"}
Screens == {"main", "alternate"}

TypeOK ==
  /\ main \in {"free", "entered", "steps entered", "steps on", "switching", "reading",
               "read", "restoring", "drawing", "typing", "flagging", "leaving",
               "steps off", "steps leaving", "stop", "stop swap", "stop leaving",
               "stop said"}
  /\ handler \in {"idle", "stopping", "alone", "locked", "restored", "swap", "leaving",
                  "again", "leaving again", "said"}
  /\ drawing \in Owners /\ savedLock \in Owners
  /\ saved \in BOOLEAN /\ flow \in BOOLEAN /\ steps \in BOOLEAN /\ active \in BOOLEAN
  /\ held \in Seq({"own", "step", "inner"}) /\ Len(held) <= MaxNested
  /\ container \in {"no", "shown", "checked"} /\ unverified \in BOOLEAN
  /\ screen \in Screens /\ secrets \subseteq Screens \X (Guarded \cup Unguarded)
  /\ echo \in BOOLEAN
  /\ ended \in {"no", "quiet", "cancelled", "alarm"}

Init ==
  /\ main = "free" /\ handler = "idle"
  /\ drawing = "free" /\ savedLock = "free" /\ saved = FALSE
  /\ flow = FALSE /\ steps = FALSE /\ active = FALSE /\ held = <<>>
  /\ container = "no" /\ unverified = FALSE
  /\ screen = "main" /\ secrets = {} /\ echo = TRUE /\ ended = "no"

-----------------------------------------------------------------------------
(* The control sequences, as a terminal carries them out.                  *)

Cleared(name) == {s \in secrets : s[1] # name}

EnterAlternate ==
  screen' = "alternate" /\ secrets' = Cleared("alternate") /\ UNCHANGED echo

ClearScreen == secrets' = Cleared(screen) /\ UNCHANGED <<screen, echo>>

LeaveAlternate ==
  screen' = "main" /\ secrets' = Cleared(screen) /\ UNCHANGED echo

Draw(renderer) ==
  secrets' = secrets \cup {<<screen, renderer>>} /\ UNCHANGED <<screen, echo>>

Echo(on) == echo' = on /\ UNCHANGED <<screen, secrets>>

(* leave_private_screen: the flag is taken back first, and whoever took it *)
(* back writes the sequence next.                                          *)
TakesBack == active' = FALSE

-----------------------------------------------------------------------------
(* The command.                                                            *)

Alone == ended = "no"

(* Flow::start, enter_steps: the alternate screen for the whole command.   *)
StartsSteps ==
  \/ /\ main = "free" /\ ~steps /\ ~active /\ held = <<>>
     /\ main' = "steps entered" /\ EnterAlternate
     /\ UNCHANGED <<flow, steps, active>>
  \/ /\ main = "steps entered" /\ main' = "steps on" /\ active' = TRUE
     /\ UNCHANGED <<flow, steps, terminal>>
  \/ /\ main = "steps on" /\ main' = "free" /\ flow' = TRUE /\ steps' = TRUE
     /\ UNCHANGED <<active, terminal>>

(* PrivateScreen::enter_if: a step of a command shown in steps, nothing    *)
(* within a private screen, the alternate screen elsewhere.                *)
EntersScreen ==
  \/ /\ main = "free" /\ Len(held) < MaxNested
     /\ \/ /\ flow /\ held' = Append(held, "step")
           /\ ClearScreen /\ UNCHANGED main
        \/ /\ ~flow /\ active /\ held' = Append(held, "inner")
           /\ UNCHANGED <<main, terminal>>
        \/ /\ ~flow /\ ~active /\ main' = "entered"
           /\ EnterAlternate /\ UNCHANGED held
     /\ UNCHANGED active
  \/ /\ main = "entered" /\ main' = "free"
     /\ active' = TRUE /\ held' = Append(held, "own")
     /\ UNCHANGED terminal

(* Drop of PrivateScreen.                                                  *)
LeavesScreen ==
  \/ /\ main = "free" /\ held # <<>>
     /\ held' = SubSeq(held, 1, Len(held) - 1)
     /\ CASE held[Len(held)] = "step" -> ClearScreen /\ UNCHANGED <<main, active>>
          [] held[Len(held)] = "inner" -> UNCHANGED <<main, active, terminal>>
          [] held[Len(held)] = "own" ->
               /\ TakesBack
               /\ main' = IF active THEN "leaving" ELSE "free"
               /\ UNCHANGED terminal
  \/ /\ main = "leaving" /\ main' = "free"
     /\ LeaveAlternate /\ UNCHANGED <<active, held>>

(* Flow::end: the steps are left and the summary is written.               *)
EndsSteps ==
  \/ /\ main = "free" /\ steps /\ held = <<>>
     /\ main' = "steps off" /\ flow' = FALSE /\ steps' = FALSE
     /\ UNCHANGED <<active, terminal>>
  \/ /\ main = "steps off" /\ TakesBack
     /\ main' = IF active THEN "steps leaving" ELSE "free"
     /\ UNCHANGED <<flow, steps, terminal>>
  \/ /\ main = "steps leaving" /\ main' = "free"
     /\ LeaveAlternate /\ UNCHANGED <<flow, steps, active>>

SwitchSlip ==
  /\ main = "free" /\ savedLock = "free"
  /\ main' = "switching" /\ savedLock' = "main" /\ UNCHANGED saved
  /\ UNCHANGED terminal

(* with_terminal_switched: the settings are kept before the echo goes.     *)
Switch ==
  /\ main = "free" /\ savedLock = "free"
  /\ main' = "switching" /\ savedLock' = "main" /\ saved' = TRUE
  /\ UNCHANGED terminal

(* The switch took, or it was refused and is undone, under the same lock.  *)
Switched ==
  /\ main = "switching" /\ savedLock' = "free"
  /\ \/ main' = "reading" /\ Echo(FALSE) /\ UNCHANGED saved
     \/ main' = "free" /\ Echo(TRUE) /\ saved' = FALSE

(* The line, the keys or the list is answered.                             *)
Answered ==
  /\ main = "reading" /\ main' = "read"
  /\ UNCHANGED <<savedLock, saved, terminal>>

(* The settings go back, unless the handler took them.  A closed input     *)
(* then ends the tool (exit_cancelled).                                    *)
Restore ==
  \/ /\ main = "read" /\ savedLock = "free"
     /\ main' = "restoring" /\ savedLock' = "main"
     /\ UNCHANGED <<saved, terminal>>
  \/ /\ main = "restoring" /\ savedLock' = "free" /\ saved' = FALSE
     /\ main' \in {"free", "stop"}
     /\ Echo(IF saved THEN TRUE ELSE echo)

Reads == Switch \/ Switched \/ Answered \/ Restore

TypesShownSlip ==
  \/ /\ main = "reading" /\ held # <<>>
     /\ drawing = "free" /\ drawing' = "main"
     /\ main' = "typing" /\ UNCHANGED terminal
  \/ /\ main = "typing" /\ main' = "reading"
     /\ Draw("line") /\ UNCHANGED drawing

(* A character is shown as it is typed, on a private screen (LineScreen).  *)
TypesShown ==
  \/ /\ main = "reading" /\ held # <<>>
     /\ drawing = "free" /\ drawing' = "main"
     /\ main' = "typing" /\ UNCHANGED terminal
  \/ /\ main = "typing" /\ main' = "reading"
     /\ drawing' = "free" /\ Draw("line")

(* A phrase, a made password or a card is shown (print_phrase); a          *)
(* container before its check raises its flag next.                        *)
ShowsPhrase ==
  \/ /\ main = "free" /\ held # <<>>
     /\ drawing = "free" /\ drawing' = "main"
     /\ main' = "drawing" /\ UNCHANGED <<container, terminal>>
  \/ /\ main = "drawing" /\ drawing' = "free" /\ Draw("phrase")
     /\ \/ main' = "free" /\ UNCHANGED container
        \/ container = "no" /\ container' = "shown" /\ main' = "flagging"

(* set_unverified_container_shown around the check of the container.       *)
Flags ==
  /\ \/ main = "flagging" /\ main' = "free" /\ unverified' = TRUE /\ UNCHANGED container
     \/ /\ main = "free" /\ container = "shown"
        /\ container' = "checked" /\ unverified' = FALSE /\ UNCHANGED main
  /\ UNCHANGED terminal

(* The heading of a recovery and the screen that scrolls write without     *)
(* DRAWING (decrypt.rs show_password, scroll.rs draw).                     *)
ShowsUnguarded ==
  /\ \/ main = "free" /\ held # <<>> /\ Draw("heading")
     \/ main = "reading" /\ held # <<>> /\ Draw("scroll")
  /\ UNCHANGED main

(* exit_cancelled by the command itself: Ctrl+D, or Escape at a question.  *)
Cancels ==
  \/ /\ main = "stop" /\ main' = "stop swap" /\ flow' = FALSE
     /\ UNCHANGED <<active, terminal, ended>>
  \/ /\ main = "stop swap" /\ TakesBack
     /\ main' = IF active THEN "stop leaving" ELSE "stop said"
     /\ UNCHANGED <<flow, terminal, ended>>
  \/ /\ main = "stop leaving" /\ main' = "stop said"
     /\ LeaveAlternate /\ UNCHANGED <<flow, active, ended>>
  \/ /\ main = "stop said" /\ ended' = (IF unverified THEN "alarm" ELSE "cancelled")
     /\ UNCHANGED <<main, flow, active, terminal>>

(* The command ends by itself.                                             *)
Ends ==
  /\ main = "free" /\ held = <<>> /\ ~steps
  /\ ended' = "quiet"

Command ==
  /\ Alone
  /\ \/ StartsSteps /\ UNCHANGED <<held, locks, saved, check, ended>>
     \/ EntersScreen /\ UNCHANGED <<flow, steps, locks, saved, check, ended>>
     \/ LeavesScreen /\ UNCHANGED <<flow, steps, locks, saved, check, ended>>
     \/ EndsSteps /\ UNCHANGED <<held, locks, saved, check, ended>>
     \/ Reads /\ UNCHANGED <<drawing, flow, steps, active, held, check, ended>>
     \/ TypesShown
        /\ UNCHANGED <<savedLock, saved, flow, steps, active, held, check, ended>>
     \/ ShowsPhrase
        /\ UNCHANGED <<savedLock, saved, flow, steps, active, held, unverified, ended>>
     \/ Flags /\ UNCHANGED <<locks, saved, flow, steps, active, held, ended>>
     \/ ShowsUnguarded
        /\ UNCHANGED <<locks, saved, flow, steps, active, held, check, ended>>
     \/ Cancels /\ UNCHANGED <<locks, saved, steps, held, check>>
     \/ Ends /\ UNCHANGED <<main, locks, saved, flow, steps, active, held, check, terminal>>
  /\ UNCHANGED handler

-----------------------------------------------------------------------------
(* The thread of Ctrl+C, and of the signals that end the tool like it.     *)

Signalled ==
  /\ handler = "idle" /\ handler' = "stopping"
  /\ UNCHANGED <<locks, saved, flow, active, terminal, ended>>

TakesDrawingSlip ==
  /\ handler = "stopping" /\ handler' = "alone"
  /\ UNCHANGED <<locks, saved, flow, active, terminal, ended>>

(* restore_and_exit: both locks are kept until the tool has ended.         *)
TakesDrawing ==
  /\ handler = "stopping" /\ drawing = "free"
  /\ handler' = "alone" /\ drawing' = "handler"
  /\ UNCHANGED <<savedLock, saved, flow, active, terminal, ended>>

TakesSaved ==
  /\ handler = "alone" /\ savedLock = "free"
  /\ handler' = "locked" /\ savedLock' = "handler"
  /\ UNCHANGED <<drawing, saved, flow, active, terminal, ended>>

PutsBack ==
  /\ handler = "locked" /\ handler' = "restored" /\ saved' = FALSE
  /\ Echo(IF saved THEN TRUE ELSE echo)
  /\ UNCHANGED <<locks, flow, active, ended>>

(* end_at_exit: the steps, unless the command holds the lock of STATE.     *)
EndsAtExit ==
  /\ handler = "restored"
  /\ \/ flow /\ flow' = FALSE /\ handler' = "swap"
     \/ /\ ~flow \/ main \in {"free", "steps on", "stop"}
        /\ handler' = "again" /\ UNCHANGED flow
  /\ UNCHANGED <<locks, saved, active, terminal, ended>>

(* leave_steps, then leave_private_screen.                                 *)
HandlerTakesBack ==
  /\ \/ handler = "swap" /\ handler' = IF active THEN "leaving" ELSE "again"
     \/ handler = "again" /\ handler' = IF active THEN "leaving again" ELSE "said"
  /\ TakesBack
  /\ UNCHANGED <<locks, saved, flow, terminal, ended>>

HandlerLeaves ==
  /\ \/ handler = "leaving" /\ handler' = "again"
     \/ handler = "leaving again" /\ handler' = "said"
  /\ LeaveAlternate
  /\ UNCHANGED <<locks, saved, flow, active, ended>>

(* exit_cancelled: says what the container shown is worth, and ends.       *)
HandlerExits ==
  /\ handler = "said"
  /\ ended' = IF unverified THEN "alarm" ELSE "cancelled"
  /\ UNCHANGED <<handler, locks, saved, flow, active, terminal>>

Stopping ==
  TakesSaved \/ PutsBack \/ EndsAtExit \/ HandlerTakesBack \/ HandlerLeaves \/ HandlerExits

Handler ==
  /\ Alone
  /\ Signalled \/ TakesDrawing \/ Stopping
  /\ UNCHANGED <<main, steps, held, check>>

Next == Command \/ Handler

Spec == Init /\ [][Next]_vars

(* The command goes on while it holds a lock, and the handler takes its    *)
(* steps.  Between two drawings the command waits for a key or computes, so*)
(* a handler that waits for DRAWING gets it.  Nothing is assumed of the    *)
(* person, who may leave a prompt waiting for ever.                        *)
HoldsLock == drawing = "main" \/ savedLock = "main"

Fairness ==
  /\ WF_vars(HoldsLock /\ Command)
  /\ SF_vars(Handler /\ TakesDrawing) /\ SF_vars(Handler /\ TakesSaved)
  /\ WF_vars(Handler /\ Stopping)

FairSpec == Spec /\ Fairness

-----------------------------------------------------------------------------
(* Properties.                                                             *)

(* However the tool ends, and wherever a stop falls, the terminal echoes   *)
(* again: the settings are kept before the echo goes, and whoever takes    *)
(* them back puts them back (with_terminal_switched, restore_and_exit).    *)
EchoComesBack == ended # "no" => echo

(* No secret that is drawn under DRAWING comes to the main screen or its   *)
(* scrollback, also when a stop leaves the private screen in the middle of *)
(* a drawing.                                                              *)
SecretsStayPrivate == \A r \in Guarded : <<"main", r>> \notin secrets

(* "nothing of either is drawn after the private screen is left" (DRAWING, *)
(* "while a typed line or a secret is drawn"), of every secret.            *)
NothingAfterLeaving == \A s \in secrets : s[1] # "main"

(* A stop ends the tool, also while a prompt waits for a person who types  *)
(* nothing more: no lock is held across such a wait.                       *)
StopEnds == (handler = "stopping") ~> (ended # "no")

(* "none leaves a secret on the screen": what the tool says of a stop, of  *)
(* the secrets that are drawn under DRAWING.                               *)
NoSecretIsLeft == ended # "no" => \A s \in secrets : s[2] \notin Guarded

(* The terminal is left with its echo and without a guarded secret.        *)
LeftClean == EchoComesBack /\ SecretsStayPrivate
=============================================================================
