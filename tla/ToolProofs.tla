----------------------------- MODULE ToolProofs -----------------------------
(***************************************************************************)
(* Proofs about Tool: what its parts promise holds of the process, however *)
(* many signals arrive, screens are nested and clients connect, and what a *)
(* command promises holds for every set of lengths, wherever it is         *)
(* stopped, fails or goes on.  For each part an inductive invariant of its *)
(* own, kept by each of its actions; and the steps of the others leave its *)
(* variables alone.                                                        *)
(***************************************************************************)
EXTENDS Tool, Integers, Sequences, FiniteSetTheorems, WellFoundedInduction, TLAPS

LEMMA Bounds ==
  /\ MaxSignals \in Nat /\ MaxPasswords \in Nat /\ MaxLevel \in Nat
  /\ MaxConnections \in Nat \ {0} /\ MaxNested \in Nat \ {0}
  BY BoundsAssumption

-----------------------------------------------------------------------------
(* The start menu.                                                         *)

(* Where the command's process is while the menu spawns it, waits for it   *)
(* and has reaped it, and what it leaves of the terminal: a process that   *)
(* ends by itself nothing, one that is killed what the menu puts back.     *)
MenuInv ==
  /\ Menu!TypeOK /\ caught <= signals
  /\ menu = "choosing" => process \in {"none", "reaped"} /\ switched = {}
  /\ menu \in {"reaped own", "reaped killed", "restoring", "leaving", "ending"} =>
       process = "reaped"
  /\ menu = "reaped own" \/ process = "own" => switched = {}
  /\ menu = "leaving" => "echo off" \notin switched

LEMMA MenuBegins == ASSUME Init PROVE MenuInv
  <1>1. 0 \in 0..MaxSignals
    BY Bounds
  <1>2. caught = 0 /\ signals = 0 /\ menu = "choosing" /\ COMMAND = "none" /\ stopped = FALSE
        /\ handler = "idle" /\ process = "none" /\ pending = FALSE /\ switched = {}
    BY DEF Init, Menu!Init
  <1>3. Menu!TypeOK
    BY <1>1, <1>2 DEF Menu!TypeOK, Menu!Changes, Menu!Alive
  <1>4. QED
    BY <1>2, <1>3 DEF MenuInv

(* run_command's own steps.                                                *)
LEMMA RunCommandKeepsMenuInv ==
  ASSUME MenuInv, Menu!Spawns \/ Menu!RunCommand \/ Menu!Ends, UNCHANGED Menu!handlerVars
  PROVE  MenuInv'
  <1> USE DEF MenuInv, Menu!TypeOK, Menu!Changes, Menu!Alive, Menu!handlerVars,
              Menu!commandVars
  <1>1. CASE Menu!Spawns
    BY <1>1 DEF Menu!Spawns
  <1>2. CASE Menu!Stores
    BY <1>2 DEF Menu!Stores
  <1>3. CASE Menu!Waits
    BY <1>3 DEF Menu!Waits
  <1>4. CASE Menu!Swaps
    BY <1>4 DEF Menu!Swaps, Menu!AfterCommand
  <1>5. CASE Menu!PutsBack
    BY <1>5 DEF Menu!PutsBack, Menu!AfterCommand
  <1>6. CASE Menu!Ends
    BY <1>6 DEF Menu!Ends
  <1>7. QED
    BY <1>1, <1>2, <1>3, <1>4, <1>5, <1>6 DEF Menu!RunCommand

(* The handler's thread and the signals reach a process that is alive.     *)
LEMMA SignalsKeepMenuInv ==
  ASSUME MenuInv, (menu # "gone" /\ Menu!Handler) \/ Menu!CtrlC \/ Menu!CtrlZ \/ Menu!Terminated
  PROVE  MenuInv'
  <1> DEFINE Counted == caught \in 0..MaxSignals /\ signals \in 0..MaxSignals /\ caught <= signals
  <1>1. Counted /\ MaxSignals \in Nat
    BY Bounds DEF MenuInv, Menu!TypeOK
  <1> USE DEF Menu!menuVars, Menu!handlerVars, Menu!commandVars
  <1>2. Counted'
    <2>1. CASE Menu!Wakes
      <3>1. caught > 0 /\ caught' = caught - 1 /\ signals' = signals
        BY <2>1 DEF Menu!Wakes
      <3>2. QED
        BY <1>1, <3>1
    <2>2. CASE Menu!CtrlC \/ Menu!CtrlZ \/ Menu!Terminated
      <3>1. signals < MaxSignals /\ signals' = signals + 1 /\ caught' = caught + 1
        BY <2>2 DEF Menu!CtrlC, Menu!CtrlZ, Menu!Terminated, Menu!Caught
      <3>2. QED
        BY <1>1, <3>1
    <2>3. CASE Menu!PassOnStop \/ Menu!HandlerEnds \/ Menu!Terminates \/ Menu!Continues
      <3>1. UNCHANGED <<caught, signals>>
        BY <2>3 DEF Menu!PassOnStop, Menu!HandlerEnds, Menu!Terminates, Menu!Continues
      <3>2. QED
        BY <1>1, <3>1
    <2>4. QED
      BY <2>1, <2>2, <2>3 DEF Menu!Handler
  <1> HIDE DEF Counted
  <1> DEFINE Rest == /\ UNCHANGED switched
                     /\ menu' \in {menu, "gone"} /\ COMMAND' \in {"none", "process", "stopped"}
                     /\ handler' \in {"idle", "woken", "terminating", "continuing", "ending"}
                     /\ stopped' = stopped /\ pending' \in BOOLEAN
                     /\ IF process \in Menu!Alive THEN process' \in Menu!Alive \cup {"killed"}
                                                  ELSE process' = process
  <1>3. Rest
    <2> USE DEF MenuInv, Menu!TypeOK, Menu!Alive
    <2>1. CASE Menu!Wakes \/ Menu!PassOnStop \/ Menu!HandlerEnds
      BY <2>1 DEF Menu!Wakes, Menu!PassOnStop, Menu!HandlerEnds
    <2>2. CASE Menu!Terminates \/ Menu!Continues
      BY <2>2 DEF Menu!Terminates, Menu!Takes, Menu!Continues
    <2>3. CASE Menu!CtrlC \/ Menu!CtrlZ \/ Menu!Terminated
      BY <2>3 DEF Menu!CtrlC, Menu!CtrlZ, Menu!Terminated, Menu!Caught, Menu!Takes
    <2>4. QED
      BY <2>1, <2>2, <2>3 DEF Menu!Handler
  <1> HIDE DEF Rest
  <1>4. Menu!TypeOK'
    BY <1>2, <1>3 DEF Counted, Rest, MenuInv, Menu!TypeOK, Menu!Alive, Menu!Changes
  <1>5. QED
    BY <1>2, <1>3, <1>4 DEF Counted, Rest, MenuInv, Menu!TypeOK, Menu!Alive

(* The command.                                                            *)
LEMMA CommandKeepsMenuInv ==
  ASSUME MenuInv, Menu!Command, UNCHANGED <<Menu!menuVars, Menu!handlerVars>>
  PROVE  MenuInv'
  BY DEF MenuInv, Menu!TypeOK, Menu!Changes, Menu!Alive, Menu!menuVars, Menu!handlerVars,
         Menu!Command, Menu!SetsHandlers, Menu!ChangesTerminal, Menu!EndsItself, Menu!Stops,
         Menu!Crashes

(* menu.rs, run_command: the person is asked for the next command only on  *)
(* a terminal that echoes, on its main screen, whatever became of the last *)
(* one and whenever and however often a signal arrived.                    *)
THEOREM MenuFindsTheTerminalClean == Spec => []MenuComesBackClean
  <1>1. Init => MenuInv
    BY MenuBegins
  <1>2. MenuInv /\ [Next]_vars => MenuInv'
    <2>1. ASSUME MenuInv, UNCHANGED menuVars
          PROVE  MenuInv'
      <3>1. Menu!TypeOK'
        BY <2>1 DEF MenuInv, menuVars, Menu!TypeOK
      <3>2. QED
        BY <2>1, <3>1 DEF MenuInv, menuVars
    <2>2. ASSUME MenuInv, Menu!Next
          PROVE  MenuInv'
      BY <2>2, RunCommandKeepsMenuInv, SignalsKeepMenuInv, CommandKeepsMenuInv DEF Menu!Next
    <2>3. [Next]_vars => Menu!Next \/ UNCHANGED menuVars
      BY DEF Next, vars, Chooses, OthersStay, RunsMenu, RunsEncrypt, RunsDecrypt, RunsCheck,
             RunsRekey, RunsServe, RunsSelfTest, RunsStart, RunsContainer, RunsSettings,
             RunsScreen
    <2>4. QED
      BY <2>1, <2>2, <2>3
  <1>3. MenuInv => MenuComesBackClean
    BY DEF MenuInv, MenuComesBackClean, Menu!MenuComesBackClean
  <1>4. QED
    BY <1>1, <1>2, <1>3, PTL DEF Spec

-----------------------------------------------------------------------------
(* The terminal and its two threads.                                       *)

(* Until it has the lock DRAWING, the handler touches nothing.             *)
Undisturbed == stopper \in {"idle", "stopping"}

(* Who holds which lock follows from what each thread does.                *)
LocksHeld ==
  /\ drawing = "main" <=> main \in {"typing", "drawing"}
  /\ drawing = "handler" <=> ~Undisturbed
  /\ savedLock = "main" <=> main \in {"switching", "restoring"}
  /\ savedLock = "handler" <=> stopper \notin {"idle", "stopping", "alone"}

(* While the terminal does not echo, the settings wait to be put back, by  *)
(* the command that reads or by a handler that has yet to do it.           *)
SettingsWait ==
  /\ Screen!EchoComesBack
  /\ main = "switching" => saved
  /\ ~echo => /\ saved /\ main \in {"reading", "typing", "read", "restoring"}
              /\ stopper \in {"idle", "stopping", "alone", "locked"}

(* Private screens lie within one another: each is a step of a command in  *)
(* steps, else the first has the alternate screen and the rest share it.   *)
Nested == \A i \in DOMAIN held :
            held[i] = IF stepped THEN "step" ELSE IF i = 1 THEN "own" ELSE "inner"

(* Undisturbed, the terminal is on its alternate screen wherever a secret  *)
(* may be drawn.                                                           *)
OnAlternate ==
  Undisturbed =>
    /\ main \in {"free", "switching", "reading", "read", "restoring", "drawing", "typing",
                  "flagging"} =>
         /\ steps <=> stepped
         /\ private <=> stepped \/ held # <<>>
         /\ private => screen = "alternate"
         /\ Nested
    /\ main \in {"steps entered", "entered", "steps on", "leaving", "steps off",
                  "steps leaving"} =>
         ~steps /\ ~stepped /\ held = <<>>
    /\ main \in {"steps entered", "entered", "leaving", "steps leaving"} => ~private
    /\ main \in {"steps on", "steps off"} => private
    /\ main \in {"steps entered", "entered", "steps on", "steps off"} => screen = "alternate"
    /\ main \in {"drawing", "typing"} => held # <<>>

Held == {"own", "step", "inner"}

ScreenInv ==
  /\ held \in Seq(Held) /\ stepped \in BOOLEAN /\ steps \in BOOLEAN /\ private \in BOOLEAN
  /\ LocksHeld /\ SettingsWait /\ OnAlternate /\ Screen!SecretsStayPrivate

LEMMA ScreenBegins == ASSUME Init PROVE ScreenInv
  <1>1. Screen!Init
    BY DEF Init
  <1>2. held = <<>> /\ held \in Seq(Held)
    BY <1>1 DEF Screen!Init
  <1>3. LocksHeld /\ SettingsWait /\ Screen!SecretsStayPrivate
    BY <1>1 DEF Screen!Init, LocksHeld, Undisturbed, SettingsWait, Screen!EchoComesBack,
                  Screen!SecretsStayPrivate
  <1>4. OnAlternate
    BY <1>1 DEF Screen!Init, OnAlternate, Nested
  <1>5. QED
    BY <1>1, <1>2, <1>3, <1>4 DEF ScreenInv, Screen!Init

(* What a private screen that is entered or left does to those held.       *)
LEMMA Pushed ==
  ASSUME NEW h \in Seq(Held), NEW x \in Held
  PROVE  /\ Append(h, x) \in Seq(Held) /\ Append(h, x) # <<>>
         /\ Len(Append(h, x)) = Len(h) + 1
         /\ \A i \in 1..Len(h) : Append(h, x)[i] = h[i]
         /\ Append(h, x)[Len(h) + 1] = x
  OBVIOUS

LEMMA EmptyHasLength ==
  ASSUME NEW h \in Seq(Held)
  PROVE  h = <<>> <=> Len(h) = 0
  OBVIOUS

LEMMA Popped ==
  ASSUME NEW h \in Seq(Held), h # <<>>
  PROVE  /\ Len(h) \in Nat \ {0} /\ h[Len(h)] \in Held
         /\ SubSeq(h, 1, Len(h) - 1) \in Seq(Held)
         /\ Len(SubSeq(h, 1, Len(h) - 1)) = Len(h) - 1
         /\ \A i \in 1..(Len(h) - 1) : SubSeq(h, 1, Len(h) - 1)[i] = h[i]
  OBVIOUS

(* The three ways to leave a private screen, and the sequence that follows.*)
LEMMA Leaving ==
  ASSUME held \in Seq(Held), Screen!LeavesScreen
  PROVE  \/ /\ main = "free" /\ held # <<>> /\ held' = SubSeq(held, 1, Len(held) - 1)
            /\ \/ held[Len(held)] = "step" /\ Screen!ClearScreen /\ UNCHANGED <<main, private>>
               \/ held[Len(held)] = "inner" /\ UNCHANGED <<main, private, Screen!terminal>>
               \/ /\ held[Len(held)] = "own" /\ private' = FALSE /\ UNCHANGED Screen!terminal
                  /\ main' = IF private THEN "leaving" ELSE "free"
         \/ /\ main = "leaving" /\ main' = "free"
            /\ Screen!LeaveAlternate /\ UNCHANGED <<private, held>>
  <1>1. CASE main = "leaving"
    BY <1>1 DEF Screen!LeavesScreen
  <1>2. CASE main # "leaving"
    <2>1. main = "free" /\ held # <<>> /\ held' = SubSeq(held, 1, Len(held) - 1)
      BY <1>2 DEF Screen!LeavesScreen
    <2>2. held[Len(held)] \in Held
      BY <2>1, Popped
    <2>3. CASE held[Len(held)] = "step"
      BY <2>1, <2>3 DEF Screen!LeavesScreen
    <2>4. CASE held[Len(held)] = "inner"
      BY <2>1, <2>4 DEF Screen!LeavesScreen
    <2>5. CASE held[Len(held)] = "own"
      BY <2>1, <2>5 DEF Screen!LeavesScreen, Screen!TakesBack
    <2>6. QED
      BY <2>2, <2>3, <2>4, <2>5 DEF Held
  <1>3. QED
    BY <1>1, <1>2

(* The locks and the settings, through each step of both threads.          *)
LEMMA LocksAreKept ==
  ASSUME held \in Seq(Held), LocksHeld, SettingsWait, Screen!Next
  PROVE  LocksHeld' /\ SettingsWait'
  <1> USE DEF LocksHeld, SettingsWait, Screen!EchoComesBack, Undisturbed, Screen!locks, Screen!terminal, Screen!check,
              Screen!Echo, Screen!Alone, Screen!ClearScreen, Screen!EnterAlternate,
              Screen!LeaveAlternate, Screen!Draw
  <1>1. CASE Screen!Command
    <2>0. UNCHANGED stopper /\ ended = "no"
      BY <1>1 DEF Screen!Command
    <2>1. CASE Screen!StartsSteps /\ UNCHANGED <<held, Screen!locks, saved, Screen!check, ended>>
      BY <2>0, <2>1 DEF Screen!StartsSteps
    <2>2. CASE Screen!EntersScreen
               /\ UNCHANGED <<stepped, steps, Screen!locks, saved, Screen!check, ended>>
      BY <2>0, <2>2 DEF Screen!EntersScreen
    <2>9. CASE Screen!LeavesScreen
               /\ UNCHANGED <<stepped, steps, Screen!locks, saved, Screen!check, ended>>
      <3>1. main \in {"free", "leaving"} /\ main' \in {"free", "leaving"} /\ UNCHANGED echo
        BY <2>9, Leaving
      <3>2. QED
        BY <2>0, <2>9, <3>1
    <2>3. CASE Screen!EndsSteps /\ UNCHANGED <<held, Screen!locks, saved, Screen!check, ended>>
      BY <2>0, <2>3 DEF Screen!EndsSteps
    <2>4. CASE Screen!Reads
               /\ UNCHANGED <<drawing, ended>>
      BY <2>0, <2>4 DEF Screen!Reads, Screen!Switch, Screen!Switched, Screen!Answered,
                        Screen!Restore
    <2>5. CASE (Screen!TypesShown \/ Screen!ShowsPhrase) /\ UNCHANGED <<savedLock, saved, ended>>
      BY <2>0, <2>5 DEF Screen!TypesShown, Screen!ShowsPhrase
    <2>6. CASE (Screen!Flags \/ Screen!ShowsUnguarded) /\ UNCHANGED <<Screen!locks, saved, ended>>
      BY <2>0, <2>6 DEF Screen!Flags, Screen!ShowsUnguarded
    <2>10. CASE Screen!Cancels /\ UNCHANGED <<Screen!locks, saved>>
      BY <2>0, <2>10 DEF Screen!Cancels
    <2>7. CASE main = "free" /\ UNCHANGED <<main, Screen!locks, saved, Screen!terminal>>
      BY <2>0, <2>7
    <2>8. QED
      BY <1>1, <2>1, <2>2, <2>3, <2>4, <2>5, <2>6, <2>7, <2>9, <2>10 DEF Screen!Command, Screen!Ends
  <1>2. CASE Screen!Handler
    BY <1>2 DEF Screen!Handler, Screen!Signalled, Screen!TakesDrawing, Screen!Stopping,
           Screen!TakesSaved, Screen!PutsBack, Screen!EndsAtExit, Screen!HandlerTakesBack,
           Screen!HandlerLeaves, Screen!HandlerExits
  <1>3. QED
    BY <1>1, <1>2 DEF Screen!Next

(* The control sequences that clear a screen bring no secret to another.   *)
LEMMA ClearingIsPrivate ==
  ASSUME Screen!SecretsStayPrivate,
         \/ Screen!EnterAlternate \/ Screen!ClearScreen \/ Screen!LeaveAlternate
         \/ UNCHANGED secrets
  PROVE  Screen!SecretsStayPrivate'
  BY DEF Screen!SecretsStayPrivate, Screen!EnterAlternate, Screen!ClearScreen,
         Screen!LeaveAlternate, Screen!Cleared

(* A guarded secret is drawn by the command alone, undisturbed, and on the *)
(* alternate screen.                                                       *)
LEMMA DrawingIsPrivate ==
  ASSUME ScreenInv, Screen!Next
  PROVE  Screen!SecretsStayPrivate'
  <1> USE DEF Screen!terminal
  <1>0. Screen!SecretsStayPrivate /\ held \in Seq(Held)
    BY DEF ScreenInv
  <1>1. CASE \E r \in Screen!Guarded : main \in {"typing", "drawing"} /\ Screen!Draw(r)
    <2>1. screen = "alternate"
      BY <1>1 DEF ScreenInv, LocksHeld, OnAlternate
    <2>2. QED
      BY <1>0, <1>1, <2>1 DEF Screen!Draw, Screen!SecretsStayPrivate, Screen!Guarded
  <1>2. CASE \E r \in Screen!Unguarded : Screen!Draw(r)
    BY <1>0, <1>2 DEF Screen!Draw, Screen!SecretsStayPrivate, Screen!Guarded, Screen!Unguarded
  <1>3. CASE \/ Screen!EnterAlternate \/ Screen!ClearScreen \/ Screen!LeaveAlternate
             \/ UNCHANGED secrets
    BY <1>0, <1>3, ClearingIsPrivate
  <1>4. Screen!LeavesScreen => Screen!ClearScreen \/ Screen!LeaveAlternate \/ UNCHANGED secrets
    BY <1>0, Leaving
  <1>5. CASE Screen!Command
    <2>1. CASE Screen!TypesShown \/ Screen!ShowsPhrase
      BY <1>1, <1>3, <2>1 DEF Screen!TypesShown, Screen!ShowsPhrase, Screen!Guarded
    <2>2. CASE Screen!ShowsUnguarded
      BY <1>2, <2>2 DEF Screen!ShowsUnguarded, Screen!Unguarded
    <2>3. CASE Screen!Reads
      BY <1>3, <2>3 DEF Screen!Reads, Screen!Switch, Screen!Switched, Screen!Answered,
                        Screen!Restore, Screen!Echo
    <2>4. QED
      BY <1>3, <1>4, <1>5, <2>1, <2>2, <2>3
         DEF Screen!Command, Screen!StartsSteps, Screen!EntersScreen, Screen!EndsSteps,
             Screen!Flags, Screen!Cancels
  <1>6. CASE Screen!Handler
    BY <1>3, <1>6
       DEF Screen!Handler, Screen!Signalled, Screen!TakesDrawing, Screen!Stopping,
           Screen!TakesSaved, Screen!PutsBack, Screen!EndsAtExit, Screen!HandlerTakesBack,
           Screen!HandlerLeaves, Screen!HandlerExits, Screen!Echo
  <1>7. QED
    BY <1>5, <1>6 DEF Screen!Next

LEMMA FlagsAreBoolean ==
  ASSUME ScreenInv, Screen!Next
  PROVE  stepped' \in BOOLEAN /\ steps' \in BOOLEAN /\ private' \in BOOLEAN
  <1>0. /\ held \in Seq(Held)
        /\ stepped \in BOOLEAN /\ steps \in BOOLEAN /\ private \in BOOLEAN
    BY DEF ScreenInv
  <1>1. CASE Screen!Command
    <2>1. Screen!LeavesScreen => private' \in BOOLEAN
      BY <1>0, Leaving
    <2>2. Screen!StartsSteps \/ Screen!EntersScreen \/ Screen!EndsSteps \/ Screen!Cancels
            => private' \in BOOLEAN
      BY <1>0
         DEF Screen!StartsSteps, Screen!EntersScreen, Screen!EndsSteps, Screen!Cancels,
             Screen!TakesBack
    <2>3. Screen!StartsSteps \/ Screen!EndsSteps => stepped' \in BOOLEAN /\ steps' \in BOOLEAN
      BY <1>0 DEF Screen!StartsSteps, Screen!EndsSteps
    <2>4. Screen!Cancels => stepped' \in BOOLEAN
      BY <1>0 DEF Screen!Cancels
    <2>5. QED
      BY <1>0, <1>1, <2>1, <2>2, <2>3, <2>4 DEF Screen!Command
  <1>2. CASE Screen!Handler
    BY <1>0, <1>2
       DEF Screen!Handler, Screen!Signalled, Screen!TakesDrawing, Screen!Stopping,
           Screen!TakesSaved, Screen!PutsBack, Screen!EndsAtExit, Screen!HandlerTakesBack,
           Screen!HandlerLeaves, Screen!HandlerExits, Screen!TakesBack
  <1>3. QED
    BY <1>1, <1>2 DEF Screen!Next

(* The screens stay nested while the command enters and leaves them.       *)
LEMMA NestingIsKept ==
  ASSUME ScreenInv, Screen!Next
  PROVE  held' \in Seq(Held) /\ OnAlternate'
  <1> USE DEF Screen!locks, Screen!check, Screen!terminal
  <1>a. stepped' \in BOOLEAN /\ steps' \in BOOLEAN /\ private' \in BOOLEAN
    BY FlagsAreBoolean
  <1>0. /\ held \in Seq(Held) /\ stepped \in BOOLEAN /\ steps \in BOOLEAN /\ private \in BOOLEAN
        /\ LocksHeld /\ OnAlternate
    BY DEF ScreenInv
  <1>1. CASE Screen!Handler
    <2>1. UNCHANGED <<main, steps, held>>
      BY <1>1 DEF Screen!Handler
    <2>2. ASSUME Undisturbed'
          PROVE  Undisturbed /\ UNCHANGED <<stepped, private, screen>>
      BY <1>1, <2>2
         DEF Undisturbed, Screen!Handler, Screen!Signalled, Screen!TakesDrawing,
             Screen!Stopping, Screen!TakesSaved, Screen!PutsBack, Screen!EndsAtExit,
             Screen!HandlerTakesBack, Screen!HandlerLeaves, Screen!HandlerExits
    <2>3. Undisturbed' => (Nested => Nested')
      BY <2>1, <2>2 DEF Nested
    <2>4. QED
      BY <1>0, <1>a, <2>1, <2>2, <2>3 DEF OnAlternate
  <1>2. CASE Screen!Command
    <2>1. UNCHANGED <<stopper>> /\ (Undisturbed' <=> Undisturbed)
      BY <1>2 DEF Screen!Command, Undisturbed
    <2>2. CASE Screen!EntersScreen /\ UNCHANGED <<stepped, steps>>
      <3>1. CASE main = "free" /\ stepped /\ held' = Append(held, "step") /\ Screen!ClearScreen
                 /\ UNCHANGED <<main, private>>
        <4>1. held' \in Seq(Held) /\ held' # <<>>
          BY <1>0, <3>1, Pushed DEF Held
        <4>2. Nested => Nested'
          BY <1>0, <2>2, <3>1, <4>1, Pushed DEF Nested, Held
        <4>3. QED
          BY <1>0, <1>a, <2>1, <2>2, <3>1, <4>1, <4>2 DEF OnAlternate, Screen!ClearScreen
      <3>2. CASE main = "free" /\ ~stepped /\ private /\ held' = Append(held, "inner")
                 /\ UNCHANGED <<main, private, screen>>
        <4>1. held' \in Seq(Held) /\ held' # <<>>
          BY <1>0, <3>2, Pushed DEF Held
        <4>2. ASSUME Undisturbed PROVE held # <<>> /\ Nested
          BY <1>0, <3>2, <4>2 DEF OnAlternate
        <4>3. held # <<>> /\ Nested => Nested'
          BY <1>0, <2>2, <3>2, <4>1, Pushed DEF Nested, Held
        <4>4. QED
          BY <1>0, <1>a, <2>1, <2>2, <3>2, <4>1, <4>2, <4>3 DEF OnAlternate
      <3>3. CASE main = "free" /\ ~stepped /\ ~private /\ main' = "entered"
                 /\ Screen!EnterAlternate /\ UNCHANGED <<held, private>>
        BY <1>0, <1>a, <2>1, <2>2, <3>3 DEF OnAlternate, Screen!EnterAlternate
      <3>4. CASE main = "entered" /\ main' = "free" /\ private' /\ held' = Append(held, "own")
                 /\ UNCHANGED screen
        <4>1. held' \in Seq(Held) /\ held' # <<>>
          BY <1>0, <3>4, Pushed DEF Held
        <4>2. ASSUME Undisturbed PROVE held = <<>> /\ ~stepped /\ screen = "alternate" /\ ~steps
          BY <1>0, <3>4, <4>2 DEF OnAlternate
        <4>3. held = <<>> /\ ~stepped => Nested'
          BY <1>0, <2>2, <3>4, <4>1, Pushed DEF Nested, Held
        <4>4. QED
          BY <1>0, <1>a, <2>1, <2>2, <3>4, <4>1, <4>2, <4>3 DEF OnAlternate
      <3>5. QED
        BY <2>2, <3>1, <3>2, <3>3, <3>4 DEF Screen!EntersScreen
    <2>3. CASE Screen!LeavesScreen /\ UNCHANGED <<stepped, steps>>
      <3>1. CASE main = "leaving"
        BY <1>0, <1>a, <2>1, <2>3, <3>1, Leaving DEF OnAlternate, Nested, Screen!LeaveAlternate
      <3>2. CASE main = "free"
        <4>1. /\ held # <<>> /\ held' = SubSeq(held, 1, Len(held) - 1) /\ held' \in Seq(Held)
              /\ UNCHANGED screen
          BY <1>0, <2>3, <3>2, Leaving, Popped DEF Screen!ClearScreen
        <4>2. Nested => Nested'
          BY <1>0, <2>3, <4>1, Popped DEF Nested
        <4>3. held' = <<>> <=> Len(held) = 1
          <5>1. Len(held) \in Nat \ {0} /\ Len(held') = Len(held) - 1
            BY <1>0, <4>1, Popped
          <5>2. held' = <<>> <=> Len(held') = 0
            BY <4>1, EmptyHasLength
          <5>3. QED
            BY <5>1, <5>2
        <4>4. ASSUME Undisturbed, held[Len(held)] = "own"
              PROVE  ~stepped /\ ~steps /\ held' = <<>> /\ main' = "leaving" /\ ~private'
          <5>1. Nested /\ private /\ (steps <=> stepped)
            BY <1>0, <3>2, <4>1, <4>4 DEF OnAlternate
          <5>2. Len(held) = 1 /\ ~stepped
            BY <1>0, <4>1, <4>4, <5>1, Popped DEF Nested
          <5>3. QED
            BY <1>0, <2>3, <3>2, <4>3, <4>4, <5>1, <5>2, Leaving
        <4>5. ASSUME Undisturbed, held[Len(held)] # "own"
              PROVE  /\ UNCHANGED <<main, private>>
                     /\ stepped \/ held' # <<>>
          <5>1. Nested
            BY <1>0, <3>2, <4>5 DEF OnAlternate
          <5>2. stepped \/ Len(held) # 1
            BY <1>0, <4>1, <4>5, <5>1, Popped DEF Nested
          <5>3. QED
            BY <1>0, <2>3, <3>2, <4>3, <4>5, <5>2, Leaving
        <4>6. QED
          BY <1>0, <1>a, <2>1, <2>3, <3>2, <4>1, <4>2, <4>4, <4>5 DEF OnAlternate
      <3>3. QED
        BY <1>0, <2>3, <3>1, <3>2, Leaving
    <2>4. CASE (Screen!StartsSteps \/ Screen!EndsSteps) /\ UNCHANGED held
      <3>1. held = <<>> => Nested'
        BY <2>4 DEF Nested
      <3>2. CASE Screen!StartsSteps
        <4>1. CASE main = "free"
          BY <1>0, <1>a, <2>1, <2>4, <3>1, <3>2, <4>1 DEF OnAlternate, Screen!StartsSteps, Screen!EnterAlternate
        <4>2. CASE main = "steps entered"
          BY <1>0, <1>a, <2>1, <2>4, <3>1, <3>2, <4>2 DEF OnAlternate, Screen!StartsSteps
        <4>3. CASE main = "steps on"
          BY <1>0, <1>a, <2>1, <2>4, <3>1, <3>2, <4>3 DEF OnAlternate, Screen!StartsSteps
        <4>4. QED
          BY <3>2, <4>1, <4>2, <4>3 DEF Screen!StartsSteps
      <3>3. CASE Screen!EndsSteps
        BY <1>0, <1>a, <2>1, <2>4, <3>1, <3>3
           DEF OnAlternate, Screen!EndsSteps, Screen!LeaveAlternate, Screen!TakesBack
      <3>4. QED
        BY <2>4, <3>2, <3>3
    <2>5. CASE Screen!Cancels /\ UNCHANGED <<steps, held>>
      BY <1>0, <1>a, <2>1, <2>5 DEF OnAlternate, Screen!Cancels
    <2>6. CASE (Screen!Reads \/ Screen!TypesShown \/ Screen!ShowsPhrase \/ Screen!Flags
                \/ Screen!ShowsUnguarded)
               /\ UNCHANGED <<stepped, steps, private, held>>
      BY <1>0, <1>a, <2>1, <2>6
         DEF OnAlternate, Nested, Screen!Reads, Screen!Switch, Screen!Switched, Screen!Answered,
             Screen!Restore, Screen!Echo, Screen!TypesShown, Screen!ShowsPhrase, Screen!Flags,
             Screen!ShowsUnguarded, Screen!Draw
    <2>7. CASE UNCHANGED <<main, stepped, steps, private, held, screen>>
      BY <1>0, <1>a, <2>1, <2>7 DEF OnAlternate, Nested
    <2>8. QED
      BY <1>2, <2>2, <2>3, <2>4, <2>5, <2>6, <2>7 DEF Screen!Command
  <1>3. QED
    BY <1>1, <1>2 DEF Screen!Next

(* terminal.rs, hidden_input.rs: at whatever moment a stop falls, and in   *)
(* however many private screens, the tool ends with an echoing terminal,   *)
(* and what is drawn under DRAWING never comes to the main screen.         *)
THEOREM TerminalIsLeftClean == Spec => []LeftClean
  <1>1. Init => ScreenInv
    BY ScreenBegins
  <1>2. ScreenInv /\ [Next]_vars => ScreenInv'
    <2>1. ASSUME ScreenInv, UNCHANGED screenVars
          PROVE  ScreenInv'
      BY <2>1 DEF ScreenInv, screenVars, LocksHeld, Undisturbed, SettingsWait, OnAlternate, Nested,
                  Screen!SecretsStayPrivate, Screen!EchoComesBack
    <2>2. ASSUME ScreenInv, Screen!Next
          PROVE  ScreenInv'
      BY <2>2, LocksAreKept, DrawingIsPrivate, FlagsAreBoolean, NestingIsKept DEF ScreenInv
    <2>3. [Next]_vars => Screen!Next \/ UNCHANGED screenVars
      BY DEF Next, vars, Chooses, OthersStay, RunsMenu, RunsEncrypt, RunsDecrypt, RunsCheck,
             RunsRekey, RunsServe, RunsSelfTest, RunsStart, RunsContainer, RunsSettings,
             RunsScreen
    <2>4. QED
      BY <2>1, <2>2, <2>3
  <1>3. ScreenInv => LeftClean
    BY DEF ScreenInv, SettingsWait, LeftClean, Screen!LeftClean
  <1>4. QED
    BY <1>1, <1>2, <1>3, PTL DEF Spec

-----------------------------------------------------------------------------
(* The commands.                                                           *)

(* A step of the process is one of the command that was chosen.            *)
LEMMA OneCommandRuns ==
  ASSUME [Next]_vars
  PROVE  /\ command' \in {"none", "encrypt"} =>
              command \in {"none", "encrypt"} /\ (Encrypt!Next \/ UNCHANGED <<encryptVars, exit>>)
         /\ command' \in {"none", "decrypt"} =>
              command \in {"none", "decrypt"} /\ (Decrypt!Next \/ UNCHANGED <<decryptVars, exit>>)
         /\ command' \in {"none", "check"} =>
              command \in {"none", "check"} /\ (Check!Next \/ UNCHANGED <<checkVars, exit>>)
         /\ command' \in {"none", "rekey"} =>
              command \in {"none", "rekey"} /\ (Dialog!Next \/ UNCHANGED <<rekeyVars, exit>>)
         /\ command' \in {"none", "serve"} =>
              command \in {"none", "serve"} /\ (Server!Next \/ UNCHANGED <<serveVars, exit>>)
         /\ command' \in {"none", "test"} =>
              command \in {"none", "test"} /\ (Test!Next \/ UNCHANGED <<testVars, exit>>)
         /\ command' \in {"none", "start"} =>
              command \in {"none", "start"} /\ (Start!Next \/ UNCHANGED <<startVars, exit>>)
         /\ command' \in {"none", "container"} =>
              command \in {"none", "container"}
              /\ (Container!Next \/ UNCHANGED <<containerVars, exit>>)
         /\ command' \in {"none", "settings"} =>
              command \in {"none", "settings"}
              /\ (Settle!Next \/ UNCHANGED <<settingsVars, exit>>)
  BY DEF Next, vars, Chooses, OthersStay, RunsMenu, RunsEncrypt, RunsDecrypt, RunsCheck,
         RunsRekey, RunsServe, RunsSelfTest, RunsStart, RunsContainer, RunsSettings, RunsScreen

-----------------------------------------------------------------------------
(* encrypt and new.                                                        *)

Unsealed == {"begin", "choosing", "encrypting", "showing", "warning", "checking"}

(* The check of a container and what its result allows.                    *)
CheckedFirst ==
  /\ original \in [words : Encrypt!Lengths, others : SUBSET Shorts] /\ original.words \notin original.others
  /\ sealing \notin {"begin", "choosing"} => suite \in {Full, original.words}
  /\ sealing \in Unsealed \cup {"result", "reporting", "leaving", "kept"}
  /\ check \in {"open", "passed", "wrong", "failed"}
  /\ check = "open" <=> sealing \in Unsealed
  /\ check = "passed" => good
  /\ sealing = "kept" \/ exit = "success" => check = "passed"
  /\ "given" \in told \/ "card" \in told \/ "verified" \in told => check = "passed"

(* A container that was shown unchecked has armed its alarm, or what became*)
(* of its check is told.                                                   *)
Alarmed ==
  exit = "none" /\ "container" \in told =>
    /\ sealing \notin {"begin", "choosing", "encrypting", "showing"}
    /\ sealing \in {"checking", "result"} => flagged
    /\ sealing = "leaving" => check = "passed" \/ "wrong" \in told \/ "not verified" \in told

(* A card comes out with the container, and both are on the list.          *)
CardIsKept ==
  /\ exit = "none" /\ sealing \in Unsealed \cup {"result", "reporting"} => "card" \notin told
  /\ sealing \in {"leaving", "kept"} /\ check = "passed" => ("card" \in told <=> card = "made")
  /\ exit = "success" => sealing = "kept" /\ keep = Encrypt!Keep

SealingInv == CheckedFirst /\ Alarmed /\ CardIsKept /\ Encrypt!NotReliedOnUnchecked

LEMMA SealingBegins == ASSUME Init PROVE SealingInv
  <1>1. Encrypt!Init
    BY DEF Init
  <1>2. original \in [words : Encrypt!Lengths, others : SUBSET Shorts] /\ original.words \notin original.others
    BY <1>1 DEF Encrypt!Init, Encrypt!Lengths
  <1>3. QED
    BY <1>1, <1>2
       DEF Encrypt!Init, SealingInv, CheckedFirst, Unsealed, Alarmed, CardIsKept,
           Encrypt!NotReliedOnUnchecked

LEMMA SealingKeepsChecked ==
  ASSUME CheckedFirst, Encrypt!Next
  PROVE  CheckedFirst'
  <1> USE DEF CheckedFirst, Unsealed, Encrypt!subject, Encrypt!Ends, Encrypt!PersonReadsOutput
  <1>1. CASE Encrypt!Begins
    <2>1. PICK words \in Encrypt!Lengths : \E others \in SUBSET (Shorts \ {words}) :
            original' = [words |-> words, others |-> others]
      BY <1>1 DEF Encrypt!Begins
    <2>2. PICK others \in SUBSET (Shorts \ {words}) :
            original' = [words |-> words, others |-> others]
      BY <2>1
    <2>3. original' \in [words : Encrypt!Lengths, others : SUBSET Shorts]
          /\ original'.words \notin original'.others
      BY <2>2
    <2>4. QED
      BY <1>1, <2>3 DEF Encrypt!Begins
  <1>2. CASE Encrypt!Chooses
    BY <1>2 DEF Encrypt!Chooses
  <1>3. CASE Encrypt!Fails \/ Encrypt!Unchecked \/ Encrypt!Shows \/ Encrypt!Warns
    BY <1>3 DEF Encrypt!Fails, Encrypt!Unchecked, Encrypt!Shows, Encrypt!Warns
  <1>4. CASE Encrypt!Checks \/ Encrypt!CutOff \/ Encrypt!Unflags \/ Encrypt!Leaves
             \/ Encrypt!Keeps \/ Encrypt!Cancels
    BY <1>4 DEF Encrypt!Checks, Encrypt!CutOff, Encrypt!Unflags, Encrypt!Leaves, Encrypt!Keeps,
                Encrypt!Cancels
  <1>5. CASE Encrypt!GivesOut
    BY <1>5 DEF Encrypt!GivesOut, Encrypt!Card
  <1>6. CASE Encrypt!Reports
    <2>1. check # "passed" => "given" \notin told' /\ "card" \notin told' /\ "verified" \notin told'
      BY <1>6 DEF Encrypt!Reports, Encrypt!Reported
    <2>2. QED
      BY <1>6, <2>1 DEF Encrypt!Reports
  <1>7. QED
    BY <1>1, <1>2, <1>3, <1>4, <1>5, <1>6 DEF Encrypt!Next

LEMMA SealingKeepsAlarmed ==
  ASSUME SealingInv, Encrypt!Next
  PROVE  Alarmed' /\ Encrypt!NotReliedOnUnchecked'
  <1>0. /\ exit = "none" /\ CheckedFirst /\ Alarmed
        /\ \A word \in {"wrong", "not verified", "failure"} :
             word \in told' => told' \cap {"wrong", "not verified", "failure"} # {}
    BY DEF SealingInv, Encrypt!Next
  <1> USE DEF CheckedFirst, Unsealed, Alarmed, Encrypt!NotReliedOnUnchecked, Encrypt!subject,
              Encrypt!Ends
  <1>1. CASE Encrypt!Begins \/ Encrypt!Chooses \/ Encrypt!Fails \/ Encrypt!Unchecked
             \/ Encrypt!Shows \/ Encrypt!Warns \/ Encrypt!Checks \/ Encrypt!Unflags
    BY <1>0, <1>1
       DEF Encrypt!Begins, Encrypt!Chooses, Encrypt!Fails, Encrypt!Unchecked, Encrypt!Shows,
           Encrypt!Warns, Encrypt!Checks, Encrypt!Unflags, Encrypt!PersonReadsOutput
  <1>2. CASE Encrypt!CutOff
    BY <1>0, <1>2 DEF Encrypt!CutOff
  <1>6. CASE Encrypt!Leaves \/ Encrypt!Keeps 
    BY <1>0, <1>6 DEF Encrypt!Leaves, Encrypt!Keeps
  <1>7. CASE Encrypt!Cancels
    <2>1. CASE flagged
      BY <1>0, <1>7, <2>1 DEF Encrypt!Cancels
    <2>4. CASE ~flagged
      <3>1. told' = told /\ exit' = "cancelled" /\ UNCHANGED <<check, sealing>>
        BY <1>7, <2>4 DEF Encrypt!Cancels
      <3>2. "container" \in told => \/ sealing \in {"warning", "reporting"} \/ check = "passed"
                                   \/ "wrong" \in told \/ "not verified" \in told
        BY <1>0, <1>7, <2>4 DEF Encrypt!Cancels
      <3>3. QED
        BY <1>0, <3>1, <3>2
    <2>5. QED
      BY <2>1, <2>4
  <1>3. CASE Encrypt!GivesOut
    BY <1>0, <1>3 DEF Encrypt!GivesOut
  <1>4. CASE Encrypt!Reports
    BY <1>0, <1>4 DEF Encrypt!Reports, Encrypt!Reported
  <1>5. QED
    BY <1>1, <1>2, <1>3, <1>4, <1>6, <1>7 DEF Encrypt!Next

LEMMA SealingKeepsCard ==
  ASSUME SealingInv, Encrypt!Next
  PROVE  CardIsKept'
  <1>0. exit = "none" /\ CheckedFirst /\ CardIsKept
    BY DEF SealingInv, Encrypt!Next
  <1> USE DEF CheckedFirst, Unsealed, CardIsKept, Encrypt!subject, Encrypt!Ends
  <1>1. CASE Encrypt!Begins \/ Encrypt!Chooses \/ Encrypt!Fails \/ Encrypt!Unchecked
             \/ Encrypt!Shows \/ Encrypt!Warns \/ Encrypt!Checks \/ Encrypt!Unflags
    BY <1>0, <1>1
       DEF Encrypt!Begins, Encrypt!Chooses, Encrypt!Fails, Encrypt!Unchecked, Encrypt!Shows,
           Encrypt!Warns, Encrypt!Checks, Encrypt!Unflags, Encrypt!PersonReadsOutput
  <1>2. CASE Encrypt!CutOff \/ Encrypt!Leaves \/ Encrypt!Cancels
    BY <1>0, <1>2 DEF Encrypt!CutOff, Encrypt!Leaves, Encrypt!Cancels
  <1>3. CASE Encrypt!GivesOut
    BY <1>0, <1>3 DEF Encrypt!GivesOut, Encrypt!Card
  <1>4. CASE Encrypt!Reports
    BY <1>0, <1>4 DEF Encrypt!Reports, Encrypt!Reported, Encrypt!Card
  <1>5. CASE Encrypt!Keeps
    BY <1>0, <1>5 DEF Encrypt!Keeps, Encrypt!Keep, Encrypt!OtherLengths
  <1>6. QED
    BY <1>1, <1>2, <1>3, <1>4, <1>5 DEF Encrypt!Next

(* The lengths that pass in a recovery of the container name the original, *)
(* alone or with the count that was to be noted.                           *)
LEMMA NotedIsEnough ==
  ASSUME NEW words \in Encrypt!Lengths, NEW others \in SUBSET Shorts, words \notin others,
         NEW passing, passing = others \cup ({words} \cap Shorts)
  PROVE  /\ others = {} => Encrypt!ReadingsOf(Full, passing, Encrypt!Detect) = {words}
         /\ others # {} =>
              /\ words \in Encrypt!ReadingsOf(Full, passing, words)
              /\ Encrypt!Single(Encrypt!ReadingsOf(Full, passing, words)) \/ words = Full
              /\ Encrypt!ReadingsOf(Full, passing, Encrypt!Detect) # {words}
  <1>1. Encrypt!Detect \notin Shorts /\ Full \notin Shorts /\ Encrypt!Detect # Full
    BY LengthsAssumption DEF Encrypt!Detect
  <1>2. CASE words = Full
    <2>1. passing = others
      BY <1>1, <1>2
    <2>2. words \notin passing /\ Encrypt!Detect \notin passing
      BY <1>1, <1>2, <2>1
    <2>3. Encrypt!ReadingsOf(Full, passing, words) = passing \cup {Full}
      BY <1>1, <1>2, <2>2 DEF Encrypt!ReadingsOf
    <2>4. others = {} => ~Encrypt!Single(passing)
      BY <2>1 DEF Encrypt!Single
    <2>5. Encrypt!ReadingsOf(Full, passing, Encrypt!Detect) \in {passing, passing \cup {Full}}
          /\ (~Encrypt!Single(passing) => Encrypt!ReadingsOf(Full, passing, Encrypt!Detect) = passing \cup {Full})
      BY <1>1, <2>2 DEF Encrypt!ReadingsOf
    <2>6. others # {} => passing # {words} /\ passing \cup {Full} # {words}
      BY <1>1, <1>2, <2>1
    <2>7. QED
      BY <1>2, <2>1, <2>3, <2>4, <2>5, <2>6
  <1>3. CASE words # Full
    <2>1. words \in Shorts /\ passing = others \cup {words} /\ Encrypt!Detect \notin passing
      BY <1>1, <1>3 DEF Encrypt!Lengths
    <2>2. Encrypt!ReadingsOf(Full, passing, words) = {words}
      BY <2>1 DEF Encrypt!ReadingsOf
    <2>3. others = {} => Encrypt!Single(passing) /\ passing = {words}
      BY <2>1 DEF Encrypt!Single
    <2>4. others # {} => ~Encrypt!Single(passing)
      BY <2>1 DEF Encrypt!Single
    <2>5. /\ Encrypt!Single(passing) => Encrypt!ReadingsOf(Full, passing, Encrypt!Detect) = passing
          /\ ~Encrypt!Single(passing) => Encrypt!ReadingsOf(Full, passing, Encrypt!Detect) = passing \cup {Full}
      BY <1>1, <2>1 DEF Encrypt!ReadingsOf
    <2>6. QED
      BY <1>3, <2>1, <2>2, <2>3, <2>4, <2>5 DEF Encrypt!Single
  <1>4. QED
    BY <1>2, <1>3

LEMMA SealingInvIsEnough ==
  ASSUME SealingInv
  PROVE  Encrypt!SealedIsChecked
  <1> USE DEF SealingInv, CheckedFirst, CardIsKept
  <1>1. Encrypt!OnlyCheckedIsFinal
    BY DEF Encrypt!OnlyCheckedIsFinal
  <1>2. ASSUME exit = "success"
        PROVE  Encrypt!KeepIsEnough
    <2> DEFINE noted    == {words \in Encrypt!Lengths : <<"count", words>> \in keep}
               from     == IF noted = {} THEN Encrypt!Detect ELSE original.words
               readings == Encrypt!ReadingsOf(suite, Encrypt!Passing, from)
    <2>1. /\ sealing = "kept" /\ keep = Encrypt!Keep /\ check = "passed"
          /\ original.words \in Encrypt!Lengths /\ original.others \in SUBSET Shorts
          /\ original.words \notin original.others /\ suite \in {Full, original.words}
          /\ ("card" \in told <=> card = "made")
      BY <1>2
    <2>2. noted = IF Encrypt!OtherLengths # {} THEN {original.words} ELSE {}
      BY <2>1 DEF Encrypt!Keep
    <2>3. card = "made" <=> <<"repair words", suite>> \in keep
      BY <2>1 DEF Encrypt!Keep
    <2>4. CASE suite # Full
      <3>1. Encrypt!OtherLengths = {} /\ noted = {} /\ suite = original.words
        BY <2>1, <2>2, <2>4 DEF Encrypt!OtherLengths
      <3>2. Encrypt!ReadingsOf(suite, Encrypt!Passing, Encrypt!Detect) = {original.words}
        BY <2>4, <3>1 DEF Encrypt!ReadingsOf
      <3>3. readings = {original.words}
        BY <3>1, <3>2
      <3>4. QED
        BY <2>1, <2>3, <3>1, <3>2, <3>3 DEF Encrypt!KeepIsEnough, Encrypt!Single
    <2>5. CASE suite = Full
      <3>1. Encrypt!OtherLengths = original.others
            /\ Encrypt!Passing = original.others \cup ({original.words} \cap Shorts)
        BY <2>5 DEF Encrypt!OtherLengths, Encrypt!Passing
      <3>2. CASE original.others = {}
        <4>1. noted = {} /\ readings = {original.words}
              /\ Encrypt!ReadingsOf(suite, Encrypt!Passing, Encrypt!Detect) = {original.words}
          BY <2>1, <2>2, <2>5, <3>1, <3>2, NotedIsEnough
        <4>2. QED
          BY <2>1, <2>3, <4>1 DEF Encrypt!KeepIsEnough, Encrypt!Single
      <3>3. CASE original.others # {}
        <4>1. noted = {original.words} /\ from = original.words
          BY <2>2, <3>1, <3>3
        <4>2. /\ original.words \in readings /\ (Encrypt!Single(readings) \/ original.words = Full)
              /\ Encrypt!ReadingsOf(suite, Encrypt!Passing, Encrypt!Detect) # {original.words}
          BY <2>1, <2>5, <3>1, <3>3, <4>1, NotedIsEnough
        <4>3. QED
          BY <2>1, <2>3, <4>1, <4>2 DEF Encrypt!KeepIsEnough
      <3>4. QED
        BY <3>2, <3>3
    <2>6. QED
      BY <2>4, <2>5
  <1>3. QED
    BY <1>1, <1>2 DEF Encrypt!SealedIsChecked, Encrypt!KeepIsEnough

(* encrypt.rs, show_sealing, and operation.rs, Keep, for every set of      *)
(* lengths with a built-in check: only a container that turns back is      *)
(* final, one that was shown before its check is told as such unless a stop*)
(* falls right beside it, and what the owner is told to keep recovers the  *)
(* phrase and no other short one.                                          *)
THEOREM OnlyTheCheckedIsSealed == Spec => []SealedIsChecked
  <1> DEFINE Inv == command \in {"none", "encrypt"} => SealingInv
  <1>1. Init => Inv
    BY SealingBegins
  <1>2. Inv /\ [Next]_vars => Inv'
    <2>1. ASSUME SealingInv, UNCHANGED <<encryptVars, exit>>
          PROVE  SealingInv'
      <3>1. CheckedFirst'
        BY <2>1 DEF SealingInv, CheckedFirst, Unsealed, encryptVars
      <3>2. Alarmed' /\ Encrypt!NotReliedOnUnchecked'
        BY <2>1 DEF SealingInv, Alarmed, Encrypt!NotReliedOnUnchecked, encryptVars
      <3>3. CardIsKept'
        BY <2>1 DEF SealingInv, CardIsKept, Encrypt!Keep, Encrypt!OtherLengths, encryptVars
      <3>4. QED
        BY <3>1, <3>2, <3>3 DEF SealingInv
    <2>2. ASSUME SealingInv, Encrypt!Next
          PROVE  SealingInv'
      BY <2>2, SealingKeepsChecked, SealingKeepsAlarmed, SealingKeepsCard DEF SealingInv
    <2>3. QED
      BY <2>1, <2>2, OneCommandRuns
  <1>3. Inv => SealedIsChecked
    BY SealingInvIsEnough DEF SealedIsChecked
  <1>4. QED
    BY <1>1, <1>2, <1>3, PTL DEF Spec

-----------------------------------------------------------------------------
(* The settings of a command.                                              *)

(* A set of natural numbers has a least.                                   *)
Lesser == {pair \in Nat \X Nat : pair[1] < pair[2]}

LEMMA HasLeast ==
  ASSUME NEW T \in SUBSET Nat, T # {}
  PROVE  \E x \in T : \A y \in T : x <= y
  <1>1. IsWellFoundedOn(Lesser, Nat)
    BY NatLessThanWellFounded DEF OpToRel, Lesser
  <1>2. PICK x \in T : \A y \in T : ~(<<y, x>> \in Lesser)
    BY <1>1, WFMin
  <1>3. ASSUME NEW y \in T
        PROVE  x <= y
    <2>1. x \in Nat /\ y \in Nat
      OBVIOUS
    <2>2. ~(y < x)
      BY <1>2, <2>1 DEF Lesser
    <2>3. QED
      BY <2>1, <2>2
  <1>4. QED
    BY <1>3

LEMMA LeastIsLeast ==
  ASSUME NEW numbers, numbers \subseteq Nat \cup {Settle!Nothing}
  PROVE  /\ Settle!Least(numbers) \in Nat \cup {Settle!Nothing}
         /\ \A n \in numbers \ {Settle!Nothing} :
              Settle!Least(numbers) # Settle!Nothing /\ Settle!Least(numbers) <= n
  <1>1. CASE numbers \ {Settle!Nothing} = {}
    BY <1>1 DEF Settle!Least
  <1>2. CASE numbers \ {Settle!Nothing} # {}
    <2>1. numbers \ {Settle!Nothing} \in SUBSET Nat
      OBVIOUS
    <2>2. \E x \in numbers \ {Settle!Nothing} : \A y \in numbers \ {Settle!Nothing} : x <= y
      BY <1>2, <2>1, HasLeast
    <2>3. /\ Settle!Least(numbers) \in numbers \ {Settle!Nothing}
          /\ \A y \in numbers \ {Settle!Nothing} : Settle!Least(numbers) <= y
      BY <1>2, <2>2 DEF Settle!Least, Settle!Min
    <2>4. QED
      BY <2>1, <2>3
  <1>3. QED
    BY <1>1, <1>2

LEMMA TheNearerIsTheGreater ==
  ASSUME NEW top \in Nat, NEW l \in Nat, NEW k \in Nat, top - l <= top - k
  PROVE  l >= k
  OBVIOUS

LEMMA GreatestIsOfThem ==
  ASSUME NEW levelsThatFit \in SUBSET (0..MaxLevel), levelsThatFit # {}
  PROVE  Settle!Max(levelsThatFit) \in levelsThatFit
  <1>0. MaxLevel \in Nat
    BY BoundsAssumption
  <1> DEFINE distances == {MaxLevel - l : l \in levelsThatFit}
  <1>a. \A k \in levelsThatFit : k \in Nat /\ k <= MaxLevel /\ MaxLevel - k \in Nat
    BY <1>0
  <1>1. distances \in SUBSET Nat /\ distances # {}
    BY <1>a
  <1>2. PICK d \in distances : \A e \in distances : d <= e
    BY <1>1, HasLeast
  <1>3. PICK l \in levelsThatFit : d = MaxLevel - l
    OBVIOUS
  <1>4. ASSUME NEW k \in levelsThatFit
        PROVE  l >= k
    <2>1. MaxLevel - k \in distances
      OBVIOUS
    <2>2. MaxLevel - l <= MaxLevel - k
      BY <1>2, <1>3, <2>1
    <2>3. l \in Nat /\ k \in Nat
      BY <1>a
    <2>4. QED
      BY <1>0, <2>2, <2>3, TheNearerIsTheGreater
  <1>5. QED
    BY <1>4 DEF Settle!Max

LEMMA FiguresAreNumbers ==
  ASSUME NEW f \in Settle!Figures
  PROVE  /\ f.computer \in Nat \cup {Settle!Nothing}
         /\ Len(f.groups) \in Nat /\ DOMAIN f.groups = 1..Len(f.groups)
         /\ \A i \in DOMAIN f.groups :
              /\ f.groups[i].limit \in Nat \cup {Settle!Nothing}
              /\ f.groups[i].usage \in Nat \cup {Settle!Nothing}
              /\ f.groups[i].cache \in Nat
  BY DEF Settle!Figures, Settle!Group

(* What the computer and each group with a limit have left holds what the  *)
(* check lets run.                                                         *)
LEMMA WhatRunsIsHeld ==
  ASSUME NEW f \in Settle!Figures, NEW l \in 0..MaxLevel,
         Settle!Available(f) # Settle!Nothing => Settle!Bytes(l) <= Settle!Available(f)
  PROVE  Settle!Holds(f, Settle!Bytes(l))
  <1> DEFINE bytes == Settle!Bytes(l)
             rooms == {Settle!Room(f, i) : i \in DOMAIN f.groups}
  <1>0. bytes \in Nat \ {0} /\ Settle!Nothing = -1
    BY DEF Settle!Bytes, Settle!Nothing
  <1>1. /\ f.computer \in Nat \cup {Settle!Nothing}
        /\ Len(f.groups) \in Nat /\ DOMAIN f.groups = 1..Len(f.groups)
        /\ \A i \in DOMAIN f.groups :
             /\ f.groups[i].limit \in Nat \cup {Settle!Nothing}
             /\ f.groups[i].usage \in Nat \cup {Settle!Nothing}
             /\ f.groups[i].cache \in Nat
    BY FiguresAreNumbers
  <1>2. ASSUME NEW i \in DOMAIN f.groups
        PROVE  /\ Settle!LimitOf(f, i) \in Nat \cup {Settle!Nothing}
               /\ f.groups[i].limit # Settle!Nothing =>
                    /\ Settle!LimitOf(f, i) # Settle!Nothing
                    /\ Settle!LimitOf(f, i) <= f.groups[i].limit
    <2> DEFINE limits == {f.groups[k].limit : k \in i..Len(f.groups)}
    <2>1. limits \subseteq Nat \cup {Settle!Nothing} /\ f.groups[i].limit \in limits
      BY <1>1
    <2>2. /\ Settle!Least(limits) \in Nat \cup {Settle!Nothing}
          /\ f.groups[i].limit # Settle!Nothing =>
               Settle!Least(limits) # Settle!Nothing /\ Settle!Least(limits) <= f.groups[i].limit
      BY <2>1, LeastIsLeast
    <2>3. Settle!LimitOf(f, i) = IF f.version = "v2" THEN f.groups[i].limit ELSE Settle!Least(limits)
      BY DEF Settle!LimitOf
    <2>4. QED
      BY <1>1, <2>2, <2>3
  <1>3. ASSUME NEW i \in DOMAIN f.groups
        PROVE  /\ Settle!Room(f, i) \in Nat \cup {Settle!Nothing}
               /\ f.groups[i].limit # Settle!Nothing /\ f.groups[i].usage # Settle!Nothing =>
                    /\ Settle!Room(f, i) # Settle!Nothing
                    /\ bytes <= Settle!Room(f, i) =>
                         bytes + f.groups[i].usage - f.groups[i].cache <= f.groups[i].limit
    <2> DEFINE limit == Settle!LimitOf(f, i)
               usage == IF f.groups[i].usage = Settle!Nothing THEN limit ELSE f.groups[i].usage
               cache == f.groups[i].cache
    <2>1. Settle!Room(f, i) = IF limit = Settle!Nothing THEN Settle!Nothing
                              ELSE Settle!RoomLeft(limit, usage, cache)
      BY DEF Settle!Room
    <2>2. CASE limit = Settle!Nothing
      BY <1>2, <2>1, <2>2
    <2>3. CASE limit # Settle!Nothing
      <3>1. limit \in Nat /\ usage \in Nat /\ cache \in Nat
        BY <1>1, <1>2, <2>3
      <3> HIDE DEF limit, usage, cache
      <3>2. /\ Settle!RoomLeft(limit, usage, cache) \in Nat
            /\ bytes <= Settle!RoomLeft(limit, usage, cache) => bytes + usage - cache <= limit
        BY <1>0, <3>1 DEF Settle!RoomLeft, Settle!Saturating
      <3>3. QED
        BY <1>0, <1>1, <1>2, <2>1, <2>3, <3>1, <3>2 DEF limit, usage, cache
    <2>4. QED
      BY <2>2, <2>3
  <1>4. rooms \subseteq Nat \cup {Settle!Nothing}
    BY <1>3
  <1>5. /\ Settle!SmallestRoom(f) \in Nat \cup {Settle!Nothing}
        /\ \A i \in DOMAIN f.groups : Settle!Room(f, i) # Settle!Nothing =>
             Settle!SmallestRoom(f) # Settle!Nothing /\ Settle!SmallestRoom(f) <= Settle!Room(f, i)
    <2>1. Settle!SmallestRoom(f) = Settle!Least(rooms)
      BY DEF Settle!SmallestRoom
    <2>2. QED
      BY <1>4, <2>1, LeastIsLeast
  <1>6. /\ Settle!Available(f) \in Nat \cup {Settle!Nothing}
        /\ \A n \in {f.computer, Settle!SmallestRoom(f)} : n # Settle!Nothing =>
             Settle!Available(f) # Settle!Nothing /\ Settle!Available(f) <= n
    <2>1. {f.computer, Settle!SmallestRoom(f)} \subseteq Nat \cup {Settle!Nothing}
      BY <1>1, <1>5
    <2>2. QED
      BY <2>1, LeastIsLeast DEF Settle!Available
  <1>7. ASSUME NEW n \in Nat, n \in {f.computer, Settle!SmallestRoom(f)}
        PROVE  bytes <= n
    <2>1. Settle!Available(f) \in Nat /\ Settle!Available(f) <= n /\ bytes <= Settle!Available(f)
      BY <1>0, <1>6, <1>7
    <2>2. QED
      BY <1>0, <2>1
  <1>8. ASSUME NEW i \in DOMAIN f.groups, Settle!Room(f, i) # Settle!Nothing
        PROVE  bytes <= Settle!Room(f, i)
    <2>1. /\ Settle!SmallestRoom(f) \in Nat /\ Settle!Room(f, i) \in Nat
          /\ Settle!SmallestRoom(f) <= Settle!Room(f, i)
      BY <1>3, <1>5, <1>8
    <2>2. bytes <= Settle!SmallestRoom(f)
      BY <1>7, <2>1
    <2>3. QED
      BY <1>0, <2>1, <2>2
  <1>9. f.computer # Settle!Nothing => bytes <= f.computer
    BY <1>1, <1>7
  <1>10. ASSUME NEW i \in DOMAIN f.groups,
                f.groups[i].limit # Settle!Nothing, f.groups[i].usage # Settle!Nothing
         PROVE  bytes + f.groups[i].usage - f.groups[i].cache <= f.groups[i].limit
    BY <1>3, <1>8, <1>10
  <1>11. QED
    BY <1>9, <1>10 DEF Settle!Holds

LEMMA WhatCanRunIsHeld ==
  ASSUME NEW f \in Settle!Figures, NEW l \in 0..MaxLevel, Settle!CanRun(f, l)
  PROVE  Settle!Holds(f, Settle!Bytes(l))
  BY WhatRunsIsHeld DEF Settle!CanRun

LEMMA HintCanRun ==
  ASSUME NEW f \in Settle!Figures, Settle!HighestAvailable(f) # Settle!Nothing
  PROVE  Settle!Holds(f, Settle!Bytes(Settle!HighestAvailable(f)))
  <1> DEFINE fits == {l \in 0..MaxLevel : Settle!Bytes(l) <= Settle!Available(f)}
  <1>1. /\ Settle!Available(f) # Settle!Nothing /\ fits # {}
        /\ Settle!HighestAvailable(f) = Settle!Max(fits)
    BY DEF Settle!HighestAvailable
  <1>2. Settle!Max(fits) \in fits
    BY <1>1, GreatestIsOfThem
  <1>3. QED
    BY <1>1, <1>2, WhatRunsIsHeld

(* Each step up to the work holds the memory, and a refusal names what the *)
(* computer can hold.                                                      *)
SettingsInv ==
  /\ level \in 0..MaxLevel /\ locked \in BOOLEAN
  /\ way \in [person : BOOLEAN, given : BOOLEAN, steps : BOOLEAN, windows : BOOLEAN]
  /\ settle \in {"begin", "choose", "checked", "secrets", "reserve", "disk", "runs", "ended"}
  /\ settle # "ended" => hint = Settle!Nothing /\ exit = "none"
  /\ settle = "runs" /\ way.windows /\ ~locked => went_on
  /\ Settle!NothingForLackOfMemory /\ Settle!UnlockedIsChosen

LEMMA SettingsBegin == ASSUME Init PROVE SettingsInv
  <1>1. 0 \in 0..MaxLevel
    BY BoundsAssumption
  <1>2. Settle!Init
    BY DEF Init
  <1>3. QED
    BY <1>1, <1>2
       DEF Settle!Init, SettingsInv, Settle!NothingForLackOfMemory, Settle!UnlockedIsChosen

LEMMA SettingsStepsHold ==
  ASSUME SettingsInv, Settle!Next
  PROVE  SettingsInv'
  <1> USE DEF SettingsInv, Settle!NothingForLackOfMemory, Settle!UnlockedIsChosen
  <1>0. MaxLevel \in Nat
    BY BoundsAssumption
  <1>1. CASE Settle!Begins
    <2>1. level' \in 0..MaxLevel
      BY <1>0, <1>1 DEF Settle!Begins
    <2>2. QED
      BY <1>1, <2>1 DEF Settle!Begins
  <1>2. CASE Settle!AsksOwn \/ Settle!Keeps \/ Settle!ReadsSecrets
    BY <1>2 DEF Settle!AsksOwn, Settle!Keeps, Settle!ReadsSecrets
  <1>3. ASSUME Settle!ChecksResources \/ Settle!Reserves, ~(\E lack \in BOOLEAN : Settle!Refused(lack))
        PROVE  SettingsInv'
    <2>1. PICK f \in Settle!Figures : Settle!CanRun(f, level) /\ memory' = f
      BY <1>3 DEF Settle!ChecksResources, Settle!Reserves
    <2>2. Settle!Holds(memory', Settle!Bytes(level'))
      BY <1>3, <2>1, WhatCanRunIsHeld DEF Settle!ChecksResources, Settle!Reserves
    <2>3. QED
      BY <1>3, <2>2 DEF Settle!ChecksResources, Settle!Reserves
  <1>4. ASSUME Settle!ChecksResources \/ Settle!Reserves, NEW lack \in BOOLEAN, Settle!Refused(lack)
        PROVE  SettingsInv'
    <2>1. hint' # Settle!Nothing => Settle!Holds(memory', Settle!Bytes(hint'))
      BY <1>4, HintCanRun DEF Settle!Refused
    <2>2. QED
      BY <1>4, <2>1 DEF Settle!Refused, Settle!ChecksResources, Settle!Reserves
  <1>5. CASE Settle!WarnsOfDisk \/ Settle!AnswersDisk \/ Settle!Runs
    BY <1>5 DEF Settle!WarnsOfDisk, Settle!AnswersDisk, Settle!Runs
  <1>6. QED
    BY <1>1, <1>2, <1>3, <1>4, <1>5 DEF Settle!Next

(* settings.rs, cgroup.rs, for every level and whatever the figures are at *)
(* the moment they are read: a command asks for its secrets and takes its  *)
(* memory only where that moment's figures hold it, a refusal names a level*)
(* they hold, and unlocked memory on Windows is used only as chosen.       *)
THEOREM MemoryIsHeld == Spec => []MemoryIsThere
  <1> DEFINE Inv == command \in {"none", "settings"} => SettingsInv
  <1>1. Init => Inv
    BY SettingsBegin
  <1>2. Inv /\ [Next]_vars => Inv'
    <2>1. ASSUME SettingsInv, UNCHANGED <<settingsVars, exit>>
          PROVE  SettingsInv'
      BY <2>1 DEF SettingsInv, settingsVars, Settle!NothingForLackOfMemory, Settle!UnlockedIsChosen
    <2>2. QED
      BY <2>1, SettingsStepsHold, OneCommandRuns
  <1>3. Inv => MemoryIsThere
    BY DEF SettingsInv, MemoryIsThere, Settle!MemoryIsThere
  <1>4. QED
    BY <1>1, <1>2, <1>3, PTL DEF Spec

-----------------------------------------------------------------------------
(* A container phrase is read.                                             *)

(* What a command asks, where its answers come to, and what was found      *)
(* there.  The offer leads only to searches that run.                      *)
AsksAre ==
  /\ read \in {"begin", "container", "wants repair", "card", "search", "known", "comparing",
               "starts", "searching", "use", "read", "taken"}
  /\ read # "begin" =>
       asks \in [command : {"repair"}, script : BOOLEAN, card : {"Always"}]
                  \cup [command : {"repair-words"}, script : BOOLEAN, card : {"Never"}]
                  \cup [command : {"uses"}, script : BOOLEAN, card : {"Always", "WhenNeeded"}]

SearchRuns ==
  /\ read \in {"starts", "searching"} => ~Container!Refuses
  /\ exit # "refused"

(* What the next step uses was typed, or seen since it was typed; the card *)
(* of a repair changed a word, found none to change, or could not read it. *)
ReviewIsSeen ==
  read \in {"use", "read", "taken"} =>
    /\ reviewed.words # Container!AsTyped(written).words => seen = reviewed.words
    /\ reviewed.password \in {"none", reviewed.words}
    /\ asks.command = "repair" /\ reviewed.repaired = "none" =>
         agreed \/ reviewed.words = "invalid"
    /\ read = "taken" => reviewed.words \in Container!Containers

ContainerInv == AsksAre /\ SearchRuns /\ ReviewIsSeen

LEMMA ContainerBegins == ASSUME Init PROVE ContainerInv
  BY DEF Init, Container!Init, ContainerInv, AsksAre, SearchRuns, ReviewIsSeen

(* repair always asks for the card of a phrase of some length.             *)
LEMMA TypesKeeps ==
  ASSUME ContainerInv, Container!Types
  PROVE  ContainerInv'
  <1> USE DEF ContainerInv
  <1>1. AsksAre' /\ SearchRuns'
    BY DEF Container!Types, AsksAre, SearchRuns
  <1>2. ASSUME ~Container!AsksCard(written')
        PROVE  ReviewIsSeen'
    <2>1. read' = "read" /\ reviewed' = Container!AsTyped(written') /\ UNCHANGED asks
      BY <1>2 DEF Container!Types
    <2>2. asks.command = "repair" => Container!Reading(written') = "WrongLength"
      BY <1>2 DEF Container!AsksCard, AsksAre, Container!Types
    <2>3. Container!Reading(written') = "WrongLength" => reviewed'.words = "invalid"
      BY <2>1 DEF Container!AsTyped
    <2>4. reviewed'.password = "none"
      BY <2>1 DEF Container!AsTyped
    <2>5. QED
      BY <2>1, <2>2, <2>3, <2>4 DEF ReviewIsSeen
  <1>3. ASSUME Container!AsksCard(written')
        PROVE  ReviewIsSeen'
    BY <1>3 DEF Container!Types, ReviewIsSeen
  <1>4. QED
    BY <1>1, <1>2, <1>3

LEMMA TypesCardKeeps ==
  ASSUME ContainerInv, Container!TypesCard
  PROVE  ContainerInv'
  <1> USE DEF ContainerInv
  <1>1. PICK repair \in Container!Repairs(written) :
          /\ agreed' = ~repair.changed
          /\ reviewed' = IF repair.changed THEN Container!Repaired(repair.words)
                         ELSE Container!AsTyped(written)
          /\ seen' = IF repair.changed THEN repair.words ELSE seen
          /\ read' = IF repair.changed /\ ~asks.script THEN "use" ELSE "read"
    BY DEF Container!TypesCard
  <1>2. UNCHANGED <<asks, written, known, exit>> /\ repair.changed \in BOOLEAN
    BY DEF Container!TypesCard, Container!Repairs
  <1>3. AsksAre' /\ SearchRuns'
    BY <1>1, <1>2 DEF AsksAre, SearchRuns, Container!TypesCard
  <1>4. read' \in {"use", "read"} /\ UNCHANGED Container!AsTyped(written)
    BY <1>1, <1>2 DEF Container!AsTyped, Container!Reading, Container!Containers
  <1>5. CASE repair.changed
    <2>1. reviewed'.words = seen' /\ reviewed'.repaired = "card" /\ reviewed'.password = "none"
      BY <1>1, <1>5 DEF Container!Repaired
    <2>2. QED
      BY <1>3, <1>4, <2>1 DEF ReviewIsSeen
  <1>6. CASE ~repair.changed
    <2>1. /\ reviewed' = Container!AsTyped(written)' /\ reviewed'.password = "none"
          /\ agreed'
      BY <1>1, <1>2, <1>4, <1>6 DEF Container!AsTyped
    <2>2. QED
      BY <1>3, <1>4, <2>1 DEF ReviewIsSeen
  <1>7. QED
    BY <1>2, <1>3, <1>5, <1>6

(* What a search finds is shown before it is used.                         *)
LEMMA FindingKeeps ==
  ASSUME ContainerInv, UNCHANGED <<asks, written, agreed>>, read # "begin",
         NEW how \in {"decoy", "recoveries"}, NEW password \in BOOLEAN,
         Container!Found(how, password)
  PROVE  ContainerInv'
  <1>1. PICK words \in Container!Containers :
          /\ reviewed' = [words |-> words, repaired |-> how,
                          password |-> IF password THEN words ELSE "none"]
          /\ seen' = words /\ read' = "use" /\ UNCHANGED <<exit, known>>
    BY DEF Container!Found
  <1>2. QED
    BY <1>1 DEF ContainerInv, AsksAre, SearchRuns, ReviewIsSeen

LEMMA SearchingKeeps ==
  ASSUME ContainerInv,
         Container!CompareWithDecoy \/ Container!StartsLongSearch \/ Container!SearchByRecoveries
  PROVE  ContainerInv'
  <1>1. CASE Container!Found("decoy", FALSE) \/ Container!Found("recoveries", TRUE)
    BY <1>1, FindingKeeps
       DEF Container!CompareWithDecoy, Container!StartsLongSearch, Container!SearchByRecoveries
  <1>2. CASE Container!AskAgain
    BY <1>2 DEF Container!CompareWithDecoy, Container!StartsLongSearch,
         Container!SearchByRecoveries, Container!AskAgain,
         ContainerInv, AsksAre, SearchRuns, ReviewIsSeen
  <1>3. CASE Container!StartsLongSearch /\ read' = "searching" /\ UNCHANGED <<reviewed, seen, exit, known>>
    BY <1>3 DEF Container!StartsLongSearch, ContainerInv, AsksAre, SearchRuns, ReviewIsSeen,
         Container!Refuses, Container!OffersWalletSearch, Container!CarriesOwnChecks
  <1>4. CASE Container!SearchByRecoveries /\ UNCHANGED <<read, known, reviewed, seen>>
    <2>1. exit' = "failure"
      BY <1>4 DEF Container!SearchByRecoveries, ContainerInv, SearchRuns,
           Container!Found, Container!AskAgain
    <2>2. QED
      BY <1>4, <2>1 DEF Container!SearchByRecoveries, ContainerInv, AsksAre, SearchRuns,
           ReviewIsSeen, Container!Refuses, Container!OffersWalletSearch, Container!CarriesOwnChecks
  <1>5. QED
    BY <1>1, <1>2, <1>3, <1>4
       DEF Container!CompareWithDecoy, Container!StartsLongSearch, Container!SearchByRecoveries,
           ContainerInv, SearchRuns

LEMMA AskingKeeps ==
  ASSUME ContainerInv, Container!AskWhatIsKnown
  PROVE  ContainerInv'
  <1>1. PICK answer_ \in Container!Offered :
          /\ known' = IF answer_ = "type again" THEN "none" ELSE answer_
          /\ read' = CASE answer_ = "type again"       -> "container"
                       [] answer_ = "container wallet" -> "comparing"
                       [] OTHER                        -> "starts"
    BY DEF Container!AskWhatIsKnown
  <1>2. UNCHANGED <<asks, written, reviewed, seen, agreed, exit>> /\ read = "known"
    BY DEF Container!AskWhatIsKnown
  <1>3. AsksAre' /\ ReviewIsSeen'
    BY <1>1, <1>2 DEF ContainerInv, AsksAre, ReviewIsSeen
  <1>4. SearchRuns'
    BY <1>1, <1>2 DEF ContainerInv, SearchRuns, Container!Offered, Container!Refuses,
         Container!OffersWalletSearch, Container!CarriesOwnChecks
  <1>5. QED
    BY <1>3, <1>4 DEF ContainerInv

LEMMA ContainerStepsKeep ==
  ASSUME ContainerInv, Container!Next
  PROVE  ContainerInv'
  <1>1. CASE Container!Begins
    BY <1>1 DEF Container!Begins, ContainerInv, AsksAre, SearchRuns, ReviewIsSeen
  <1>2. CASE Container!WantsRepair \/ Container!NoCard \/ Container!CardRefused \/ Container!Search
    BY <1>2 DEF Container!WantsRepair, Container!NoCard, Container!CardRefused,
         Container!Search, Container!AgainAt, ContainerInv, AsksAre, SearchRuns, ReviewIsSeen
  <1>3. CASE Container!Uses \/ Container!Reads
    BY <1>3 DEF Container!Uses, Container!Reads, Container!AgainAt, ContainerInv, AsksAre,
         SearchRuns, ReviewIsSeen
  <1>4. CASE Container!Ends \/ Container!Cancels
    BY <1>4 DEF Container!Ends, Container!Cancels, ContainerInv, AsksAre, SearchRuns,
         ReviewIsSeen, Container!Refuses, Container!OffersWalletSearch, Container!CarriesOwnChecks
  <1>5. QED
    BY <1>1, <1>2, <1>3, <1>4, TypesKeeps, TypesCardKeeps, AskingKeeps, SearchingKeeps
       DEF Container!Next

(* terminal.rs, container_repair.rs and container_search.rs: what a        *)
(* command goes on with was typed, or seen by the person since; a password *)
(* that comes with it was typed for it; a search that is offered runs; and *)
(* mhfe repair ends quietly only where the card agreed.                    *)
THEOREM ContainerIsSeen == Spec => []ContainerIsTheirs
  <1> DEFINE Inv == command \in {"none", "container"} => ContainerInv
  <1>1. Init => Inv
    BY ContainerBegins
  <1>2. Inv /\ [Next]_vars => Inv'
    <2>1. ASSUME ContainerInv, UNCHANGED <<containerVars, exit>>
          PROVE  ContainerInv'
      <3>1. AsksAre'
        BY <2>1 DEF ContainerInv, AsksAre, containerVars
      <3>2. SearchRuns'
        BY <2>1 DEF ContainerInv, SearchRuns, containerVars,
             Container!Refuses, Container!OffersWalletSearch, Container!CarriesOwnChecks
      <3>3. ReviewIsSeen'
        BY <2>1 DEF ContainerInv, ReviewIsSeen, containerVars
      <3>4. QED
        BY <3>1, <3>2, <3>3 DEF ContainerInv
    <2>2. QED
      BY <2>1, ContainerStepsKeep, OneCommandRuns
  <1>3. Inv => ContainerIsTheirs
    <2>1. "invalid" \notin Container!Containers
      BY DEF Container!Containers
    <2>2. QED
      BY <2>1 DEF ContainerInv, AsksAre, SearchRuns, ReviewIsSeen, ContainerIsTheirs,
           Container!ContainerIsTheirs, Container!UsedAsSeen, Container!OfferedIsSearched,
           Container!RepairIsShown
  <1>4. QED
    BY <1>1, <1>2, <1>3, PTL DEF Spec

-----------------------------------------------------------------------------
(* serve.                                                                  *)

Turns == {"taken", "placed", "over", "unspawned", "listening"}

(* A client has an answer only once its request was read, and nobody is    *)
(* there before the page was checked.                                      *)
ClientsAre ==
  /\ client \in [Clients -> {"away", "waiting", "taken", "reading", "answering", "answered",
                             "closed"}]
  /\ request \in [Clients -> Server!Requests \cup {"none"}]
  /\ answer \in [Clients -> Server!Pages \cup {"none", "400", "403", "404 or 405", "head"}]
  /\ serve \in {"begin", "checking"} \cup Turns
  /\ page \in [bytes : Server!Pages \cup {"none"}, expected : Server!Pages \cup {"none"}]
  /\ disk \in [digest : Server!Pages \cup {"none"}, page : Server!Pages]
  /\ serve \in {"begin", "checking"} => \A c \in Clients : client[c] = "away"
  /\ \A c \in Clients :
       /\ client[c] \notin {"answered", "closed"} => answer[c] = "none"
       /\ client[c] = "answering" => request[c] \in Server!Requests

PageIsChecked ==
  /\ serve \in Turns => page.bytes = page.expected
  /\ Server!OnlyTheCheckedPage

(* A connection that is placed has a place.                                *)
PlacesAre ==
  /\ active = Cardinality(Server!Held) + (IF serve \in {"over", "placed", "unspawned"} THEN 1 ELSE 0)
  /\ Cardinality(Server!Held) <= MaxConnections
  /\ serve = "placed" => Cardinality(Server!Held) < MaxConnections

ServeInv == ClientsAre /\ PageIsChecked /\ PlacesAre

LEMMA ServersCount ==
  ASSUME NEW S
  PROVE  Server!Cardinality(S) = Cardinality(S)
  BY DEF Server!Cardinality, Cardinality

LEMMA HeldIsFinite ==
  IsFiniteSet(Server!Held) /\ Cardinality(Server!Held) \in Nat
  <1>1. Server!Held \subseteq Clients /\ IsFiniteSet(Clients)
    BY BoundsAssumption DEF Server!Held
  <1>2. QED
    BY <1>1, FS_Subset, FS_CardinalityType

LEMMA ServeBegins == ASSUME Init PROVE ServeInv
  <1>1. Server!Init
    BY DEF Init
  <1>2. ClientsAre /\ PageIsChecked
    BY <1>1 DEF Server!Init, ClientsAre, PageIsChecked, Server!OnlyTheCheckedPage, Turns,
         Server!Pages
  <1>3. Server!Held = {} /\ Cardinality({}) = 0
    BY <1>1, FS_EmptySet DEF Server!Init, Server!Held
  <1>4. PlacesAre
    BY <1>1, <1>3, BoundsAssumption DEF Server!Init, PlacesAre
  <1>5. QED
    BY <1>2, <1>4 DEF ServeInv

(* One step moves one client.                                              *)
LEMMA ClientsMove ==
  ASSUME ClientsAre, NEW c \in Clients,
         NEW place \in {"away", "waiting", "taken", "reading", "answering", "answered", "closed"},
         client' = [client EXCEPT ![c] = place]
  PROVE  /\ c \notin Server!Held /\ place \notin {"reading", "answering", "answered"} =>
              Server!Held' = Server!Held
         /\ c \in Server!Held /\ place \in {"reading", "answering", "answered"} =>
              Server!Held' = Server!Held
         /\ c \notin Server!Held /\ place \in {"reading", "answering", "answered"} =>
              Cardinality(Server!Held') = Cardinality(Server!Held) + 1
         /\ c \in Server!Held /\ place \notin {"reading", "answering", "answered"} =>
              Cardinality(Server!Held') = Cardinality(Server!Held) - 1
  <1>1. \A other \in Clients : client'[other] = IF other = c THEN place ELSE client[other]
    BY DEF ClientsAre
  <1>2. Server!Held' = IF place \in {"reading", "answering", "answered"}
                       THEN Server!Held \cup {c} ELSE Server!Held \ {c}
    BY <1>1 DEF Server!Held
  <1>3. IsFiniteSet(Server!Held)
    BY HeldIsFinite
  <1>4. CASE place \in {"reading", "answering", "answered"}
    <2>1. Server!Held' = Server!Held \cup {c}
      BY <1>2, <1>4
    <2>2. Cardinality(Server!Held \cup {c}) = IF c \in Server!Held THEN Cardinality(Server!Held)
                                             ELSE Cardinality(Server!Held) + 1
      BY <1>3, FS_AddElement
    <2>3. QED
      BY <1>4, <2>1, <2>2
  <1>5. CASE place \notin {"reading", "answering", "answered"}
    <2>1. Server!Held' = Server!Held \ {c}
      BY <1>2, <1>5
    <2>2. Cardinality(Server!Held \ {c}) = IF c \in Server!Held THEN Cardinality(Server!Held) - 1
                                           ELSE Cardinality(Server!Held)
      BY <1>3, FS_RemoveElement
    <2>3. QED
      BY <1>5, <2>1, <2>2
  <1>6. QED
    BY <1>4, <1>5

(* One that has no answer yet goes to a place that is not the answering.   *)
LEMMA ClientMoves ==
  ASSUME ClientsAre, NEW c \in Clients, NEW place,
         place \in {"waiting", "taken", "reading", "closed"},
         client[c] \in {"away", "waiting", "taken"},
         client' \in [Clients -> {"away", "waiting", "taken", "reading", "answering", "answered",
                                 "closed"}],
         \A other \in Clients : client'[other] = IF other = c THEN place ELSE client[other],
         serve' \in Turns, UNCHANGED <<disk, page, request, answer>>
  PROVE  ClientsAre'
  <1>1. serve' \notin {"begin", "checking"}
    BY DEF Turns
  <1>2. ASSUME NEW other \in Clients
        PROVE  /\ client'[other] \notin {"answered", "closed"} => answer'[other] = "none"
               /\ client'[other] = "answering" => request'[other] \in Server!Requests
    BY DEF ClientsAre
  <1>3. QED
    BY <1>1, <1>2 DEF ClientsAre

LEMMA ServeKeepsClients ==
  ASSUME ServeInv, Server!Next
  PROVE  ClientsAre'
  <1> USE DEF ServeInv
  <1>1. CASE Server!ReadChecksumFile
    BY <1>1 DEF ClientsAre, Turns, Server!ReadChecksumFile, Server!network
  <1>2. CASE Server!FilesChange
    BY <1>2 DEF ClientsAre, Turns, Server!FilesChange, Server!network
  <1>3. CASE Server!LoadCheckedPage
    BY <1>3 DEF ClientsAre, Turns, Server!LoadCheckedPage, Server!network
  <1>4. ASSUME NEW c \in Clients, Server!Connects(c)
        PROVE  ClientsAre'
    <2>1. \A other \in Clients : client'[other] = IF other = c THEN "waiting" ELSE client[other]
      BY <1>4 DEF ClientsAre, Server!Connects
    <2>2. client' \in [Clients -> {"away", "waiting", "taken", "reading", "answering", "answered",
                                  "closed"}]
      BY <1>4 DEF ClientsAre, Server!Connects
    <2>3. serve \in Turns /\ UNCHANGED <<serve, disk, page, request, answer>>
      BY <1>4 DEF ClientsAre, Server!Connects, Server!files
    <2>4. client[c] = "away"
      BY <1>4 DEF Server!Connects
    <2>5. QED
      BY <2>1, <2>2, <2>3, <2>4, ClientMoves
  <1>5. ASSUME NEW c \in Clients, Server!Accept(c)
        PROVE  ClientsAre'
    <2>1. \A other \in Clients : client'[other] = IF other = c THEN "taken" ELSE client[other]
      BY <1>5 DEF ClientsAre, Server!Accept
    <2>2. client' \in [Clients -> {"away", "waiting", "taken", "reading", "answering", "answered",
                                  "closed"}]
      BY <1>5 DEF ClientsAre, Server!Accept
    <2>3. serve' \in Turns
      BY <1>5 DEF Server!Accept, Turns
    <2>4. client[c] = "waiting" /\ UNCHANGED <<disk, page, request, answer>>
      BY <1>5 DEF Server!Accept, Server!files
    <2>5. QED
      BY <2>1, <2>2, <2>3, <2>4, ClientMoves
  <1>6. CASE Server!CountUp \/ Server!Unspawned
    <2>1. serve' \in Turns /\ UNCHANGED <<disk, page, client, request, answer>>
      BY <1>6 DEF Turns, Server!CountUp, Server!Unspawned, Server!files
    <2>2. QED
      BY <2>1 DEF ClientsAre, Turns
  <1>7. CASE Server!TurnAway \/ Server!Spawn
    <2>1. PICK c \in Server!Taken, place \in {"closed", "reading"} :
            client' = [client EXCEPT ![c] = place]
      BY <1>7 DEF Server!TurnAway, Server!Spawn, Server!Close
    <2>2. c \in Clients /\ client[c] = "taken"
      BY DEF Server!Taken
    <2>3. serve' \in Turns /\ UNCHANGED <<disk, page, request, answer>>
      BY <1>7 DEF Turns, Server!TurnAway, Server!Spawn, Server!files
    <2>4. client' \in [Clients -> {"away", "waiting", "taken", "reading", "answering", "answered",
                                  "closed"}]
      BY <2>1, <2>2 DEF ClientsAre
    <2>5. \A other \in Clients : client'[other] = IF other = c THEN place ELSE client[other]
      BY <2>1, <2>2 DEF ClientsAre
    <2>6. QED
      BY <2>2, <2>3, <2>4, <2>5, ClientMoves
  <1>8. ASSUME NEW c \in Clients, Server!CountDown(c)
        PROVE  ClientsAre'
    BY <1>8 DEF ClientsAre, Turns, Server!CountDown, Server!files, Server!Close
  <1>9. ASSUME NEW c \in Clients, Server!ReadsHead(c)
        PROVE  ClientsAre'
    <2>1. PICK sent \in Server!Requests : request' = [request EXCEPT ![c] = sent]
      BY <1>9 DEF Server!ReadsHead
    <2>2. /\ client[c] = "reading" /\ client' = [client EXCEPT ![c] = "answering"]
          /\ UNCHANGED <<serve, disk, page, answer>>
      BY <1>9 DEF Server!ReadsHead, Server!files
    <2>3. QED
      BY <2>1, <2>2 DEF ClientsAre, Turns
  <1>10. ASSUME NEW c \in Clients, Server!Answers(c)
        PROVE  ClientsAre'
    <2>1. request[c] \in Server!Requests
      BY <1>10 DEF Server!Answers, ClientsAre
    <2>2. Server!Respond(request[c]) \in Server!Pages \cup {"none", "400", "403", "404 or 405", "head"}
      BY <2>1 DEF Server!Respond, Server!Requests, ClientsAre
    <2>3. /\ client[c] = "answering" /\ client' = [client EXCEPT ![c] = "answered"]
          /\ UNCHANGED <<serve, disk, page, request>>
      BY <1>10 DEF Server!Answers, Server!files
    <2>4. CASE answer' = answer
      BY <2>3, <2>4 DEF ClientsAre, Turns
    <2>5. CASE answer' = [answer EXCEPT ![c] = Server!Respond(request[c])]
      BY <2>2, <2>3, <2>5 DEF ClientsAre, Turns
    <2>6. QED
      BY <1>10, <2>4, <2>5 DEF Server!Answers
  <1>11. QED
    BY <1>1, <1>2, <1>3, <1>4, <1>5, <1>6, <1>7, <1>8, <1>10, <1>9
       DEF Server!Next, Server!Accepting, Server!Answering

LEMMA ServeKeepsPage ==
  ASSUME ServeInv, Server!Next
  PROVE  PageIsChecked'
  <1> USE DEF ServeInv
  <1>1. CASE Server!ReadChecksumFile
    BY <1>1 DEF ClientsAre, PageIsChecked, Server!OnlyTheCheckedPage, Turns,
         Server!ReadChecksumFile, Server!network, Server!Pages
  <1>2. CASE Server!FilesChange
    BY <1>2 DEF PageIsChecked, Server!OnlyTheCheckedPage, Server!FilesChange, Server!network
  <1>3. CASE Server!LoadCheckedPage
    <2>1. page.bytes' = disk.page /\ page.expected' = page.expected
      BY <1>3 DEF ClientsAre, Server!LoadCheckedPage
    <2>2. (\A c \in Clients : answer[c] = "none") /\ answer' = answer
      BY <1>3 DEF ClientsAre, Server!LoadCheckedPage, Server!network
    <2>3. serve' \in Turns => page.bytes' = page.expected'
      BY <1>3, <2>1 DEF Server!LoadCheckedPage, Turns
    <2>4. QED
      BY <2>2, <2>3 DEF PageIsChecked, Server!OnlyTheCheckedPage, Server!Pages
  <1>4. ASSUME UNCHANGED <<page, request, answer>>, serve' \in Turns => serve \in Turns
        PROVE  PageIsChecked'
    BY <1>4 DEF PageIsChecked, Server!OnlyTheCheckedPage
  <1>8. ASSUME NEW c \in Clients, Server!Connects(c) \/ Server!Accept(c) \/ Server!CountDown(c)
        PROVE  PageIsChecked'
    <2>1. UNCHANGED <<page, request, answer>>
      BY <1>8 DEF Server!Connects, Server!Accept, Server!CountDown, Server!files
    <2>2. serve' \in Turns => serve \in Turns
      BY <1>8 DEF Server!Connects, Server!Accept, Server!CountDown, Turns
    <2>3. QED
      BY <1>4, <2>1, <2>2
  <1>9. CASE Server!CountUp \/ Server!Unspawned \/ Server!TurnAway \/ Server!Spawn
    <2>1. UNCHANGED <<page, request, answer>>
      BY <1>9 DEF Server!CountUp, Server!Unspawned, Server!TurnAway, Server!Spawn, Server!files
    <2>2. serve \in Turns
      BY <1>9 DEF Server!CountUp, Server!Unspawned, Server!TurnAway, Server!Spawn, Turns
    <2>3. QED
      BY <1>4, <2>1, <2>2
  <1>5. ASSUME NEW c \in Clients, Server!ReadsHead(c)
        PROVE  PageIsChecked'
    <2>1. answer[c] = "none" /\ UNCHANGED <<serve, page, answer>>
      BY <1>5 DEF ClientsAre, Server!ReadsHead, Server!files
    <2>2. \A d \in Clients \ {c} : request'[d] = request[d]
      BY <1>5 DEF ClientsAre, Server!ReadsHead
    <2>3. QED
      BY <2>1, <2>2 DEF PageIsChecked, Server!OnlyTheCheckedPage, Server!Pages
  <1>6. ASSUME NEW c \in Clients, Server!Answers(c)
        PROVE  PageIsChecked'
    <2>1. request[c] \in Server!Requests /\ serve \in Turns /\ UNCHANGED <<serve, page, request>>
      BY <1>6 DEF Server!Answers, ClientsAre, Server!files
    <2>2. Server!Respond(request[c]) \in Server!Pages =>
            request[c] = "get" /\ Server!Respond(request[c]) = page.expected
      BY <2>1 DEF Server!Respond, Server!Requests, Server!Pages, PageIsChecked
    <2>3. \A d \in Clients :
            answer'[d] = answer[d] \/ (d = c /\ answer'[d] = Server!Respond(request[c]))
      <3>1. CASE answer' = [answer EXCEPT ![c] = Server!Respond(request[c])]
        BY <3>1 DEF ClientsAre
      <3>2. QED
        BY <1>6, <3>1 DEF Server!Answers
    <2>4. QED
      BY <2>1, <2>2, <2>3 DEF PageIsChecked, Server!OnlyTheCheckedPage
  <1>7. QED
    BY <1>1, <1>2, <1>3, <1>5, <1>6, <1>8, <1>9
       DEF Server!Next, Server!Accepting, Server!Answering

LEMMA ServeKeepsPlaces ==
  ASSUME ServeInv, Server!Next
  PROVE  PlacesAre'
  <1> USE DEF ServeInv
  <1>0. Cardinality(Server!Held) \in Nat /\ MaxConnections \in Nat
    BY HeldIsFinite, BoundsAssumption
  <1>1. CASE Server!ReadChecksumFile \/ Server!FilesChange \/ Server!LoadCheckedPage
    <2>1. Server!Held' = Server!Held /\ active' = active
      BY <1>1 DEF Server!ReadChecksumFile, Server!FilesChange, Server!LoadCheckedPage,
           Server!network, Server!Held
    <2>2. serve' = serve \/ {serve, serve'} \cap {"over", "placed", "unspawned"} = {}
      BY <1>1 DEF Server!ReadChecksumFile, Server!FilesChange, Server!LoadCheckedPage
    <2>3. QED
      BY <2>1, <2>2 DEF PlacesAre
  <1>2. ASSUME NEW c \in Clients, Server!Connects(c) \/ Server!Accept(c)
        PROVE  PlacesAre'
    <2>1. Server!Held' = Server!Held
      BY <1>2, ClientsMove DEF Server!Connects, Server!Accept, Server!Held
    <2>2. active' = active
      BY <1>2 DEF Server!Connects, Server!Accept
    <2>3. serve' = serve \/ {serve, serve'} \cap {"over", "placed", "unspawned"} = {}
      BY <1>2 DEF Server!Connects, Server!Accept
    <2>4. QED
      BY <2>1, <2>2, <2>3 DEF PlacesAre
  <1>3. CASE Server!CountUp
    <2>1. Server!Held' = Server!Held /\ active = Cardinality(Server!Held)
          /\ Cardinality(Server!Held) <= MaxConnections
      BY <1>0, <1>3 DEF Server!CountUp, Server!Held, PlacesAre
    <2>2. /\ serve' \in {"over", "placed"} /\ active' = active + 1
          /\ serve' = "placed" => ~(active >= MaxConnections)
      BY <1>3 DEF Server!CountUp
    <2>3. QED
      BY <1>0, <2>1, <2>2 DEF PlacesAre
  <1>4. CASE Server!Unspawned
    <2>1. /\ Server!Held' = Server!Held /\ active = Cardinality(Server!Held) + 1
          /\ Cardinality(Server!Held) <= MaxConnections
      BY <1>0, <1>4 DEF Server!Unspawned, Server!Held, PlacesAre
    <2>2. serve' = "listening" /\ active' = active - 1
      BY <1>4 DEF Server!Unspawned
    <2>3. QED
      BY <1>0, <2>1, <2>2 DEF PlacesAre
  <1>5. CASE Server!TurnAway
    <2>1. PICK c \in Clients : client[c] = "taken" /\ client' = [client EXCEPT ![c] = "closed"]
      BY <1>5 DEF Server!TurnAway, Server!Taken, Server!Close
    <2>2. Server!Held' = Server!Held
      BY <2>1, ClientsMove DEF Server!Held
    <2>3. /\ active = Cardinality(Server!Held) + 1 /\ Cardinality(Server!Held) <= MaxConnections
          /\ serve' = "listening" /\ active' = active - 1
      BY <1>5 DEF Server!TurnAway, PlacesAre
    <2>4. QED
      BY <1>0, <2>2, <2>3 DEF PlacesAre
  <1>6. CASE Server!Spawn
    <2>1. PICK c \in Clients :
            /\ client[c] = "taken"
            /\ \/ client' = [client EXCEPT ![c] = "reading"] /\ serve' = "listening"
               \/ client' = [client EXCEPT ![c] = "closed"] /\ serve' = "unspawned"
      BY <1>6 DEF Server!Spawn, Server!Taken, Server!Close
    <2>2. /\ active = Cardinality(Server!Held) + 1 /\ Cardinality(Server!Held) < MaxConnections
          /\ active' = active
      BY <1>6 DEF Server!Spawn, PlacesAre
    <2>3. CASE client' = [client EXCEPT ![c] = "reading"] /\ serve' = "listening"
      <3>1. Cardinality(Server!Held') = Cardinality(Server!Held) + 1
        BY <2>1, <2>3, ClientsMove DEF Server!Held
      <3>2. QED
        BY <1>0, <2>2, <2>3, <3>1 DEF PlacesAre
    <2>4. CASE client' = [client EXCEPT ![c] = "closed"] /\ serve' = "unspawned"
      <3>1. Server!Held' = Server!Held
        BY <2>1, <2>4, ClientsMove DEF Server!Held
      <3>2. QED
        BY <1>0, <2>2, <2>4, <3>1 DEF PlacesAre
    <2>5. QED
      BY <2>1, <2>3, <2>4
  <1>7. ASSUME NEW c \in Clients, Server!ReadsHead(c) \/ Server!Answers(c)
        PROVE  PlacesAre'
    <2>1. Server!Held' = Server!Held
      BY <1>7, ClientsMove DEF Server!ReadsHead, Server!Answers, Server!Held
    <2>2. active' = active /\ serve' = serve
      BY <1>7 DEF Server!ReadsHead, Server!Answers
    <2>3. QED
      BY <2>1, <2>2 DEF PlacesAre
  <1>8. ASSUME NEW c \in Clients, Server!CountDown(c)
        PROVE  PlacesAre'
    <2>1. Cardinality(Server!Held') = Cardinality(Server!Held) - 1
      BY <1>8, ClientsMove DEF Server!CountDown, Server!Close, Server!Held
    <2>2. active' = active - 1 /\ serve' = serve
      BY <1>8 DEF Server!CountDown
    <2>3. QED
      BY <1>0, <2>1, <2>2 DEF PlacesAre
  <1>9. QED
    BY <1>1, <1>2, <1>3, <1>4, <1>5, <1>6, <1>7, <1>8
       DEF Server!Next, Server!Accepting, Server!Answering

(* serve.rs, for any number of clients and any limit: the count of places  *)
(* is that of the threads whatever ends them, more never run than the limit*)
(* says, and a client gets only the bytes that were checked, by its own    *)
(* request, however the files change under the server.                     *)
THEOREM OnlyTheCheckedIsServed == Spec => []ServesTheChecked
  <1> DEFINE Inv == command \in {"none", "serve"} => ServeInv
  <1>1. Init => Inv
    BY ServeBegins
  <1>2. Inv /\ [Next]_vars => Inv'
    <2>1. ASSUME ServeInv, UNCHANGED <<serveVars, exit>>
          PROVE  ServeInv'
      <3>1. ClientsAre'
        BY <2>1 DEF ServeInv, ClientsAre, serveVars, Turns
      <3>2. PageIsChecked'
        BY <2>1 DEF ServeInv, PageIsChecked, Server!OnlyTheCheckedPage, serveVars, Turns
      <3>3. Server!Held' = Server!Held
        BY <2>1 DEF Server!Held, serveVars
      <3>4. PlacesAre'
        BY <2>1, <3>3 DEF ServeInv, PlacesAre, serveVars
      <3>5. QED
        BY <3>1, <3>2, <3>4 DEF ServeInv
    <2>2. ASSUME ServeInv, Server!Next
          PROVE  ServeInv'
      BY <2>2, ServeKeepsClients, ServeKeepsPage, ServeKeepsPlaces DEF ServeInv
    <2>3. QED
      BY <2>1, <2>2, OneCommandRuns
  <1>3. Inv => ServesTheChecked
    BY ServersCount DEF ServeInv, PageIsChecked, PlacesAre, ServesTheChecked,
         Server!ServesTheChecked, Server!PlacesAreCounted
  <1>4. QED
    BY <1>1, <1>2, <1>3, PTL DEF Spec

-----------------------------------------------------------------------------
(* rekey.                                                                  *)

(* The commands read and confirm a state by the same rules.                *)
LEMMA SameReadings ==
  ASSUME NEW size, NEW passing, NEW length
  PROVE  /\ Dialog!ReadingsOf(size, passing, length) = ReadingsOf(size, passing, length)
         /\ Check!ReadingsOf(size, passing, length) = ReadingsOf(size, passing, length)
         /\ Dialog!EveryReading(size, passing) = EveryReading(size, passing)
         /\ Check!EveryReading(size, passing) = EveryReading(size, passing)
         /\ Dialog!PhraseLengths(size) = PhraseLengths(size)
         /\ Check!BuiltInCheckLengths(size) = BuiltInCheckLengths(size)
         /\ Dialog!BuiltInCheckConfirms(size, length) <=> BuiltInCheckConfirms(size, length)
         /\ Dialog!OwnerCanConfirm(size, passing, length) <=> OwnerCanConfirm(size, passing, length)
  BY DEF Dialog!ReadingsOf, Check!ReadingsOf, ReadingsOf, Dialog!EveryReading,
         Check!EveryReading, EveryReading, Dialog!Single, Check!Single, Single,
         Dialog!Detect, Check!Detect, Detect, Dialog!PhraseLengths, PhraseLengths,
         Dialog!Lengths, Lengths, Dialog!BuiltInCheckLengths, Check!BuiltInCheckLengths,
         BuiltInCheckLengths, Dialog!BuiltInCheckConfirms, BuiltInCheckConfirms,
         Dialog!OwnerCanConfirm, OwnerCanConfirm, Dialog!LengthApplies, LengthApplies,
         Dialog!OneReadingRefusal, OneReadingRefusal, Dialog!Differs, Differs

LEMMA SameConfirm ==
  ASSUME NEW how, NEW words, NEW size, NEW passing, NEW length
  PROVE  /\ Dialog!Confirm(how, words, size, passing, length)
              = Confirm(how, words, size, passing, length)
         /\ Check!Confirm(how, words, size, passing, length)
              = Confirm(how, words, size, passing, length)
  <1>1. /\ Dialog!ReadingsOf(size, passing, length) = ReadingsOf(size, passing, length)
        /\ Check!ReadingsOf(size, passing, length) = ReadingsOf(size, passing, length)
        /\ Dialog!EveryReading(size, passing) = EveryReading(size, passing)
        /\ Check!EveryReading(size, passing) = EveryReading(size, passing)
    BY SameReadings
  <1>2. QED
    BY <1>1
       DEF Dialog!Confirm, Check!Confirm, Confirm, Dialog!Refused, Check!Refused, Refused,
           Dialog!Accepted, Check!Accepted, Accepted, Dialog!References, Check!References,
           References, Dialog!CheckRefusal, Check!CheckRefusal, CheckRefusal,
           Dialog!BuiltInCheckConfirms, Check!BuiltInCheckConfirms, BuiltInCheckConfirms,
           Dialog!BuiltInCheckLengths, Check!BuiltInCheckLengths, BuiltInCheckLengths,
           Dialog!OneReadingRefusal, Check!OneReadingRefusal, OneReadingRefusal,
           Dialog!Differs, Check!Differs, Differs, Dialog!Single, Check!Single, Single,
           Dialog!Detect, Check!Detect, Detect

(* What a confirmation accepts, and why it refuses.                        *)
LEMMA Accepts ==
  ASSUME NEW how \in Confirmations, NEW w, NEW size, NEW passing, NEW length,
         Confirm(how, w, size, passing, length).refusal = "none"
  PROVE  /\ how \in References =>
              /\ Confirm(how, w, size, passing, length).words = w
              /\ w \in EveryReading(size, passing)
         /\ how = "builtInCheck" =>
              /\ Confirm(how, w, size, passing, length).words = length
              /\ length \in passing /\ passing = {length}
  <1> DEFINE readings == ReadingsOf(size, passing, length)
             reading  == CHOOSE n \in readings : TRUE
             words    == Confirm(how, w, size, passing, length).words
  <1>1. readings # {}
    BY DEF Confirm, Refused
  <1>2. ASSUME how \in References
        PROVE  words = w /\ w \in EveryReading(size, passing)
    BY <1>1, <1>2 DEF Confirm, Refused, Accepted, References
  <1>3. ASSUME how = "builtInCheck"
        PROVE  words = length /\ length \in passing /\ passing = {length}
    <2>1. /\ BuiltInCheckConfirms(size, length) /\ words = reading
          /\ CheckRefusal(passing, length, reading) = "none"
      BY <1>1, <1>3 DEF Confirm, Refused, Accepted, References
    <2>2. length # Detect
      BY <2>1, LengthsAssumption DEF BuiltInCheckConfirms, BuiltInCheckLengths, Detect
    <2>3. reading = length /\ passing = {reading} /\ reading \in passing
      BY <2>1, <2>2 DEF CheckRefusal, Differs
    <2>4. QED
      BY <2>1, <2>3
  <1>4. QED
    BY <1>2, <1>3

LEMMA RefusalsAre ==
  ASSUME NEW how \in Confirmations, NEW w, NEW size, NEW passing, NEW length,
         how = "builtInCheck" => BuiltInCheckConfirms(size, length)
  PROVE  Confirm(how, w, size, passing, length).refusal
           \in {"none", "VERIFIER_MISMATCH", "LENGTH_DIFFERS", "AMBIGUOUS_LENGTH",
                "REFERENCE_MISMATCH"}
  BY DEF Confirm, Refused, Accepted, OneReadingRefusal, CheckRefusal

LEMMA OwnerConfirmsOffered ==
  ASSUME NEW w, NEW size, NEW passing, NEW length, OwnerCanConfirm(size, passing, length)
  PROVE  Confirm("owner", w, size, passing, length).refusal = "none"
  <1>1. OneReadingRefusal(ReadingsOf(size, passing, length), passing, length) = "none"
    BY DEF OwnerCanConfirm
  <1>2. ReadingsOf(size, passing, length) # {}
    BY <1>1 DEF OneReadingRefusal
  <1>3. QED
    BY <1>1, <1>2 DEF Confirm, Accepted, References

(* The old container, and what was asked of it.                            *)
Askable ==
  /\ rekey \in {"begin", "kind", "recover", "confirm", "again", "owner", "fingerprint",
                "new settings", "new password", "seal"}
  /\ kind \in Confirmations \cup {"none"} /\ right \in BOOLEAN
  /\ IF rekey \in {"begin", "kind"} THEN kind = "none" ELSE kind \in Confirmations
  /\ rekey = "owner" => kind = "owner"
  /\ rekey # "begin" =>
       /\ old.wallet \in {0, old.container} \cup old.passing
       /\ old.passing \in SUBSET Shorts /\ old.container \in Lengths
       /\ old.private \in BOOLEAN
  /\ kind = "owner" => old.private

(* One recovery, whose refusals are the readings' or the wallet's.         *)
RecoversOnce ==
  /\ rounds = IF rekey \in {"begin", "kind", "recover"} THEN 0 ELSE 1
  /\ rekey = "confirm" /\ kind = "builtInCheck" => BuiltInCheckConfirms(old.container, stated)
  /\ \A words \in offered : OwnerCanConfirm(old.container, old.passing, words)
  /\ rekey \in {"begin", "kind", "recover"} => offered = {}
  /\ rekey = "confirm" /\ kind = "owner" /\ offered # {} => stated \in offered
  /\ exit = "failure" /\ rounds = 1 =>
       Dialog!Confirmation.refusal \in {"REFERENCE_MISMATCH", "VERIFIER_MISMATCH"}
  /\ exit # "internal"

(* What is confirmed, and by what it can be rehearsed.                     *)
ConfirmedPhrase ==
  \/ recovered = old.wallet
       /\ (recovered \in old.passing \/ kind \in References \/ owner = "yes")
  \/ kind = "builtInCheck" /\ recovered = stated /\ old.passing = {stated}

Rehearsable ==
  /\ owner \in {"no", "awaited", "yes"}
  /\ owner = "awaited" <=> rekey = "owner"
  /\ rekey = "fingerprint" => owner = "yes"
  /\ rekey \in {"fingerprint", "new settings", "new password", "seal"} => ConfirmedPhrase
  /\ rekey \in {"new settings", "new password", "seal"} /\ owner = "yes" =>
       recovered \in old.passing \/ reference = "fingerprint"
  /\ rekey = "new password" => new \in [work : {"old", "other"}, password : {"none"}]
  /\ rekey = "seal" => <<new.work, new.password>> # <<"old", "old">>
  /\ sealed # 0 => sealed = recovered /\ rekey = "seal"

DialogInv == Askable /\ RecoversOnce /\ Rehearsable

LEMMA DialogBegins == ASSUME Init PROVE DialogInv
  BY DEF Init, Dialog!Init, DialogInv, Askable, RecoversOnce, Rehearsable, Confirmations

(* An end keeps what was asked and confirmed.                              *)
LEMMA FailsKeeps ==
  ASSUME DialogInv, NEW why, Dialog!Fails(why), why # "internal",
         why = "failure" /\ rounds = 1 =>
           Dialog!Confirmation.refusal \in {"REFERENCE_MISMATCH", "VERIFIER_MISMATCH"}
  PROVE  DialogInv'
  <1>1. UNCHANGED <<rekey, old, stated, kind, right, rounds, offered, recovered, owner, reference,
                    new, sealed>> /\ exit' = why
    BY DEF Dialog!Fails, Dialog!asked, Dialog!outcome
  <1>2. Askable'
    BY <1>1 DEF DialogInv, Askable
  <1>3. RecoversOnce'
    BY <1>1 DEF DialogInv, RecoversOnce, Dialog!Confirmation
  <1>4. ConfirmedPhrase => ConfirmedPhrase'
    BY <1>1 DEF ConfirmedPhrase
  <1>5. Rehearsable'
    BY <1>1, <1>4 DEF DialogInv, Rehearsable
  <1>6. QED
    BY <1>2, <1>3, <1>5 DEF DialogInv

LEMMA AskingKeepsDialog ==
  ASSUME DialogInv, exit = "none", Dialog!Begins \/ Dialog!AsksHow \/ Dialog!Recover
  PROVE  DialogInv'
  <1> USE DEF DialogInv
  <1>1. CASE Dialog!Begins
    <2>1. Askable'
      <3>1. PICK container_ \in Dialog!Lengths :
            \E passing \in IF container_ = Full THEN SUBSET Shorts ELSE {{}} :
              old' \in [container : {container_}, passing : {passing},
                        wallet : {0, container_} \cup passing, passphrase : BOOLEAN,
                        private : BOOLEAN]
        BY <1>1 DEF Dialog!Begins
      <3>2. PICK passing \in IF container_ = Full THEN SUBSET Shorts ELSE {{}} :
              old' \in [container : {container_}, passing : {passing},
                        wallet : {0, container_} \cup passing, passphrase : BOOLEAN,
                        private : BOOLEAN]
        BY <3>1
      <3>3. /\ old'.container = container_ /\ old'.passing = passing
            /\ old'.wallet \in {0, container_} \cup passing /\ old'.private \in BOOLEAN
        BY <3>2
      <3>4. passing \in SUBSET Shorts /\ container_ \in Lengths
        BY <3>1, <3>2 DEF Dialog!Lengths, Lengths
      <3>5. rekey' = "kind" /\ kind' = kind /\ right' = right /\ kind = "none"
        BY <1>1 DEF Dialog!Begins, Askable
      <3>6. QED
        BY <3>3, <3>4, <3>5 DEF Askable
    <2>2. RecoversOnce' /\ Rehearsable'
      BY <1>1 DEF Dialog!Begins, RecoversOnce, Rehearsable, Dialog!outcome
    <2>3. QED
      BY <2>1, <2>2
  <1>2. CASE Dialog!AsksHow
    <2>1. PICK chosen \in Dialog!Kinds : Dialog!HowOf(chosen)
      BY <1>2 DEF Dialog!AsksHow
    <2>2. /\ chosen \in {"reference", "builtInCheck", "owner"}
          /\ chosen = "owner" => old.private
      BY <2>1, <1>2 DEF Dialog!Kinds, Dialog!HowToConfirm, Dialog!AsksHow, Askable
    <2>3. /\ kind' \in Confirmations /\ right' \in BOOLEAN
          /\ kind' = "owner" => chosen = "owner"
      BY <2>1, <2>2 DEF Dialog!HowOf, Confirmations, References
    <2>4. QED
      BY <1>2, <2>2, <2>3 DEF Dialog!AsksHow, Askable, RecoversOnce, Rehearsable, Dialog!outcome
  <1>3. CASE Dialog!Recover
    <2>1. CASE Dialog!Fails("failure")
      <3>1. rounds = 0
        BY <1>3 DEF Dialog!Recover, RecoversOnce
      <3>2. QED
        BY <2>1, <3>1, FailsKeeps
    <2>2. CASE ~Dialog!Fails("failure")
      <3>1. /\ rekey' = "confirm" /\ rounds' = rounds + 1
            /\ UNCHANGED <<old, stated, kind, right, offered, recovered, owner, reference, new,
                           sealed, exit>>
            /\ kind = "builtInCheck" => BuiltInCheckConfirms(old.container, stated)
        BY <1>3, <2>2, SameReadings
           DEF Dialog!Recover, Dialog!asked, Dialog!outcome, Dialog!BuiltInCheckNeeded
      <3>2. Askable' /\ Rehearsable'
        BY <1>3, <3>1 DEF Dialog!Recover, Askable, Rehearsable
      <3>3. RecoversOnce'
        BY <1>3, <3>1 DEF Dialog!Recover, RecoversOnce
      <3>4. QED
        BY <3>2, <3>3
    <2>3. QED
      BY <2>1, <2>2
  <1>4. QED
    BY <1>1, <1>2, <1>3

LEMMA ConfirmingKeeps ==
  ASSUME DialogInv, exit = "none", Dialog!Confirms
  PROVE  DialogInv'
  <1> USE DEF DialogInv
  <1> DEFINE w == IF right THEN old.wallet ELSE 0
  <1>a. rekey = "confirm" /\ kind \in Confirmations
    BY DEF Dialog!Confirms, Askable
  <1>b. Dialog!Confirmation = Dialog!Confirm(kind, w, old.container, old.passing, stated)
    BY DEF Dialog!Confirmation
  <1>c. Dialog!Confirmation = Confirm(kind, w, old.container, old.passing, stated)
    BY <1>b, SameConfirm
  <1>0. /\ rekey = "confirm" /\ kind \in Confirmations
        /\ Dialog!Confirmation = Confirm(kind, w, old.container, old.passing, stated)
    BY <1>a, <1>c
  <1>1. ASSUME Dialog!Confirmation.refusal = "none", recovered' = Dialog!Confirmation.words,
               owner' = IF kind = "owner" THEN "awaited" ELSE "no",
               rekey' = IF kind = "owner" THEN "owner" ELSE "new settings",
               UNCHANGED <<old, stated, kind, right, rounds, offered, reference, new, sealed, exit>>
        PROVE  DialogInv'
    <2>1. Askable' /\ RecoversOnce'
      BY <1>0, <1>1 DEF Askable, RecoversOnce
    <2>2. /\ kind \in References => recovered' = w /\ w \in EveryReading(old.container, old.passing)
          /\ kind = "builtInCheck" => recovered' = stated /\ old.passing = {stated}
      <3>1. Confirm(kind, w, old.container, old.passing, stated).refusal = "none"
        BY <1>0, <1>1
      <3>2. /\ kind \in References =>
                 /\ Confirm(kind, w, old.container, old.passing, stated).words = w
                 /\ w \in EveryReading(old.container, old.passing)
            /\ kind = "builtInCheck" =>
                 /\ Confirm(kind, w, old.container, old.passing, stated).words = stated
                 /\ old.passing = {stated}
        BY <1>0, <3>1, Accepts
      <3>3. QED
        BY <1>0, <1>1, <3>2
    <2>3. 0 \notin EveryReading(old.container, old.passing)
      BY <1>0, LengthsAssumption DEF Askable, EveryReading, ReadingsOf, Lengths
    <2>4. kind \in References => recovered' = old.wallet
      BY <2>2, <2>3
    <2>5. kind # "owner" => ConfirmedPhrase'
      BY <1>0, <1>1, <2>2, <2>4 DEF ConfirmedPhrase, Confirmations
    <2>6. sealed' = 0
      BY <1>0, <1>1 DEF Rehearsable
    <2>7. Rehearsable'
      BY <1>0, <1>1, <2>5, <2>6 DEF Rehearsable
    <2>8. QED
      BY <2>1, <2>7
  <1>2. ASSUME Dialog!Confirmation.refusal \in {"AMBIGUOUS_LENGTH", "LENGTH_DIFFERS"},
               rekey' = "again", offered' = Dialog!LengthsAfter(Dialog!Confirmation.refusal),
               UNCHANGED <<old, stated, kind, right, rounds, recovered, owner, reference, new,
                           sealed, exit>>
        PROVE  DialogInv'
    <2>1. \A words \in offered' : OwnerCanConfirm(old.container, old.passing, words)
      BY <1>2, SameReadings DEF Dialog!LengthsAfter, Dialog!OwnerLengths
    <2>2. Askable' /\ Rehearsable'
      BY <1>0, <1>2 DEF Askable, Rehearsable
    <2>3. RecoversOnce'
      BY <1>0, <1>2, <2>1 DEF RecoversOnce
    <2>4. QED
      BY <2>2, <2>3
  <1>3. ASSUME Dialog!Confirmation.refusal \notin {"none", "AMBIGUOUS_LENGTH", "LENGTH_DIFFERS"},
               Dialog!Fails("failure")
        PROVE  DialogInv'
    <2>1. Dialog!Confirmation.refusal \in {"REFERENCE_MISMATCH", "VERIFIER_MISMATCH"}
      BY <1>0, <1>3, RefusalsAre DEF RecoversOnce
    <2>2. QED
      BY <1>3, <2>1, FailsKeeps
  <1>4. QED
    BY <1>1, <1>2, <1>3 DEF Dialog!Confirms, Dialog!asked, Dialog!outcome

LEMMA ConfirmingAgainKeeps ==
  ASSUME DialogInv, exit = "none", Dialog!ConfirmsAgain
  PROVE  DialogInv'
  <1> USE DEF DialogInv
  <1>1. PICK chosen \in Dialog!HowToConfirm(offered # {}) :
          Dialog!HowOf(chosen) /\ stated' \in IF chosen = "owner" THEN offered ELSE {stated}
    BY DEF Dialog!ConfirmsAgain
  <1>2. /\ chosen \in {"reference", "owner"}
        /\ chosen = "owner" => old.private
    BY <1>1 DEF Dialog!HowToConfirm
  <1>3. /\ kind' \in Confirmations \ {"builtInCheck"} /\ right' \in BOOLEAN
        /\ kind' = "owner" => chosen = "owner"
    BY <1>1, <1>2 DEF Dialog!HowOf, Confirmations, References
  <1>4. /\ rekey = "again" /\ rekey' = "confirm"
        /\ UNCHANGED <<old, rounds, offered, recovered, owner, reference, new, sealed, exit>>
    BY DEF Dialog!ConfirmsAgain, Dialog!outcome
  <1>5. Askable'
    BY <1>2, <1>3, <1>4 DEF Askable
  <1>6. RecoversOnce'
    BY <1>1, <1>3, <1>4 DEF RecoversOnce
  <1>7. Rehearsable'
    BY <1>4 DEF Rehearsable
  <1>8. QED
    BY <1>5, <1>6, <1>7

LEMMA OwnerKeeps ==
  ASSUME DialogInv, exit = "none", Dialog!OwnerConfirms
  PROVE  DialogInv'
  <1>1. rekey = "owner" /\ old.private
    BY DEF DialogInv, Dialog!OwnerConfirms, Askable
  <1>2. CASE Dialog!Fails("not confirmed")
    BY <1>2, FailsKeeps
  <1>3. ASSUME ~Dialog!Fails("not confirmed")
        PROVE  DialogInv'
    <2>1. /\ recovered = old.wallet /\ owner' = "yes" /\ rekey' = "fingerprint"
          /\ UNCHANGED <<old, stated, kind, right, rounds, offered, recovered, reference, new,
                         sealed, exit>>
      BY <1>1, <1>3 DEF Dialog!OwnerConfirms, Dialog!asked
    <2>2. Askable' /\ RecoversOnce'
      BY <1>1, <2>1 DEF DialogInv, Askable, RecoversOnce
    <2>3. Rehearsable'
      BY <1>1, <2>1 DEF DialogInv, Rehearsable, ConfirmedPhrase
    <2>4. QED
      BY <2>2, <2>3 DEF DialogInv
  <1>4. QED
    BY <1>2, <1>3

LEMMA NewContainerKeeps ==
  ASSUME DialogInv, exit = "none",
         Dialog!ReadsFingerprint \/ Dialog!ChoosesSettings \/ Dialog!ReadsDifferentPassword
  PROVE  DialogInv'
  <1>1. /\ rekey \in {"fingerprint", "new settings", "new password"} /\ sealed = 0
        /\ rekey' \in {"new settings", "new password", "seal"}
        /\ UNCHANGED <<old, stated, kind, right, rounds, offered, recovered, owner, sealed, exit>>
    BY DEF DialogInv, Rehearsable, Dialog!ReadsFingerprint, Dialog!ChoosesSettings,
         Dialog!ReadsDifferentPassword, Dialog!asked
  <1>2. Askable'
    BY <1>1 DEF DialogInv, Askable
  <1>3. RecoversOnce'
    BY <1>1 DEF DialogInv, RecoversOnce
  <1>4. ConfirmedPhrase'
    BY <1>1 DEF DialogInv, Rehearsable, ConfirmedPhrase
  <1>5. owner' = "yes" => recovered' \in old'.passing \/ reference' = "fingerprint"
    BY <1>1 DEF DialogInv, Rehearsable, Dialog!ReadsFingerprint, Dialog!Verified,
         Dialog!ChoosesSettings, Dialog!ReadsDifferentPassword
  <1>6. rekey' = "new password" => new' \in [work : {"old", "other"}, password : {"none"}]
    BY DEF Dialog!ReadsFingerprint, Dialog!ChoosesSettings, Dialog!ReadsDifferentPassword
  <1>7. ASSUME rekey' = "seal"
        PROVE  <<new'.work, new'.password>> # <<"old", "old">>
    <2>1. PICK password \in {"old", "other"} :
            Dialog!CheckNew(password) /\ new' = [new EXCEPT !.password = password]
      BY <1>7 DEF Dialog!ReadsFingerprint, Dialog!ChoosesSettings, Dialog!ReadsDifferentPassword
    <2>2. new \in [work : {"old", "other"}, password : {"none"}]
      BY <1>7 DEF DialogInv, Rehearsable, Dialog!ReadsFingerprint, Dialog!ChoosesSettings,
           Dialog!ReadsDifferentPassword
    <2>3. new'.work = new.work /\ new'.password = password
      BY <2>1, <2>2
    <2>4. QED
      BY <2>1, <2>3 DEF Dialog!CheckNew
  <1>8. QED
    BY <1>1, <1>2, <1>3, <1>4, <1>5, <1>6, <1>7 DEF DialogInv, Rehearsable

LEMMA SealingKeepsDialog ==
  ASSUME DialogInv, exit = "none", Dialog!Seals
  PROVE  DialogInv'
  <1>1. /\ rekey = "seal" /\ sealed' = recovered /\ exit' = "success"
        /\ UNCHANGED <<rekey, old, stated, kind, right, rounds, offered, recovered, owner,
                       reference, new>>
    BY DEF DialogInv, Rehearsable, Dialog!Seals, Dialog!asked
  <1>2. Askable' /\ RecoversOnce'
    BY <1>1 DEF DialogInv, Askable, RecoversOnce
  <1>3. ConfirmedPhrase'
    BY <1>1 DEF DialogInv, Rehearsable, ConfirmedPhrase
  <1>4. Rehearsable'
    BY <1>1, <1>3 DEF DialogInv, Rehearsable
  <1>5. QED
    BY <1>2, <1>4 DEF DialogInv

LEMMA DialogStepsKeep ==
  ASSUME DialogInv, Dialog!Next
  PROVE  DialogInv'
  <1>1. exit = "none"
    BY DEF Dialog!Next
  <1>2. CASE Dialog!Stops
    BY <1>2, FailsKeeps DEF Dialog!Stops
  <1>3. QED
    BY <1>1, <1>2, AskingKeepsDialog, ConfirmingKeeps, ConfirmingAgainKeeps, OwnerKeeps,
       NewContainerKeeps, SealingKeepsDialog DEF Dialog!Next

(* rekey.rs, for every set of lengths: a person waits for one recovery and *)
(* none is wasted on a question that cannot be answered; a new container   *)
(* holds the wallet's phrase under something new and can be rehearsed.     *)
THEOREM DialogKeepsTheWallet == Spec => []DialogRekeysTheWallet
  <1> DEFINE Inv == command \in {"none", "rekey"} => DialogInv
  <1>1. Init => Inv
    BY DialogBegins
  <1>2. Inv /\ [Next]_vars => Inv'
    <2>1. ASSUME DialogInv, UNCHANGED <<rekeyVars, exit>>
          PROVE  DialogInv'
      <3>1. Askable' /\ RecoversOnce'
        BY <2>1 DEF DialogInv, Askable, RecoversOnce, rekeyVars, Dialog!Confirmation
      <3>2. ConfirmedPhrase => ConfirmedPhrase'
        BY <2>1 DEF ConfirmedPhrase, rekeyVars
      <3>3. Rehearsable'
        BY <2>1, <3>2 DEF DialogInv, Rehearsable, rekeyVars
      <3>4. QED
        BY <3>1, <3>3 DEF DialogInv
    <2>2. QED
      BY <2>1, DialogStepsKeep, OneCommandRuns
  <1>3. ASSUME DialogInv
        PROVE  Dialog!DialogRekeysTheWallet
    <2> USE <1>3 DEF DialogInv
    <2>1. ASSUME rekey = "confirm", kind = "owner", offered # {}
          PROVE  Dialog!Confirmation.refusal = "none"
      <3>1. OwnerCanConfirm(old.container, old.passing, stated)
        BY <2>1 DEF RecoversOnce
      <3>2. Confirm("owner", IF right THEN old.wallet ELSE 0, old.container, old.passing, stated).refusal
              = "none"
        BY <3>1, OwnerConfirmsOffered
      <3>3. Dialog!Confirmation = Dialog!Confirm("owner", IF right THEN old.wallet ELSE 0,
                                                 old.container, old.passing, stated)
        BY <2>1 DEF Dialog!Confirmation
      <3>4. QED
        BY <3>2, <3>3, SameConfirm
    <2>2. Dialog!RecoveryIsNotWasted
      BY <2>1 DEF RecoversOnce, Dialog!RecoveryIsNotWasted
    <2>3. Dialog!NewContainerIsTheWallet
      BY DEF Rehearsable, ConfirmedPhrase, Dialog!NewContainerIsTheWallet, Dialog!Verified,
           Dialog!References, References
    <2>4. QED
      BY <2>2, <2>3 DEF Dialog!DialogRekeysTheWallet
  <1>4. Inv => DialogRekeysTheWallet
    BY <1>3 DEF DialogRekeysTheWallet
  <1>5. QED
    BY <1>1, <1>2, <1>4, PTL DEF Spec

-----------------------------------------------------------------------------
(* check.                                                                  *)

(* What a recovery may be, and what was asked of it.                       *)
CheckAsks ==
  /\ rehearsal \in {"begin", "choosing", "comparing", "asking length", "reporting"}
  /\ script \in BOOLEAN /\ typed \in Check!Passphrases
  /\ recovery.container \in Lengths /\ recovery.sixteen \in BOOLEAN
  /\ recovery.passing \in SUBSET BuiltInCheckLengths(recovery.container)
  /\ choice.kind \in {"wallet", "ownChecks", "builtInCheck", "walletCheck"}
  /\ choice.kind = "wallet" => choice.words = 0
  /\ choice.kind = "builtInCheck" /\ rehearsal \notin {"begin", "choosing"} =>
       choice.words \in BuiltInCheckLengths(recovery.container)
  /\ choice.kind = "ownChecks" /\ rehearsal \notin {"begin", "choosing"} =>
       BuiltInCheckLengths(recovery.container) # {}
  /\ rehearsal = "asking length" => recovery.container = Full

(* The lines of a result come from the evidence of what is asked.          *)
ResultLines ==
  {<<"outcome", evidence.outcome>>} \cup Check!WhatElse
    \cup (IF ~Check!IsMatch THEN {}
          ELSE IF ~script THEN Check!MatchedLines
          ELSE IF evidence.others # {} THEN Check!BuiltIn ELSE {})

LinesAreOfEvidence ==
  /\ rehearsal = "reporting" => evidence = Check!EvidenceOf(choice)
  /\ exit \in {"success", "no match"} =>
       /\ rehearsal = "reporting" /\ result = ResultLines
       /\ exit = "success" <=> Check!IsMatch

CheckInv == CheckAsks /\ LinesAreOfEvidence

LEMMA CheckBegins == ASSUME Init PROVE CheckInv
  <1>1. Check!Init
    BY DEF Init
  <1>2. recovery.container = Full /\ recovery.passing = {} /\ recovery.sixteen = FALSE
        /\ choice.kind = "wallet" /\ choice.words = 0
    BY <1>1 DEF Check!Init, Check!Choice
  <1>3. QED
    BY <1>1, <1>2 DEF Check!Init, CheckInv, CheckAsks, LinesAreOfEvidence, Lengths,
       Check!Passphrases

LEMMA CheckStepsKeep ==
  ASSUME CheckInv, Check!Next
  PROVE  CheckInv'
  <1> USE DEF CheckInv
  <1>0. exit = "none"
    BY DEF Check!Next
  <1>1. CASE Check!Begins
    <2>1. PICK container_ \in Check!Lengths, sixteen \in BOOLEAN :
            \E passing \in SUBSET Check!BuiltInCheckLengths(container_) :
              recovery' = [container |-> container_, passing |-> passing, sixteen |-> sixteen]
      BY <1>1 DEF Check!Begins
    <2>2. PICK passing \in SUBSET Check!BuiltInCheckLengths(container_) :
            recovery' = [container |-> container_, passing |-> passing, sixteen |-> sixteen]
      BY <2>1
    <2>3. /\ recovery'.container \in Lengths /\ recovery'.sixteen \in BOOLEAN
          /\ recovery'.passing \in SUBSET BuiltInCheckLengths(recovery'.container)
      BY <2>1, <2>2, SameReadings DEF Check!Lengths, Lengths
    <2>4. /\ rehearsal' = "choosing" /\ script' \in BOOLEAN
          /\ UNCHANGED <<choice, typed, evidence, result, exit>>
      BY <1>1 DEF Check!Begins
    <2>5. CheckAsks'
      BY <2>3, <2>4 DEF CheckAsks
    <2>6. QED
      BY <1>0, <2>4, <2>5 DEF LinesAreOfEvidence
  <1>2. CASE Check!Chooses
    <2>1. /\ rehearsal = "choosing" /\ typed' \in Check!Passphrases
          /\ choice' \in Check!Offered(typed')
          /\ rehearsal' = "choosing" \/ (rehearsal' = "comparing" /\ ~Check!Impossible(choice'))
          /\ exit' \in {"none", "failure"}
          /\ UNCHANGED <<script, recovery, wallet, evidence, result>>
      BY <1>0, <1>2 DEF Check!Chooses
    <2>2. /\ choice'.kind \in {"wallet", "ownChecks", "builtInCheck", "walletCheck"}
          /\ choice'.kind = "wallet" => choice'.words = 0
      <3>1. \/ choice' \in {[kind |-> "wallet", words |-> 0], [kind |-> "ownChecks", words |-> 0],
                            [kind |-> "walletCheck", words |-> 0]}
            \/ \E words \in Check!Lengths : choice' = [kind |-> "builtInCheck", words |-> words]
        BY <2>1 DEF Check!Offered, Check!Choice
      <3>2. QED
        BY <3>1
    <2>3. rehearsal' = "comparing" =>
            /\ choice'.kind = "builtInCheck" =>
                 choice'.words \in BuiltInCheckLengths(recovery.container)
            /\ choice'.kind = "ownChecks" => BuiltInCheckLengths(recovery.container) # {}
      BY <2>1, SameReadings DEF Check!Impossible
    <2>4. CheckAsks'
      BY <2>1, <2>2, <2>3 DEF CheckAsks
    <2>5. QED
      BY <2>1, <2>4 DEF LinesAreOfEvidence
  <1>3. ASSUME Check!Recovers
        PROVE  CheckInv'
    <2>1. /\ rehearsal = "comparing" /\ evidence' = Check!EvidenceOf(choice)
          /\ rehearsal' \in {"asking length", "reporting"}
          /\ UNCHANGED <<script, recovery, wallet, choice, typed, result, exit>>
      BY <1>3 DEF Check!Recovers
    <2>2. Check!EvidenceOf(choice)' = Check!EvidenceOf(choice)
      BY <2>1 DEF Check!EvidenceOf, Check!CompareState, Check!Matches, Check!Reads24Words
    <2>3. ASSUME rehearsal' = "asking length"
          PROVE  recovery.container = Full
      <3>1. evidence'.outcome = "not verified" /\ choice.kind = "ownChecks"
        BY <1>3, <2>3 DEF Check!Recovers
      <3>2. QED
        BY <2>1, <3>1 DEF CheckAsks, BuiltInCheckLengths
    <2>4. CheckAsks'
      BY <2>1, <2>3 DEF CheckAsks
    <2>5. QED
      BY <1>0, <2>1, <2>2, <2>4 DEF LinesAreOfEvidence
  <1>4. CASE Check!AsksLength
    <2>1. /\ rehearsal = "asking length" /\ rehearsal' = "reporting"
          /\ evidence' = Check!EvidenceOf(choice')
          /\ UNCHANGED <<script, recovery, wallet, typed, result, exit>>
      BY <1>4 DEF Check!AsksLength
    <2>2. \/ choice' = [kind |-> "wallet", words |-> 0]
          \/ \E words \in Shorts : choice' = [kind |-> "builtInCheck", words |-> words]
      BY <1>4 DEF Check!AsksLength, Check!Choice
    <2>3. /\ choice'.kind \in {"wallet", "builtInCheck"}
          /\ choice'.kind = "wallet" => choice'.words = 0
          /\ choice'.kind = "builtInCheck" => choice'.words \in BuiltInCheckLengths(recovery.container)
      <3>1. BuiltInCheckLengths(recovery.container) = Shorts
        BY <2>1 DEF CheckAsks, BuiltInCheckLengths
      <3>2. QED
        BY <2>2, <3>1
    <2>4. Check!EvidenceOf(choice)' = Check!EvidenceOf(choice')
      BY <2>1 DEF Check!EvidenceOf, Check!CompareState, Check!Matches, Check!Reads24Words
    <2>5. CheckAsks'
      BY <2>1, <2>3 DEF CheckAsks
    <2>6. QED
      BY <1>0, <2>1, <2>4, <2>5 DEF LinesAreOfEvidence
  <1>5. CASE Check!Fails \/ Check!Cancels
    <2>1. /\ exit' \in {"failure", "cancelled"}
          /\ UNCHANGED <<rehearsal, script, recovery, wallet, choice, typed, evidence, result>>
      BY <1>5 DEF Check!Fails, Check!Cancels
    <2>2. Check!EvidenceOf(choice)' = Check!EvidenceOf(choice)
      BY <2>1 DEF Check!EvidenceOf, Check!CompareState, Check!Matches, Check!Reads24Words
    <2>3. CheckAsks'
      BY <2>1 DEF CheckAsks
    <2>4. QED
      BY <2>1, <2>2, <2>3 DEF LinesAreOfEvidence
  <1>6. CASE Check!Reports
    <2>1. /\ rehearsal = "reporting" /\ result' = ResultLines
          /\ exit' = IF Check!IsMatch THEN "success" ELSE "no match"
          /\ UNCHANGED <<rehearsal, script, recovery, wallet, choice, typed, evidence>>
      BY <1>6 DEF Check!Reports, ResultLines
    <2>2. Check!EvidenceOf(choice)' = Check!EvidenceOf(choice)
      BY <2>1 DEF Check!EvidenceOf, Check!CompareState, Check!Matches, Check!Reads24Words
    <2>3. ResultLines' = ResultLines /\ (Check!IsMatch' <=> Check!IsMatch)
      BY <2>1 DEF ResultLines, Check!WhatElse, Check!IsMatch, Check!MatchedLines, Check!BuiltIn
    <2>4. CheckAsks'
      BY <2>1 DEF CheckAsks
    <2>5. QED
      BY <2>1, <2>2, <2>3, <2>4 DEF LinesAreOfEvidence
  <1>7. QED
    BY <1>1, <1>2, <1>3, <1>4, <1>5, <1>6 DEF Check!Next

(* What the evidence says of a comparison.                                 *)
LEMMA EvidenceIsTrue ==
  ASSUME CheckAsks, NEW e, e = Check!EvidenceOf(choice)
  PROVE  /\ e.found \in recovery.passing \cup {0} /\ e.others = recovery.passing \ {e.found}
         /\ e.found = 0 <=> recovery.passing = {}
         /\ choice.kind = "builtInCheck" /\ choice.words \in recovery.passing =>
              e.found = choice.words
         /\ choice.kind = "wallet" =>
              /\ e.outcome = "matches" <=> Check!Matches(typed) \/ Check!Matches("")
              /\ e.without <=> ~Check!Matches(typed) /\ Check!Matches("")
         /\ choice.kind # "wallet" =>
              /\ e.outcome = "matches" <=> recovery.passing # {}
              /\ e.without = FALSE
         /\ e.sixteen <=>
              /\ recovery.sixteen /\ choice.kind # "builtInCheck" /\ recovery.container = Full
              /\ \/ ~Single(recovery.passing)
                 \/ choice.kind = "wallet" /\ e.outcome = "matches" /\ wallet.words = Full
  <1> DEFINE passing  == recovery.passing
             compared == Check!CompareState(choice)
  <1>0. passing \in SUBSET Nat /\ 0 \notin passing /\ Full # 0 /\ Full \notin passing
    BY LengthsAssumption DEF CheckAsks, BuiltInCheckLengths
  <1>1. passing # {} => Check!First(passing) \in passing
    BY <1>0, HasLeast DEF Check!First
  <1>2. e = [outcome |-> compared.outcome, found |-> e.found, others |-> passing \ {e.found},
             sixteen |-> /\ recovery.container = Full /\ choice.kind # "builtInCheck"
                         /\ Check!Reads24Words(compared.matched) /\ recovery.sixteen,
             without |-> compared.without]
    BY DEF Check!EvidenceOf
  <1>3. e.found = IF passing = {} THEN 0
                  ELSE IF choice.kind = "builtInCheck" /\ choice.words \in passing
                  THEN choice.words ELSE Check!First(passing)
    BY DEF Check!EvidenceOf
  <1>4. /\ choice.kind = "wallet" =>
             /\ compared.outcome = "matches" <=> Check!Matches(typed) \/ Check!Matches("")
             /\ compared.without <=> ~Check!Matches(typed) /\ Check!Matches("")
             /\ compared.matched = IF compared.outcome = "matches" THEN wallet.words ELSE 0
        /\ choice.kind # "wallet" =>
             /\ compared.outcome = "matches" <=> passing # {}
             /\ compared.without = FALSE /\ compared.matched = 0
    BY DEF Check!CompareState, Check!Compared, Check!Found
  <1>5. Check!Reads24Words(compared.matched) <=> ~Single(passing) \/ compared.matched = Full
    BY DEF Check!Reads24Words, Check!Single, Single
  <1> HIDE DEF compared
  <1>6. e.sixteen <=>
              /\ recovery.sixteen /\ choice.kind # "builtInCheck" /\ recovery.container = Full
              /\ \/ ~Single(recovery.passing)
                 \/ choice.kind = "wallet" /\ e.outcome = "matches" /\ wallet.words = Full
    <2>1. e.outcome = compared.outcome
      BY <1>2
    <2>2. e.sixteen <=> /\ recovery.container = Full /\ choice.kind # "builtInCheck"
                        /\ Check!Reads24Words(compared.matched) /\ recovery.sixteen
      BY <1>2
    <2>3. compared.matched = Full <=>
            choice.kind = "wallet" /\ compared.outcome = "matches" /\ wallet.words = Full
      BY <1>0, <1>4
    <2>4. QED
      BY <1>5, <2>1, <2>2, <2>3
  <1>7. /\ e.outcome = compared.outcome /\ e.without = compared.without
        /\ e.others = passing \ {e.found}
    BY <1>2
  <1>8. /\ e.found \in passing \cup {0}
        /\ e.found = 0 <=> passing = {}
        /\ choice.kind = "builtInCheck" /\ choice.words \in passing => e.found = choice.words
    BY <1>0, <1>1, <1>3
  <1>9. /\ choice.kind = "wallet" =>
              /\ e.outcome = "matches" <=> Check!Matches(typed) \/ Check!Matches("")
              /\ e.without <=> ~Check!Matches(typed) /\ Check!Matches("")
        /\ choice.kind # "wallet" =>
              /\ e.outcome = "matches" <=> recovery.passing # {}
              /\ e.without = FALSE
    <2>1. e.outcome = compared.outcome /\ e.without = compared.without
      BY <1>7
    <2>2. QED
      BY <1>4, <2>1
  <1>10. QED
    BY ONLY <1>6, <1>7, <1>8, <1>9

(* What a line of the result tells.                                        *)
LEMMA LinesTell ==
  ASSUME NEW lines, lines = ResultLines
  PROVE  /\ \A words : <<"built-in check", words>> \in lines <=>
              /\ Check!IsMatch /\ (~script \/ evidence.others # {})
              /\ words \in ({evidence.found} \cup evidence.others) \ {0}
         /\ <<"wallet", "with">> \in lines =>
              Check!IsMatch /\ choice.kind = "wallet" /\ typed # "" /\ ~evidence.without
         /\ <<"wallet", "without">> \in lines =>
              Check!IsMatch /\ choice.kind = "wallet" /\ (typed = "" \/ evidence.without)
         /\ <<"16-bit check", "passes">> \in lines <=> evidence.sixteen
         /\ (\E line \in lines : line[1] = "passphrase") <=> evidence.without
         /\ (\E line \in lines : line[1] = "finds") <=>
              choice.kind = "builtInCheck" /\ evidence.found \notin {0, choice.words}
  <1> DEFINE shown == ~script \/ evidence.others # {}
  <1>1. lines = {<<"outcome", evidence.outcome>>}
                \cup (IF choice.kind = "builtInCheck" /\ evidence.found \notin {0, choice.words}
                      THEN {<<"finds", evidence.found>>} ELSE {})
                \cup (IF evidence.sixteen THEN {<<"16-bit check", "passes">>} ELSE {})
                \cup (IF evidence.without
                      THEN {<<"passphrase", IF evidence.sixteen THEN "very likely" ELSE "not confirmed">>}
                      ELSE {})
                \cup (IF Check!IsMatch /\ shown THEN Check!BuiltIn ELSE {})
                \cup (IF Check!IsMatch /\ ~script /\ choice.kind = "wallet"
                      THEN {<<"wallet", IF typed # "" /\ ~evidence.without THEN "with" ELSE "without">>}
                      ELSE {})
    BY DEF ResultLines, Check!WhatElse, Check!MatchedLines
  <1>2. \A line \in Check!BuiltIn : line[1] = "built-in check"
    <2>1. ASSUME NEW line \in Check!BuiltIn
          PROVE  line[1] = "built-in check"
      <3>1. PICK words \in ({evidence.found} \cup evidence.others) \ {0} :
              line = <<"built-in check", words>>
        BY DEF Check!BuiltIn
      <3>2. QED
        BY <3>1
    <2>2. QED
      BY <2>1
  <1>3. \A words : <<"built-in check", words>> \in Check!BuiltIn <=>
          words \in ({evidence.found} \cup evidence.others) \ {0}
    BY DEF Check!BuiltIn
  <1>a. \A line \in lines :
          \/ line[1] \in {"outcome", "built-in check", "16-bit check", "wallet"}
          \/ line[1] = "finds" /\ choice.kind = "builtInCheck"
               /\ evidence.found \notin {0, choice.words}
          \/ line[1] = "passphrase" /\ evidence.without
    <2> DEFINE finds == <<"finds", evidence.found>>
               six   == <<"16-bit check", "passes">>
               pass_ == <<"passphrase", IF evidence.sixteen THEN "very likely" ELSE "not confirmed">>
               mine  == <<"wallet", IF typed # "" /\ ~evidence.without THEN "with" ELSE "without">>
               out   == <<"outcome", evidence.outcome>>
    <2>1. /\ finds[1] = "finds" /\ six[1] = "16-bit check" /\ pass_[1] = "passphrase"
          /\ mine[1] = "wallet" /\ out[1] = "outcome"
      OBVIOUS
    <2>2. ASSUME NEW line \in lines
          PROVE  \/ line = out \/ line = six \/ line = mine \/ line \in Check!BuiltIn
                 \/ line = finds /\ choice.kind = "builtInCheck"
                      /\ evidence.found \notin {0, choice.words}
                 \/ line = pass_ /\ evidence.without
      BY <1>1, <2>2
    <2> HIDE DEF finds, six, pass_, mine, out
    <2>3. QED
      BY <1>2, <2>1, <2>2
  <1>4. \A words : <<"built-in check", words>> \in lines <=>
              /\ Check!IsMatch /\ shown
              /\ words \in ({evidence.found} \cup evidence.others) \ {0}
    BY <1>1, <1>3
  <1>5. <<"wallet", "with">> \in lines =>
              Check!IsMatch /\ choice.kind = "wallet" /\ typed # "" /\ ~evidence.without
    BY <1>1, <1>2
  <1>6. <<"wallet", "without">> \in lines =>
              Check!IsMatch /\ choice.kind = "wallet" /\ (typed = "" \/ evidence.without)
    BY <1>1, <1>2
  <1>7. <<"16-bit check", "passes">> \in lines <=> evidence.sixteen
    BY <1>1, <1>2
  <1>8. (\E line \in lines : line[1] = "passphrase") <=> evidence.without
    <2> DEFINE said_ == <<"passphrase", IF evidence.sixteen THEN "very likely" ELSE "not confirmed">>
    <2>1. ASSUME evidence.without
          PROVE  said_ \in lines /\ said_[1] = "passphrase"
      BY <1>1, <2>1
    <2>2. ASSUME NEW line \in lines, line[1] = "passphrase"
          PROVE  evidence.without
      BY <1>a, <2>2
    <2>3. QED
      BY <2>1, <2>2
  <1>9. (\E line \in lines : line[1] = "finds") <=>
              choice.kind = "builtInCheck" /\ evidence.found \notin {0, choice.words}
    <2> DEFINE found == <<"finds", evidence.found>>
    <2>1. ASSUME choice.kind = "builtInCheck", evidence.found \notin {0, choice.words}
          PROVE  found \in lines /\ found[1] = "finds"
      BY <1>1, <2>1
    <2>2. ASSUME NEW line \in lines, line[1] = "finds"
          PROVE  choice.kind = "builtInCheck" /\ evidence.found \notin {0, choice.words}
      BY <1>a, <2>2
    <2>3. QED
      BY <2>1, <2>2
  <1>10. QED
    BY <1>4, <1>5, <1>6, <1>7, <1>8, <1>9

(* A match is of one of the readings, and none has no words.               *)
LEMMA MatchesAre ==
  ASSUME CheckAsks, NEW passphrase
  PROVE  /\ Check!Matches(passphrase) <=>
              /\ wallet.words \in EveryReading(recovery.container, recovery.passing)
              /\ wallet.passphrase = passphrase
         /\ 0 \notin EveryReading(recovery.container, recovery.passing)
  <1>1. 0 \notin EveryReading(recovery.container, recovery.passing)
    BY LengthsAssumption
       DEF CheckAsks, EveryReading, ReadingsOf, BuiltInCheckLengths, Lengths
  <1>2. QED
    BY <1>1, SameReadings DEF Check!Matches

LEMMA LinesAreTrueHolds ==
  ASSUME CheckInv, Check!Ended
  PROVE  Check!LinesAreTrue
  <1> USE DEF CheckInv
  <1>1. /\ evidence = Check!EvidenceOf(choice) /\ result = ResultLines
        /\ exit = "success" <=> Check!IsMatch
    BY DEF LinesAreOfEvidence, Check!Ended
  <1>2. /\ evidence.found \in recovery.passing \cup {0}
        /\ evidence.others = recovery.passing \ {evidence.found}
        /\ evidence.found = 0 <=> recovery.passing = {}
        /\ choice.kind = "wallet" =>
              /\ Check!IsMatch <=> Check!Matches(typed) \/ Check!Matches("")
              /\ evidence.without <=> ~Check!Matches(typed) /\ Check!Matches("")
        /\ choice.kind # "wallet" =>
              /\ Check!IsMatch <=> recovery.passing # {}
              /\ evidence.without = FALSE
        /\ evidence.sixteen <=>
              /\ recovery.sixteen /\ choice.kind # "builtInCheck" /\ recovery.container = Full
              /\ \/ ~Single(recovery.passing)
                 \/ choice.kind = "wallet" /\ Check!IsMatch /\ wallet.words = Full
    BY <1>1, EvidenceIsTrue DEF Check!IsMatch
  <1>3. recovery.passing \subseteq Check!Lengths /\ 0 \notin recovery.passing
        /\ recovery.passing \subseteq Shorts
    BY LengthsAssumption DEF CheckAsks, BuiltInCheckLengths, Check!Lengths
  <1>4. \A words : <<"built-in check", words>> \in result <=>
              /\ Check!IsMatch /\ (~script \/ evidence.others # {})
              /\ words \in ({evidence.found} \cup evidence.others) \ {0}
    BY <1>1, LinesTell
  <1>5. Check!ToldLengths \subseteq recovery.passing
    BY <1>2, <1>4 DEF Check!ToldLengths
  <1>6. ASSUME exit = "success", ~script \/ ~Check!Single(recovery.passing)
        PROVE  recovery.passing \subseteq Check!ToldLengths
    <2>1. ASSUME NEW words \in recovery.passing, script
          PROVE  evidence.others # {}
      <3>1. ~(recovery.passing = {evidence.found})
        BY <1>6, <2>1 DEF Check!Single
      <3>2. QED
        BY <1>2, <2>1, <3>1
    <2>2. QED
      BY <1>1, <1>2, <1>3, <1>4, <1>6, <2>1 DEF Check!ToldLengths
  <1>7. /\ <<"wallet", "with">> \in result => wallet.words # 0 /\ wallet.passphrase = typed
        /\ <<"wallet", "without">> \in result => wallet.words # 0 /\ wallet.passphrase = ""
    <2>1. /\ <<"wallet", "with">> \in result =>
               Check!IsMatch /\ choice.kind = "wallet" /\ typed # "" /\ ~evidence.without
          /\ <<"wallet", "without">> \in result =>
               Check!IsMatch /\ choice.kind = "wallet" /\ (typed = "" \/ evidence.without)
      BY <1>1, LinesTell
    <2>2. QED
      BY <1>2, <2>1, MatchesAre
  <1>8. <<"16-bit check", "passes">> \in result <=>
         /\ recovery.sixteen /\ choice.kind # "builtInCheck"
         /\ \/ Full \in Check!ReadingsOf(recovery.container, recovery.passing, Check!Detect)
            \/ exit = "success" /\ choice.kind = "wallet" /\ wallet.words = Full
               /\ recovery.container = Full
    <2>1. <<"16-bit check", "passes">> \in result <=> evidence.sixteen
      BY <1>1, LinesTell
    <2>2. Full \in Check!ReadingsOf(recovery.container, recovery.passing, Check!Detect) <=>
            recovery.container = Full /\ ~Single(recovery.passing)
      <3>1. Check!Detect = 0 /\ 0 \notin Shorts /\ Full # 0 /\ Full \notin recovery.passing
        BY <1>3, LengthsAssumption DEF Check!Detect
      <3>2. Check!ReadingsOf(recovery.container, recovery.passing, Check!Detect)
              = IF recovery.container # Full THEN {recovery.container}
                ELSE IF Single(recovery.passing) THEN recovery.passing
                ELSE recovery.passing \cup {Full}
        BY <1>3, <3>1 DEF Check!ReadingsOf, Check!Single, Single
      <3>3. QED
        BY <3>1, <3>2
    <2>3. QED
      BY <1>1, <1>2, <2>1, <2>2
  <1>9. exit = "success" /\ choice.kind # "wallet" => recovery.passing # {}
    BY <1>1, <1>2
  <1>10. QED
    BY <1>5, <1>6, <1>7, <1>8, <1>9 DEF Check!LinesAreTrue

(* What a confirmation by a wallet or by a built-in check takes.           *)
LEMMA RekeyByWallet ==
  ASSUME CheckAsks, NEW w
  PROVE  Confirm("reference", w, recovery.container, recovery.passing, Detect).refusal = "none"
           <=> w \in EveryReading(recovery.container, recovery.passing)
  <1>1. ReadingsOf(recovery.container, recovery.passing, Detect) # {}
    BY LengthsAssumption DEF CheckAsks, ReadingsOf, BuiltInCheckLengths, Detect, Single
  <1>2. QED
    BY <1>1 DEF Confirm, References, Accepted, Refused

LEMMA RekeyByCheck ==
  ASSUME CheckAsks, NEW w, NEW length \in BuiltInCheckLengths(recovery.container)
  PROVE  Confirm("builtInCheck", w, recovery.container, recovery.passing, length).refusal = "none"
           <=> recovery.passing = {length}
  <1> DEFINE passing == recovery.passing
             confirmed == Confirm("builtInCheck", w, recovery.container, passing, length)
  <1>1. /\ recovery.container = Full /\ length \in Shorts /\ Full \notin Shorts
        /\ length # Detect /\ BuiltInCheckConfirms(recovery.container, length)
    BY LengthsAssumption DEF BuiltInCheckLengths, BuiltInCheckConfirms, Detect
  <1>2. ASSUME passing = {length}
        PROVE  confirmed.refusal = "none"
    <2>1. ReadingsOf(recovery.container, passing, length) = {length}
      BY <1>1, <1>2 DEF ReadingsOf
    <2>2. (CHOOSE words \in {length} : TRUE) = length
      OBVIOUS
    <2>3. /\ OneReadingRefusal({length}, passing, length) = "none"
          /\ CheckRefusal(passing, length, length) = "none"
      BY <1>2 DEF OneReadingRefusal, Single, CheckRefusal, Differs
    <2>4. QED
      BY <1>1, <2>1, <2>2, <2>3 DEF Confirm, References, Accepted
  <1>3. ASSUME confirmed.refusal = "none"
        PROVE  passing = {length}
    <2>1. "builtInCheck" \in Confirmations
      BY DEF Confirmations
    <2>2. QED
      BY <1>3, <2>1, Accepts
  <1>4. QED
    BY <1>2, <1>3

LEMMA RekeyTakesItHolds ==
  ASSUME CheckInv, Check!Ended, choice.kind \in {"wallet", "builtInCheck"}
  PROVE  Check!RekeyTakesIt
  <1> USE DEF CheckInv
  <1>1. /\ evidence = Check!EvidenceOf(choice) /\ result = ResultLines
        /\ rehearsal = "reporting"
        /\ exit = "success" <=> Check!IsMatch
    BY DEF LinesAreOfEvidence, Check!Ended
  <1>2. /\ (\E line \in result : line[1] = "passphrase") <=> evidence.without
        /\ (\E line \in result : line[1] = "finds") <=>
              choice.kind = "builtInCheck" /\ evidence.found \notin {0, choice.words}
    BY <1>1, LinesTell
  <1>3. /\ evidence.found \in recovery.passing \cup {0}
        /\ evidence.others = recovery.passing \ {evidence.found}
        /\ evidence.found = 0 <=> recovery.passing = {}
        /\ choice.kind = "builtInCheck" /\ choice.words \in recovery.passing =>
              evidence.found = choice.words
        /\ choice.kind = "wallet" =>
              /\ Check!IsMatch <=> Check!Matches(typed) \/ Check!Matches("")
              /\ evidence.without <=> ~Check!Matches(typed) /\ Check!Matches("")
        /\ choice.kind # "wallet" =>
              /\ Check!IsMatch <=> recovery.passing # {}
              /\ evidence.without = FALSE
    BY <1>1, EvidenceIsTrue DEF Check!IsMatch
  <1>4. Check!Unreserved <=>
          /\ Check!IsMatch /\ ~evidence.without
          /\ choice.kind = "builtInCheck" =>
               evidence.found \in {0, choice.words} /\ evidence.others = {}
    BY <1>1, <1>2 DEF Check!Unreserved
  <1> DEFINE w == IF wallet.passphrase = typed THEN wallet.words ELSE 0
  <1>5. ASSUME choice.kind = "wallet"
        PROVE  Check!Unreserved <=>
                 Check!Confirm("reference", w, recovery.container, recovery.passing,
                               choice.words).refusal = "none"
    <2>1. choice.words = Detect
      BY <1>5 DEF CheckAsks, Detect
    <2>2. Check!Unreserved <=> Check!Matches(typed)
      BY <1>3, <1>4, <1>5
    <2>3. Check!Matches(typed) <=> w \in EveryReading(recovery.container, recovery.passing)
      BY MatchesAre
    <2>4. Confirm("reference", w, recovery.container, recovery.passing, Detect).refusal = "none"
            <=> w \in EveryReading(recovery.container, recovery.passing)
      BY RekeyByWallet
    <2>5. QED
      BY <2>1, <2>2, <2>3, <2>4, SameConfirm
  <1>6. ASSUME choice.kind = "builtInCheck"
        PROVE  Check!Unreserved <=>
                 Check!Confirm("builtInCheck", w, recovery.container, recovery.passing,
                               choice.words).refusal = "none"
    <2>1. choice.words \in BuiltInCheckLengths(recovery.container) /\ choice.words # 0
      BY <1>1, <1>6, LengthsAssumption DEF CheckAsks, BuiltInCheckLengths
    <2>2. Check!Unreserved <=> recovery.passing = {choice.words}
      <3>1. CASE recovery.passing = {choice.words}
        BY <1>3, <1>4, <1>6, <3>1
      <3>2. ASSUME Check!Unreserved
            PROVE  recovery.passing = {choice.words}
        <4>1. evidence.found = choice.words /\ evidence.found \in recovery.passing
          BY <1>3, <1>4, <1>6, <3>2
        <4>2. recovery.passing \ {evidence.found} = {}
          BY <1>3, <1>4, <1>6, <3>2
        <4>3. QED
          BY <4>1, <4>2
      <3>3. QED
        BY <3>1, <3>2
    <2>3. Confirm("builtInCheck", w, recovery.container, recovery.passing, choice.words).refusal = "none"
            <=> recovery.passing = {choice.words}
      BY <2>1, RekeyByCheck
    <2>4. QED
      BY <2>2, <2>3, SameConfirm
  <1>7. QED
    BY <1>5, <1>6 DEF Check!RekeyTakesIt

(* check.rs and rehearsal.rs, for every set of lengths with a built-in     *)
(* check and every recovery: each line of a result is true and none that   *)
(* matters is left out, and what it calls a match without reserve is what  *)
(* mhfe rekey takes.                                                       *)
THEOREM CheckTellsTheTruth == Spec => []ResultIsTrue
  <1> DEFINE Inv == command \in {"none", "check"} => CheckInv
  <1>1. Init => Inv
    BY CheckBegins
  <1>2. Inv /\ [Next]_vars => Inv'
    <2>1. ASSUME CheckInv, UNCHANGED <<checkVars, exit>>
          PROVE  CheckInv'
      <3>1. UNCHANGED <<rehearsal, script, recovery, wallet, choice, typed, evidence, result, exit>>
        BY <2>1 DEF checkVars
      <3>2. Check!EvidenceOf(choice)' = Check!EvidenceOf(choice)
        BY <3>1 DEF Check!EvidenceOf, Check!CompareState, Check!Matches, Check!Reads24Words
      <3>3. ResultLines' = ResultLines /\ (Check!IsMatch' <=> Check!IsMatch)
        BY <3>1 DEF ResultLines, Check!WhatElse, Check!IsMatch, Check!MatchedLines, Check!BuiltIn
      <3>4. CheckAsks'
        BY <2>1, <3>1 DEF CheckInv, CheckAsks
      <3>5. QED
        BY <2>1, <3>1, <3>2, <3>3, <3>4 DEF CheckInv, LinesAreOfEvidence
    <2>2. QED
      BY <2>1, CheckStepsKeep, OneCommandRuns
  <1>3. CheckInv => Check!ResultIsTrue
    BY LinesAreTrueHolds, RekeyTakesItHolds
       DEF Check!ResultIsTrue, Check!LinesAreTrue, Check!RekeyTakesIt
  <1>4. Inv => ResultIsTrue
    BY <1>3 DEF ResultIsTrue
  <1>5. QED
    BY <1>1, <1>2, <1>4, PTL DEF Spec

-----------------------------------------------------------------------------
(* What main does before a command.                                        *)

(* What a device stands on, and so where its pages go.                     *)
LEMMA DevicesAre ==
  /\ Start!Devices = {"disk", "luks", "integrity", "volume", "mixed", "tower", "zram", "backed"}
  /\ Start!Below["disk"] = {} /\ Start!Below["backed"] = {} /\ Start!Below["zram"] = {}
  /\ Start!Below["luks"] = {"disk"} /\ Start!Below["integrity"] = {"disk"}
  /\ Start!Below["volume"] = {"luks"} /\ Start!Below["mixed"] = {"luks", "disk"}
  /\ Start!Below["tower"] = {"volume"}
  BY DEF Start!Devices, Start!Below

LEMMA EncryptedIs ==
  Start!Encrypted[Start!MaxDeviceDepth] \subseteq {"zram", "luks", "volume"}
  <1> DEFINE Rests(left, f) ==
               {device \in Start!Devices :
                  \/ Start!StaysInMemory(device) \/ device \in Start!Crypt
                  \/ /\ left > 0 /\ Start!Below[device] # {}
                     /\ Start!Below[device] \subseteq f[left - 1]}
             Solves(f) == f = [left \in 0..Start!MaxDeviceDepth |-> Rests(left, f)]
             all == [left \in 0..1 |-> IF left = 0 THEN {"zram", "luks"}
                                       ELSE {"zram", "luks", "volume"}]
  <1>0. Start!MaxDeviceDepth = 1 /\ Start!Crypt = {"luks"}
        /\ \A device : Start!StaysInMemory(device) <=> device = "zram"
    BY DEF Start!MaxDeviceDepth, Start!Crypt, Start!StaysInMemory
  <1>1. Rests(0, all) = {"zram", "luks"}
    BY <1>0, DevicesAre
  <1>2. Rests(1, all) = {"zram", "luks", "volume"}
    BY <1>0, DevicesAre
  <1>3. Solves(all)
    <2>1. \A left \in 0..1 : all[left] = Rests(left, all)
      BY <1>1, <1>2
    <2> HIDE DEF Rests
    <2>2. QED
      BY <1>0, <2>1
  <1>4. Solves(Start!Encrypted)
    <2>1. Start!Encrypted = CHOOSE f : Solves(f)
      BY DEF Start!Encrypted
    <2> HIDE DEF Solves
    <2>2. QED
      BY <1>3, <2>1
  <1>5. \A left \in 0..1 : Start!Encrypted[left] = Rests(left, Start!Encrypted)
    BY <1>0, <1>4
  <1>6. Start!Encrypted[0] = {"zram", "luks"}
    BY <1>0, <1>5, DevicesAre
  <1>7. Start!Encrypted[1] \subseteq {"zram", "luks", "volume"}
    BY <1>0, <1>5, <1>6, DevicesAre
  <1>8. QED
    BY <1>0, <1>7

LEMMA LeaksIs ==
  /\ ~Start!Leaks["zram"] /\ ~Start!Leaks["luks"] /\ ~Start!Leaks["volume"]
  <1> DEFINE Goes(device, f) ==
               CASE device \in {"disk", "backed", "unseen"} -> TRUE
                 [] device \in {"luks", "zram"} -> FALSE
                 [] OTHER -> \E under \in Start!Below[device] : f[under]
             Solves(f) == f = [device \in Start!Devices \cup {"unseen"} |-> Goes(device, f)]
             all == [device \in Start!Devices \cup {"unseen"} |->
                       device \notin {"luks", "zram", "volume", "tower"}]
  <1>1. \A device \in Start!Devices \cup {"unseen"} : all[device] = Goes(device, all)
    BY DevicesAre
  <1>2. Solves(all)
    BY <1>1
  <1>3. Solves(Start!Leaks)
    <2>1. Start!Leaks = CHOOSE f : Solves(f)
      BY DEF Start!Leaks
    <2> HIDE DEF Solves
    <2>2. QED
      BY <1>2, <2>1
  <1>4. \A device \in Start!Devices \cup {"unseen"} : Start!Leaks[device] = Goes(device, Start!Leaks)
    BY <1>3
  <1>5. QED
    BY <1>4, DevicesAre

(* Pages of secrets may reach a disk plain, and the names of the areas do  *)
(* not hide it.                                                            *)
Plain ==
  /\ host.os = "linux" /\ ~Start!AllNamedAsMemory
  /\ ~host.readable \/ \E area \in host.areas : Start!Leaks[area.on]
Checking == {"check", "started", "running", "given", "run", "secrets"}
Ready == {"isolate", "handler"} \cup Checking

SwapIsSettled ==
  /\ prepare \in {"begin", "swap", "ended"} \cup Ready
  /\ kind_of \in {"secrets", "self-test", "serve"} /\ host \in Start!Hosts
  /\ prepare \in Ready /\ Start!Reads(kind_of) /\ Plain =>
       "swap" \in said \/ Start!SwapForbidden(host.group)
  /\ prepare = "secrets" => Start!Reads(kind_of) /\ (Start!Gaps # {} => "gaps" \in said)

(* Every thread comes from one that was isolated while it was the only one.*)
ThreadsAre ==
  /\ threads \in Seq(BOOLEAN) /\ Len(threads) >= 1
  /\ prepare \in {"begin", "swap", "isolate"} => Len(threads) = 1
  /\ prepare \in {"handler"} \cup Checking /\ Start!Isolated(kind_of) =>
       /\ \A t \in DOMAIN threads : threads[t]
       /\ "network" \in offers => "network" \in isolation

(* The part that is kept, and the one whose check is under way, is the     *)
(* next; the message names that one, or the first that failed.             *)
FirstWrong(name) ==
  \E i \in DOMAIN gave : /\ name = Start!Parts[i] /\ gave[i] = "failed"
                         /\ \A j \in 1..(i - 1) : gave[j] # "failed"
Outcomes == {"passed", "warning", "failed"}

PartsAre ==
  /\ gave \in Seq(Outcomes) /\ Len(gave) <= Len(Start!Parts)
  /\ prepare \in {"started", "running"} => Len(gave) < Len(Start!Parts) /\ part = Start!NextPart
  /\ prepare = "running" => working = Start!NextPart
  /\ working # "none" => prepare \in {"running", "ended"}
  /\ prepare \in {"begin", "swap", "isolate", "handler"} => gave = <<>> /\ exit = "none"
  /\ prepare \in Checking => exit = "none"
  /\ prepare \in {"run", "secrets"} => Len(gave) = Len(Start!Parts) /\ Start!Failures = {}
  /\ Start!Reads(kind_of) /\ Len(gave) >= 3 /\ gave[3] # "failed" => Start!CoreDumps
  /\ prepare = "ended" /\ exit = "internal" =>
       IF working # "none" THEN named = working ELSE FirstWrong(named)

ProtectInv == SwapIsSettled /\ ThreadsAre /\ PartsAre

LEMMA PartsOf ==
  /\ Start!Reads(kind_of) => Start!Parts = <<"hashes", "argon2", "core-dumps", "isolation">>
  /\ Len(Start!Parts) \in 0..4 /\ DOMAIN Start!Parts = 1..Len(Start!Parts)
  /\ \A i \in DOMAIN Start!Parts : Start!Parts[i] # "none"
  <1>1. CASE Start!Reads(kind_of)
    BY <1>1 DEF Start!Parts
  <1>2. CASE ~Start!Reads(kind_of) /\ kind_of = "serve"
    BY <1>2 DEF Start!Parts
  <1>3. CASE ~Start!Reads(kind_of) /\ kind_of # "serve"
    BY <1>3 DEF Start!Parts
  <1>4. QED
    BY <1>1, <1>2, <1>3

LEMMA ProtectBegins == ASSUME Init PROVE ProtectInv
  <1>1. Start!Init
    BY DEF Init
  <1>2. SwapIsSettled
    <2>1. host \in Start!Hosts
      BY <1>1 DEF Start!Init, Start!Hosts, Start!Elsewhere
    <2>2. QED
      BY <1>1, <2>1 DEF Start!Init, SwapIsSettled, Ready, Checking
  <1>3. ThreadsAre
    BY <1>1 DEF Start!Init, ThreadsAre, Checking
  <1>4. PartsAre
    BY <1>1, PartsOf DEF Start!Init, PartsAre
  <1>5. QED
    BY <1>2, <1>3, <1>4 DEF ProtectInv

(* An area whose pages leak is none of those that are let be, but for its  *)
(* name.                                                                   *)
LEMMA AreasAre ==
  ASSUME NEW areas, areas = host.areas, host \in Start!Hosts, host.os = "linux"
  PROVE  /\ ~Start!OnDisk => ~Plain
         /\ Start!Areasleft = {} => ~Plain
  <1>1. ASSUME ~Start!OnDisk
        PROVE  ~Plain
    <2>1. Start!AllNamedAsMemory
      BY <1>1 DEF Start!OnDisk, Start!Readable, Start!SwapOnDisk, Start!AllNamedAsMemory
    <2>2. QED
      BY <2>1 DEF Plain
  <1>2. ASSUME Start!Areasleft = {}
        PROVE  ~Plain
    <2>1. host.readable /\ Start!Unprotected(host.areas) = {}
      BY <1>2 DEF Start!Areasleft, Start!Readable
    <2>2. \A area \in host.areas : area.on \in {"zram", "luks", "volume"}
      BY <2>1, EncryptedIs DEF Start!Unprotected
    <2>3. QED
      BY <2>1, <2>2, LeaksIs DEF Plain
  <1>3. QED
    BY <1>1, <1>2

LEMMA StartKeepsSwap ==
  ASSUME ProtectInv, Start!Next
  PROVE  SwapIsSettled'
  <1> USE DEF ProtectInv, Start!choices
  <1>1. CASE Start!Begins
    BY <1>1 DEF Start!Begins, Start!entered, SwapIsSettled, Ready, Checking, Start!Reads
  <1>2. CASE Start!KeepsOffSwap
    <2>1. /\ prepare = "swap" /\ prepare' = "isolate"
          /\ UNCHANGED <<kind_of, host, isolation, said>>
      BY <1>2 DEF Start!KeepsOffSwap, Start!Settled, Start!entered
    <2>2. Plain' <=> Plain
      BY <2>1 DEF Plain, Start!AllNamedAsMemory
    <2>3. ~Plain \/ Start!SwapForbidden(host.group)
      BY <1>2, AreasAre DEF Start!KeepsOffSwap, Plain, SwapIsSettled
    <2>4. QED
      BY <2>1, <2>2, <2>3 DEF SwapIsSettled, Ready, Checking, Start!Reads, Start!SwapForbidden
  <1>3. CASE Start!Restarts
    <2>1. host' \in Start!Hosts
      <3>1. CASE host' = host
        BY <3>1 DEF SwapIsSettled
      <3>2. CASE host' = [host EXCEPT !.group.swap_max = @ \cup {0}]
        <4>1. host \in Start!Linux
          BY <1>3 DEF Start!Restarts, Start!MustRestart, SwapIsSettled, Start!Hosts, Start!Elsewhere
        <4>2. host.group \in Start!Groups
          BY <4>1 DEF Start!Linux
        <4>3. [host.group EXCEPT !.swap_max = @ \cup {0}] \in Start!Groups
          BY <4>2 DEF Start!Groups
        <4>4. host' = [host EXCEPT !.group = [host.group EXCEPT !.swap_max = @ \cup {0}]]
          BY <3>2, <4>1 DEF Start!Linux
        <4>5. host' \in Start!Linux
          BY <4>1, <4>3, <4>4 DEF Start!Linux
        <4>6. QED
          BY <4>5 DEF Start!Hosts
      <3>3. QED
        BY <1>3, <3>1, <3>2 DEF Start!Restarts
    <2>2. prepare = "swap" /\ UNCHANGED <<prepare, kind_of, said>>
      BY <1>3 DEF Start!Restarts
    <2>3. QED
      BY <2>1, <2>2 DEF SwapIsSettled, Ready, Checking
  <1>4. CASE Start!StaysOnDisk
    <2>1. /\ prepare = "swap" /\ prepare' = "isolate" /\ ~Plain
          /\ UNCHANGED <<kind_of, host, isolation, said>>
      BY <1>4, AreasAre DEF Start!StaysOnDisk, Start!Settled, Start!entered, Start!MustRestart, SwapIsSettled
    <2>2. Plain' <=> Plain
      BY <2>1 DEF Plain, Start!AllNamedAsMemory
    <2>3. QED
      BY <2>1, <2>2 DEF SwapIsSettled, Ready, Checking
  <1>5. CASE Start!AsksAboutSwap
    <2>1. /\ prepare = "swap" /\ UNCHANGED <<kind_of, host, isolation>>
          /\ (prepare' = "isolate" /\ "swap" \in said') \/ prepare' = "ended"
      BY <1>5 DEF Start!AsksAboutSwap, Start!entered
    <2>2. QED
      BY <2>1 DEF SwapIsSettled, Ready, Checking
  <1>6. ASSUME UNCHANGED <<kind_of, host, said>>, prepare' \in Ready => prepare \in Ready,
               prepare' = "secrets" => prepare = "secrets" /\ isolation' = isolation,
               prepare' \in {"begin", "swap", "ended"} \cup Ready
        PROVE  SwapIsSettled'
    <2>1. Plain' <=> Plain
      BY <1>6 DEF Plain, Start!AllNamedAsMemory
    <2>2. prepare' = "secrets" => Start!Gaps' = Start!Gaps
      BY <1>6 DEF Start!Gaps
    <2>3. QED
      BY <1>6, <2>1, <2>2 DEF SwapIsSettled, Start!Reads, Start!SwapForbidden
  <1>7. CASE Start!Enters \/ Start!StopsOnCtrlC \/ Start!StartsPart \/ Start!RunsPart
             \/ Start!GivesResult \/ Start!EndsPart \/ Start!Panics \/ Start!Reports
    <2>1. UNCHANGED <<kind_of, host, said>>
      BY <1>7 DEF Start!Enters, Start!StopsOnCtrlC, Start!StartsPart, Start!RunsPart,
           Start!GivesResult, Start!EndsPart, Start!Panics, Start!Reports
    <2>2. prepare' \in Ready => prepare \in Ready
      BY <1>7 DEF Start!Enters, Start!StopsOnCtrlC, Start!StartsPart, Start!RunsPart,
           Start!GivesResult, Start!EndsPart, Start!Panics, Start!Reports, Ready, Checking
    <2>3. prepare' = "secrets" => prepare = "secrets" /\ isolation' = isolation
      BY <1>7 DEF Start!Enters, Start!StopsOnCtrlC, Start!StartsPart, Start!RunsPart,
           Start!GivesResult, Start!EndsPart, Start!Panics, Start!Reports
    <2>4. prepare' \in {"begin", "swap", "ended"} \cup Ready
      BY <1>7 DEF Start!Enters, Start!StopsOnCtrlC, Start!StartsPart, Start!RunsPart,
           Start!GivesResult, Start!EndsPart, Start!Panics, Start!Reports, SwapIsSettled, Ready, Checking
    <2>5. QED
      BY <1>6, <2>1, <2>2, <2>3, <2>4
  <1>8. CASE Start!Warns
    <2>1. /\ prepare = "run" /\ Start!Reads(kind_of) /\ prepare' = "secrets"
          /\ said' = said \cup (IF Start!Gaps = {} THEN {} ELSE {"gaps"})
          /\ UNCHANGED <<kind_of, host, isolation>>
      BY <1>8 DEF Start!Warns, Start!entered
    <2>2. (Plain' <=> Plain) /\ Start!Gaps' = Start!Gaps
      BY <2>1 DEF Plain, Start!AllNamedAsMemory, Start!Gaps
    <2>3. QED
      BY <2>1, <2>2 DEF SwapIsSettled, Ready, Checking, Start!Reads, Start!SwapForbidden
  <1>9. QED
    BY <1>1, <1>2, <1>3, <1>4, <1>5, <1>7, <1>8 DEF Start!Next

(* What is known of each thread makes a sequence.                          *)
LEMMA ThreadSequence ==
  ASSUME NEW n \in Nat, NEW f \in [1..n -> BOOLEAN]
  PROVE  f \in Seq(BOOLEAN) /\ Len(f) = n
  OBVIOUS

(* A thread is started by the first one.                                   *)
LEMMA ThreadsStart ==
  ASSUME threads \in Seq(BOOLEAN), Len(threads) >= 1, NEW n \in Nat, Start!Starts(n)
  PROVE  /\ threads' \in Seq(BOOLEAN) /\ Len(threads') >= 1
         /\ (\A t \in DOMAIN threads : threads[t]) => \A t \in DOMAIN threads' : threads'[t]
  <1>1. Len(threads) + n \in Nat /\ Len(threads) \in Nat /\ DOMAIN threads = 1..Len(threads)
    OBVIOUS
  <1>2. threads' = [t \in 1..(Len(threads) + n) |-> IF t <= Len(threads) THEN threads[t]
                                                    ELSE threads[1]]
    BY DEF Start!Starts
  <1>3. threads' \in Seq(BOOLEAN) /\ Len(threads') = Len(threads) + n
    BY <1>1, <1>2
  <1>4. QED
    BY <1>1, <1>2, <1>3

LEMMA StartKeepsThreads ==
  ASSUME ProtectInv, Start!Next
  PROVE  ThreadsAre'
  <1> USE DEF ProtectInv, Checking, Start!choices, Start!entered
  <1>1. CASE Start!Begins \/ Start!KeepsOffSwap \/ Start!Restarts \/ Start!StaysOnDisk
             \/ Start!AsksAboutSwap
    <2>1. /\ prepare \in {"begin", "swap"} /\ threads' = threads
          /\ prepare' \in {"swap", "isolate", "ended"}
      BY <1>1 DEF Start!Begins, Start!KeepsOffSwap, Start!Restarts, Start!StaysOnDisk,
           Start!AsksAboutSwap, Start!Settled
    <2>2. QED
      BY <2>1 DEF ThreadsAre
  <1>2. CASE Start!Enters
    <2>1. /\ prepare = "isolate" /\ prepare' = "handler" /\ kind_of' = kind_of
          /\ Start!Isolated(kind_of) /\ Len(threads) = 1 => isolation' = offers'
          /\ IF Start!Isolated(kind_of)
             THEN threads' = [t \in DOMAIN threads |-> threads[t] \/ t = 1]
             ELSE threads' = threads
      BY <1>2 DEF Start!Enters
    <2>2. threads \in Seq(BOOLEAN) /\ Len(threads) = 1 /\ DOMAIN threads = {1}
      BY <2>1 DEF ThreadsAre
    <2>3. CASE Start!Isolated(kind_of)
      <3>1. threads' = [t \in {1} |-> threads[t] \/ t = 1]
        BY <2>1, <2>2, <2>3
      <3>2. DOMAIN threads' = {1} /\ threads'[1] = (threads[1] \/ 1 = 1)
        BY <3>1
      <3>3. threads'[1] = TRUE
        BY <3>2, Zenon
      <3>4. threads' = [t \in {1} |-> threads'[t]] /\ 1..1 = {1}
        BY <3>1, <3>2
      <3>5. threads' \in [1..1 -> BOOLEAN]
        BY <3>2, <3>3, <3>4
      <3>6. threads' \in Seq(BOOLEAN) /\ Len(threads') = 1
        <4>1. 1 \in Nat
          OBVIOUS
        <4>2. QED
          BY <3>5, <4>1, ThreadSequence
      <3>7. \A t \in DOMAIN threads' : threads'[t]
        BY <3>2, <3>3
      <3>8. QED
        BY <2>1, <2>2, <2>3, <3>6, <3>7 DEF ThreadsAre
    <2>4. CASE ~Start!Isolated(kind_of)
      BY <2>1, <2>2, <2>4 DEF ThreadsAre, Start!Isolated
    <2>5. QED
      BY <2>3, <2>4
  <1>3. ASSUME NEW n \in Nat, Start!Starts(n), UNCHANGED <<kind_of, offers, isolation>>,
               prepare \in {"handler", "started"}, prepare' \in {"check", "running"}
        PROVE  ThreadsAre'
    BY <1>3, ThreadsStart DEF ThreadsAre, Start!Isolated
  <1>4. CASE Start!StopsOnCtrlC
    BY <1>3, <1>4 DEF Start!StopsOnCtrlC
  <1>5. ASSUME UNCHANGED <<threads, kind_of, offers, isolation>>,
               prepare' = "ended" \/ (prepare \in Checking /\ prepare' \in Checking)
        PROVE  ThreadsAre'
    BY <1>5 DEF ThreadsAre, Start!Isolated
  <1>6. CASE Start!RunsPart
    <2>1. /\ prepare = "started" /\ prepare' = "running" /\ UNCHANGED <<kind_of, offers, isolation>>
          /\ Start!Starts(4) \/ threads' = threads
      BY <1>6 DEF Start!RunsPart
    <2>2. QED
      BY <1>3, <1>5, <2>1
  <1>7. CASE Start!StartsPart \/ Start!GivesResult \/ Start!EndsPart
    BY <1>5, <1>7 DEF Start!StartsPart, Start!GivesResult, Start!EndsPart
  <1>8. CASE Start!Panics \/ Start!Reports \/ Start!Warns
    BY <1>5, <1>8 DEF Start!Panics, Start!Reports, Start!Warns
  <1>9. QED
    BY <1>1, <1>2, <1>4, <1>6, <1>7, <1>8 DEF Start!Next

(* What the reports name is the first part that failed.                    *)
LEMMA TheFirstFailureIsNamed ==
  ASSUME gave \in Seq(Outcomes), Start!Failures # {}
  PROVE  FirstWrong(Start!Parts[Start!FirstFailure])
  <1>1. DOMAIN gave = 1..Len(gave) /\ Len(gave) \in Nat
    OBVIOUS
  <1>2. Start!Failures \in SUBSET Nat
    BY <1>1 DEF Start!Failures
  <1>3. \E i \in Start!Failures : \A j \in Start!Failures : i <= j
    BY <1>2, HasLeast
  <1>4. /\ Start!FirstFailure \in Start!Failures
        /\ \A j \in Start!Failures : Start!FirstFailure <= j
    BY <1>3 DEF Start!FirstFailure
  <1>5. PICK first : first = Start!FirstFailure
    OBVIOUS
  <1>6. /\ first \in DOMAIN gave /\ gave[first] = "failed"
        /\ \A j \in DOMAIN gave : gave[j] = "failed" => first <= j
    BY <1>4, <1>5 DEF Start!Failures
  <1>7. \A j \in 1..(first - 1) : gave[j] # "failed"
    BY <1>1, <1>6
  <1>8. QED
    BY <1>5, <1>6, <1>7 DEF FirstWrong

LEMMA StartKeepsParts ==
  ASSUME ProtectInv, Start!Next
  PROVE  PartsAre'
  <1> USE DEF ProtectInv, Checking, Start!choices, Start!entered, Start!checks
  <1>0. /\ Start!Reads(kind_of) =>
             Start!Parts = <<"hashes", "argon2", "core-dumps", "isolation">>
        /\ Len(Start!Parts) \in 0..4 /\ DOMAIN Start!Parts = 1..Len(Start!Parts)
        /\ \A i \in DOMAIN Start!Parts : Start!Parts[i] # "none"
    BY PartsOf
  <1>1. CASE Start!Begins
    <2>1. gave' = <<>> /\ exit' = "none" /\ working' = "none" /\ prepare' \in {"swap", "isolate"}
      BY <1>1 DEF Start!Begins, PartsAre
    <2>2. Len(Start!Parts)' \in 0..4
      BY PartsOf DEF Start!Parts
    <2>3. QED
      BY <2>1, <2>2 DEF PartsAre
  <1>2. ASSUME kind_of' = kind_of
        PROVE  /\ Start!Parts' = Start!Parts /\ (Start!Reads(kind_of)' <=> Start!Reads(kind_of))
               /\ gave' = gave => Start!NextPart' = Start!NextPart /\ Start!Failures' = Start!Failures
    BY <1>2 DEF Start!Parts, Start!Reads, Start!NextPart, Start!Failures
  <1>3. CASE Start!KeepsOffSwap \/ Start!Restarts \/ Start!StaysOnDisk \/ Start!Enters
             \/ Start!StopsOnCtrlC
    <2>1. /\ prepare \in {"swap", "isolate", "handler"}
          /\ prepare' \in {"swap", "isolate", "handler", "check"}
          /\ UNCHANGED <<kind_of, working, gave, exit>>
      BY <1>3 DEF Start!KeepsOffSwap, Start!Restarts, Start!StaysOnDisk, Start!Enters,
           Start!StopsOnCtrlC, Start!Settled
    <2>2. gave = <<>> /\ exit = "none" /\ working = "none"
      BY <2>1 DEF PartsAre
    <2>3. QED
      BY <1>0, <1>2, <2>1, <2>2 DEF PartsAre
  <1>4. CASE Start!AsksAboutSwap
    <2>1. /\ prepare = "swap" /\ UNCHANGED <<kind_of, working, gave>>
          /\ \/ prepare' = "isolate" /\ exit' = exit
             \/ prepare' = "ended" /\ exit' \in {"failure", "cancelled"}
      BY <1>4 DEF Start!AsksAboutSwap
    <2>2. gave = <<>> /\ exit = "none" /\ working = "none"
      BY <2>1 DEF PartsAre
    <2>3. QED
      BY <1>0, <1>2, <2>1, <2>2 DEF PartsAre
  <1>5. ASSUME UNCHANGED <<kind_of, host, isolation>>
        PROVE  Start!CoreDumps' <=> Start!CoreDumps
    BY <1>5 DEF Start!CoreDumps
  <1>6. CASE Start!StartsPart
    <2>1. /\ prepare = "check" /\ Len(gave) < Len(Start!Parts) /\ part' = Start!NextPart
          /\ prepare' = "started" /\ UNCHANGED <<kind_of, host, isolation, working, gave, exit>>
      BY <1>6 DEF Start!StartsPart
    <2>2. QED
      BY <1>2, <1>5, <2>1 DEF PartsAre
  <1>7. CASE Start!RunsPart
    <2>1. /\ prepare = "started" /\ working' = Start!NextPart
          /\ prepare' = "running" /\ UNCHANGED <<kind_of, host, isolation, part, gave, exit>>
      BY <1>7 DEF Start!RunsPart
    <2>2. QED
      BY <1>2, <1>5, <2>1 DEF PartsAre
  <1>8. CASE Start!GivesResult
    <2>1. /\ prepare = "running" /\ prepare' = "given" /\ working' = "none"
          /\ UNCHANGED <<kind_of, host, isolation, exit>>
      BY <1>8 DEF Start!GivesResult
    <2>2. PICK outcome_ \in Start!MayGive(working) : gave' = Append(gave, outcome_)
      BY <1>8 DEF Start!GivesResult
    <2>3. outcome_ \in Outcomes
      BY <2>2 DEF Start!MayGive, Outcomes
    <2>4. /\ gave \in Seq(Outcomes) /\ Len(gave) < Len(Start!Parts)
          /\ working = Start!NextPart /\ exit = "none"
      BY <2>1 DEF PartsAre
    <2>5. /\ gave' \in Seq(Outcomes) /\ Len(gave') = Len(gave) + 1 /\ Len(gave) \in Nat
          /\ gave'[Len(gave) + 1] = outcome_ /\ \A i \in 1..Len(gave) : gave'[i] = gave[i]
      BY <2>2, <2>3, <2>4
    <2>6. ASSUME Start!Reads(kind_of), Len(gave') >= 3, gave'[3] # "failed"
          PROVE  Start!CoreDumps
      <3>1. CASE Len(gave) >= 3
        BY <2>5, <2>6, <3>1 DEF PartsAre
      <3>2. CASE Len(gave) = 2
        <4>1. working = "core-dumps" /\ outcome_ # "failed"
          BY <1>0, <2>4, <2>5, <2>6, <3>2 DEF Start!NextPart
        <4>2. host.os = "windows" \/ Start!CoreDumps
          BY <2>2, <4>1 DEF Start!MayGive
        <4>3. QED
          BY <4>2 DEF Start!CoreDumps
      <3>3. Len(gave) >= 3 \/ Len(gave) = 2
        <4> DEFINE n == Len(gave)
        <4>1. n \in Nat /\ n + 1 >= 3
          BY <2>5, <2>6, Zenon
        <4> HIDE DEF n
        <4>2. n >= 3 \/ n = 2
          BY ONLY <4>1, SMT
        <4>3. QED
          BY <4>2, Zenon DEF n
      <3>4. QED
        BY <3>1, <3>2, <3>3
    <2>7. QED
      BY <1>0, <1>2, <1>5, <2>1, <2>4, <2>5, <2>6 DEF PartsAre
  <1>9. CASE Start!EndsPart
    <2>1. /\ prepare = "given" /\ prepare' = "check"
          /\ UNCHANGED <<kind_of, host, isolation, working, gave, exit>>
      BY <1>9 DEF Start!EndsPart
    <2>2. QED
      BY <1>2, <1>5, <2>1 DEF PartsAre
  <1>10. CASE Start!Panics
    <2>1. /\ prepare = "running" /\ named' = part /\ exit' = "internal" /\ prepare' = "ended"
          /\ working \in {"hashes", "argon2"} /\ UNCHANGED <<kind_of, host, isolation, working, gave>>
      BY <1>10 DEF Start!Panics
    <2>2. working = part
      BY <2>1 DEF PartsAre
    <2>3. QED
      BY <1>2, <1>5, <2>1, <2>2 DEF PartsAre
  <1>11. CASE Start!Reports
    <2>1. /\ prepare = "check" /\ Len(gave) = Len(Start!Parts)
          /\ UNCHANGED <<kind_of, host, isolation, working, gave>>
          /\ \/ Start!Failures = {} /\ prepare' = "run" /\ exit' = exit
             \/ /\ Start!Failures # {} /\ prepare' = "ended" /\ exit' = "internal"
                /\ named' = Start!Parts[Start!FirstFailure]
      BY <1>11 DEF Start!Reports
    <2>2. working = "none" /\ exit = "none" /\ gave \in Seq(Outcomes)
      BY <2>1 DEF PartsAre
    <2>3. CASE Start!Failures = {}
      BY <1>2, <1>5, <2>1, <2>2, <2>3 DEF PartsAre
    <2>4. CASE Start!Failures # {}
      <3>1. FirstWrong(named')
        BY <2>1, <2>2, <2>4, TheFirstFailureIsNamed
      <3>2. FirstWrong(named)'
        BY <1>2, <2>1, <3>1 DEF FirstWrong
      <3>3. QED
        BY <1>2, <1>5, <2>1, <2>2, <2>4, <3>2 DEF PartsAre
    <2>5. QED
      BY <2>3, <2>4
  <1>12. CASE Start!Warns
    <2>1. /\ prepare = "run" /\ prepare' = "secrets"
          /\ UNCHANGED <<kind_of, host, isolation, working, gave, exit>>
      BY <1>12 DEF Start!Warns
    <2>2. QED
      BY <1>2, <1>5, <2>1 DEF PartsAre
  <1>13. QED
    BY <1>1, <1>3, <1>4, <1>6, <1>7, <1>8, <1>9, <1>10, <1>11, <1>12 DEF Start!Next

(* main.rs, protect.rs and startup.rs: a secret is asked for only once no  *)
(* page can reach a disk plain or the person chose to go on, but for swap  *)
(* areas that all have the name of a device in memory; with every thread   *)
(* isolated, the network closed where the system closes it, and every part *)
(* sound; the part that stopped the program, or the first that failed, is  *)
(* named.                                                                  *)
THEOREM ProtectedBeforeSecrets == Spec => []Protected
  <1> DEFINE Inv == command \in {"none", "start"} => ProtectInv
  <1>1. Init => Inv
    BY ProtectBegins
  <1>2. Inv /\ [Next]_vars => Inv'
    <2>1. ASSUME ProtectInv, UNCHANGED <<startVars, exit>>
          PROVE  ProtectInv'
      <3>1. SwapIsSettled'
        BY <2>1 DEF ProtectInv, SwapIsSettled, startVars, Plain, Start!AllNamedAsMemory, Ready,
             Checking, Start!Reads, Start!SwapForbidden, Start!Gaps
      <3>2. ThreadsAre'
        BY <2>1 DEF ProtectInv, ThreadsAre, startVars, Start!Isolated
      <3>3. Start!Parts' = Start!Parts /\ (Start!CoreDumps' <=> Start!CoreDumps)
            /\ (Start!Reads(kind_of)' <=> Start!Reads(kind_of))
        BY <2>1 DEF startVars, Start!Parts, Start!CoreDumps, Start!Reads
      <3>4. PartsAre'
        BY <2>1, <3>3 DEF ProtectInv, PartsAre, FirstWrong, Start!NextPart, Start!Failures, startVars
      <3>5. QED
        BY <3>1, <3>2, <3>4 DEF ProtectInv
    <2>2. ASSUME ProtectInv, Start!Next
          PROVE  ProtectInv'
      BY <2>2, StartKeepsSwap, StartKeepsThreads, StartKeepsParts DEF ProtectInv
    <2>3. QED
      BY <2>1, <2>2, OneCommandRuns
  <1>3. ASSUME ProtectInv
        PROVE  Start!Protected
    <2> USE <1>3 DEF ProtectInv
    <2>1. Start!SwapIsDecided
      BY DEF SwapIsSettled, Ready, Checking, Plain, Start!SwapIsDecided, Start!SwapForbidden
    <2>2. Start!EveryThreadIsIsolated
      BY DEF ThreadsAre, Checking, Start!EveryThreadIsIsolated
    <2>3. prepare = "secrets" => Start!CoreDumps
      <3> SUFFICES ASSUME prepare = "secrets" PROVE Start!CoreDumps
        OBVIOUS
      <3>1. Len(gave) = 4 /\ Start!Failures = {} /\ Start!Reads(kind_of)
        BY PartsOf DEF PartsAre, SwapIsSettled
      <3>2. 3 \in DOMAIN gave
        BY <3>1 DEF PartsAre
      <3>3. gave[3] # "failed"
        BY <3>1, <3>2 DEF Start!Failures
      <3>4. QED
        BY <3>1, <3>3 DEF PartsAre
    <2>4. Start!AskedOnceSound
      BY <2>3 DEF PartsAre, SwapIsSettled, Start!AskedOnceSound
    <2>5. Start!TheRunningPartIsNamed
      BY DEF PartsAre, FirstWrong, Start!TheRunningPartIsNamed
    <2>6. QED
      BY <2>1, <2>2, <2>4, <2>5 DEF Start!Protected
  <1>4. Inv => Protected
    BY <1>3 DEF Protected
  <1>5. QED
    BY <1>1, <1>2, <1>4, PTL DEF Spec

-----------------------------------------------------------------------------
(* A phrase is recovered: decrypt and its summary.                         *)

(* A set that has the first number, and with each the next one, has all.   *)
LEMMA HasAll ==
  ASSUME NEW n \in Nat, NEW S, 0 \in S, \A k \in 0..n : k < n /\ k \in S => k + 1 \in S
  PROVE  \A k \in 0..n : k \in S
  <1> DEFINE T == {k \in 0..n : k \notin S}
  <1>1. ASSUME T # {}
        PROVE  FALSE
    <2>1. T \in SUBSET Nat
      OBVIOUS
    <2>2. PICK k \in T : \A y \in T : k <= y
      BY <1>1, <2>1, HasLeast
    <2>3. k \in 0..n /\ k \notin S /\ k # 0
      BY <2>2
    <2>4. k - 1 \in 0..n /\ k - 1 < n /\ k - 1 + 1 = k /\ ~(k <= k - 1)
      BY <2>3
    <2>5. k - 1 \in S
      BY <2>2, <2>4
    <2>6. QED
      BY <2>3, <2>4, <2>5
  <1>2. QED
    BY <1>1

(* The function that a fold of acts is defined by.                         *)
Folds(f, acts, k, g) ==
  g = [s \in SUBSET (1..k) |->
         IF s = {} THEN f
         ELSE Decrypt!Does(g[s \ {Decrypt!Max(s)}], acts[Decrypt!Max(s)])]

LEMMA MaxIsLast ==
  ASSUME NEW k \in Nat, NEW s \in SUBSET (1..(k + 1)), k + 1 \in s
  PROVE  Decrypt!Max(s) = k + 1
  <1>1. \A y \in s : y \in Int /\ k + 1 >= y
    OBVIOUS
  <1>2. \A x \in s : (\A y \in s : x >= y) => x = k + 1
    BY <1>1
  <1>3. QED
    BY <1>1, <1>2 DEF Decrypt!Max

LEMMA FoldExists ==
  ASSUME NEW f, NEW acts, NEW n \in Nat
  PROVE  \E g : Folds(f, acts, n, g)
  <1> DEFINE S == {k \in Nat : \E g : Folds(f, acts, k, g)}
  <1>1. 0 \in S
    <2>1. Folds(f, acts, 0, [s \in SUBSET (1..0) |-> f])
      <3>1. 1..0 = {} /\ SUBSET (1..0) = {{}}
        OBVIOUS
      <3>2. QED
        BY <3>1 DEF Folds
    <2>2. QED
      BY <2>1
  <1>2. ASSUME NEW k \in Nat, k \in S
        PROVE  k + 1 \in S
    <2>1. PICK g : Folds(f, acts, k, g)
      BY <1>2
    <2> DEFINE h == [s \in SUBSET (1..(k + 1)) |->
                       IF k + 1 \in s THEN Decrypt!Does(g[s \ {k + 1}], acts[k + 1]) ELSE g[s]]
    <2>2. ASSUME NEW s \in SUBSET (1..(k + 1))
          PROVE  h[s] = IF s = {} THEN f
                        ELSE Decrypt!Does(h[s \ {Decrypt!Max(s)}], acts[Decrypt!Max(s)])
      <3>1. CASE k + 1 \in s
        <4>1. Decrypt!Max(s) = k + 1
          BY <3>1, MaxIsLast
        <4>2. s \ {k + 1} \in SUBSET (1..(k + 1)) /\ k + 1 \notin s \ {k + 1}
          OBVIOUS
        <4>3. h[s \ {k + 1}] = g[s \ {k + 1}]
          BY <4>2
        <4>4. QED
          BY <3>1, <4>1, <4>3
      <3>2. CASE k + 1 \notin s
        <4>1. s \in SUBSET (1..k)
          BY <3>2
        <4>2. g[s] = IF s = {} THEN f
                     ELSE Decrypt!Does(g[s \ {Decrypt!Max(s)}], acts[Decrypt!Max(s)])
          BY <2>1, <4>1 DEF Folds
        <4>3. /\ s \ {Decrypt!Max(s)} \in SUBSET (1..(k + 1))
              /\ k + 1 \notin s \ {Decrypt!Max(s)}
          BY <3>2
        <4>4. h[s] = g[s] /\ h[s \ {Decrypt!Max(s)}] = g[s \ {Decrypt!Max(s)}]
          BY <3>2, <4>3
        <4>5. QED
          BY <4>2, <4>4
      <3>3. QED
        BY <3>1, <3>2
    <2>3. h = [s \in SUBSET (1..(k + 1)) |-> h[s]]
      OBVIOUS
    <2>4. Folds(f, acts, k + 1, h)
      <3> HIDE DEF h
      <3>1. QED
        BY <2>2, <2>3 DEF Folds
    <2>5. QED
      BY <2>4
  <1>3. QED
    <2>1. \A k \in 0..n : k < n /\ k \in S => k + 1 \in S
      BY <1>2
    <2>2. n \in S
      <3> HIDE DEF S
      <3>1. QED
        BY <1>1, <2>1, HasAll
    <2>3. QED
      BY <2>2

(* A fold does one act after another.                                      *)
Folded(f, acts) == Decrypt!FoldLeft(Decrypt!Does, f, acts)

Staged(f, acts, st) ==
  /\ st[0] = f
  /\ \A k \in 0..Len(acts) : k < Len(acts) => st[k + 1] = Decrypt!Does(st[k], acts[k + 1])
  /\ Folded(f, acts) = st[Len(acts)]

LEMMA FoldStages ==
  ASSUME NEW f, NEW A, NEW acts \in Seq(A)
  PROVE  \E st : Staged(f, acts, st)
  <1> DEFINE n == Len(acts)
             g == CHOOSE x : Folds(f, acts, n, x)
             st == [k \in 0..n |-> g[1..k]]
  <1>0. n \in Nat /\ DOMAIN acts = 1..n
    OBVIOUS
  <1>1. Folds(f, acts, n, g)
    BY <1>0, FoldExists
  <1>2. Folded(f, acts) = g[1..n]
    BY <1>0 DEF Folded, Decrypt!FoldLeft, Decrypt!MapThenFoldSet, Folds
  <1> HIDE DEF g, n
  <1>3. \A s \in SUBSET (1..n) :
          g[s] = IF s = {} THEN f
                 ELSE Decrypt!Does(g[s \ {Decrypt!Max(s)}], acts[Decrypt!Max(s)])
    BY <1>1 DEF Folds
  <1>4. st[0] = f
    <2>1. 1..0 = {} /\ 0 \in 0..n
      BY <1>0
    <2>2. QED
      BY <1>3, <2>1
  <1>5. ASSUME NEW k \in 0..n, k < n
        PROVE  st[k + 1] = Decrypt!Does(st[k], acts[k + 1])
    <2>0. k \in Nat /\ k + 1 \in 0..n /\ k + 1 \in Nat
      BY <1>0, <1>5
    <2>1. /\ 1..(k + 1) \in SUBSET (1..n) /\ k + 1 \in 1..(k + 1)
          /\ (1..(k + 1)) \ {k + 1} = 1..k
      BY <1>0, <2>0
    <2>2. Decrypt!Max(1..(k + 1)) = k + 1
      <3>1. 1..(k + 1) \in SUBSET (1..(k + 1))
        OBVIOUS
      <3>2. QED
        BY <2>0, <2>1, <3>1, MaxIsLast
    <2>3. g[1..(k + 1)] = Decrypt!Does(g[1..k], acts[k + 1])
      <3>1. 1..(k + 1) # {}
        BY <2>1
      <3>2. QED
        BY <1>3, <2>1, <2>2, <3>1
    <2>4. QED
      BY <2>0, <2>3
  <1>6. Folded(f, acts) = st[n]
    BY <1>0, <1>2
  <1>7. QED
    <2> HIDE DEF st
    <2>1. QED
      BY <1>4, <1>5, <1>6 DEF n, Staged

(* A flow: without steps everything is on the record.                      *)
IsFlow(f) ==
  /\ f = [on |-> f.on, summary |-> f.summary, last |-> f.last, shown |-> f.shown,
          pending |-> f.pending, recording |-> f.recording]
  /\ {f.on, f.recording} \subseteq BOOLEAN /\ (~f.on => f.recording)

(* The acts of a command, and those that put nothing on the record.        *)
Sorts == {"fact", "record", "notice", "result"}
Texts == {"settings", "container", "password", "passphrase", "all shown", "disk", "safe computer",
          "yes", "no", "will be shown", "recovered", "verified", "not verified", "decrypt",
          "not recovered"}
Shows == {"later", "next", "now"}
LineActs == [do : {"keep"}, kind : Sorts, line : Texts, shown : Shows]
LinkActs == [do : {"link"}, line : Texts]
OffActs  == LineActs \cup LinkActs \cup {Decrypt!Step, Decrypt!Recording(FALSE)}
OnActs   == LineActs \cup LinkActs \cup {Decrypt!Step, Decrypt!Recording(TRUE)}
AllActs  == OffActs \cup OnActs

(* What is alike of two flows: what is kept, and whether it is kept.       *)
SameKept(f, g) == f.on = g.on /\ f.summary = g.summary /\ f.last = g.last
Alike(f, g) == SameKept(f, g) /\ f.recording = g.recording

LEMMA LineDoes ==
  ASSUME NEW f, IsFlow(f), NEW act \in LineActs
  PROVE  /\ IsFlow(Decrypt!Does(f, act)) /\ Decrypt!Does(f, act).on = f.on
         /\ Decrypt!Does(f, act).recording = f.recording
         /\ ~f.recording => SameKept(Decrypt!Does(f, act), f)
  <1>1. Decrypt!Does(f, act) = Decrypt!KeepLines(f, act.kind, act.line, act.shown)
    BY DEF Decrypt!Does, LineActs
  <1>2. QED
    BY <1>1 DEF Decrypt!KeepLines, IsFlow, SameKept

LEMMA LinkDoes ==
  ASSUME NEW f, IsFlow(f), NEW act \in LinkActs
  PROVE  /\ IsFlow(Decrypt!Does(f, act)) /\ Decrypt!Does(f, act).on = f.on
         /\ Decrypt!Does(f, act).recording = f.recording
         /\ ~f.recording => SameKept(Decrypt!Does(f, act), f)
  <1>1. Decrypt!Does(f, act) = Decrypt!KeepLink(f, act.line)
    BY DEF Decrypt!Does, LinkActs
  <1>2. QED
    BY <1>1 DEF Decrypt!KeepLink, IsFlow, SameKept

LEMMA StepDoes ==
  ASSUME NEW f, IsFlow(f)
  PROVE  /\ IsFlow(Decrypt!Does(f, Decrypt!Step))
         /\ Alike(Decrypt!Does(f, Decrypt!Step), f)
  BY DEF Decrypt!Does, Decrypt!Step, IsFlow, Alike, SameKept

LEMMA RecordingDoes ==
  ASSUME NEW f, IsFlow(f), NEW on \in BOOLEAN
  PROVE  /\ IsFlow(Decrypt!Does(f, Decrypt!Recording(on)))
         /\ SameKept(Decrypt!Does(f, Decrypt!Recording(on)), f)
         /\ Decrypt!Does(f, Decrypt!Recording(on)).recording = (on \/ ~f.on)
  <1>1. Decrypt!Does(f, Decrypt!Recording(on)) = [f EXCEPT !.recording = on \/ ~f.on]
    BY DEF Decrypt!Does, Decrypt!Recording
  <1>2. QED
    BY <1>1 DEF IsFlow, SameKept

LEMMA DoesKeepsFlow ==
  ASSUME NEW f, IsFlow(f), NEW act \in AllActs
  PROVE  IsFlow(Decrypt!Does(f, act)) /\ Decrypt!Does(f, act).on = f.on
  <1>1. CASE act \in LineActs
    BY <1>1, LineDoes
  <1>2. CASE act \in LinkActs
    BY <1>2, LinkDoes
  <1>3. CASE act = Decrypt!Step
    BY <1>3, StepDoes DEF Alike, SameKept
  <1>4. CASE act = Decrypt!Recording(TRUE)
    BY <1>4, RecordingDoes DEF SameKept
  <1>5. CASE act = Decrypt!Recording(FALSE)
    BY <1>5, RecordingDoes DEF SameKept
  <1>6. QED
    BY <1>1, <1>2, <1>3, <1>4, <1>5 DEF AllActs, OffActs, OnActs

(* Off the record nothing is kept.                                         *)
LEMMA DoesOffRecord ==
  ASSUME NEW f, IsFlow(f), f.on, NEW act \in OffActs,
         ~f.recording \/ act = Decrypt!Recording(FALSE)
  PROVE  /\ IsFlow(Decrypt!Does(f, act)) /\ ~Decrypt!Does(f, act).recording
         /\ SameKept(Decrypt!Does(f, act), f)
  <1>1. CASE act \in LineActs \cup LinkActs
    <2>1. act # Decrypt!Recording(FALSE)
      BY <1>1 DEF LineActs, LinkActs, Decrypt!Recording
    <2>2. QED
      BY <1>1, <2>1, LineDoes, LinkDoes
  <1>2. CASE act = Decrypt!Step
    <2>1. act # Decrypt!Recording(FALSE)
      BY <1>2 DEF Decrypt!Step, Decrypt!Recording
    <2>2. QED
      BY <1>2, <2>1, StepDoes DEF Alike
  <1>3. CASE act = Decrypt!Recording(FALSE)
    BY <1>3, RecordingDoes
  <1>4. QED
    BY <1>1, <1>2, <1>3 DEF OffActs

(* An act keeps two flows alike, and one that starts or stops the record   *)
(* makes them so.                                                          *)
LEMMA DoesAlike ==
  ASSUME NEW f, NEW g, IsFlow(f), IsFlow(g), SameKept(f, g), NEW act \in AllActs,
         Alike(f, g) \/ act \in {Decrypt!Recording(TRUE), Decrypt!Recording(FALSE)}
  PROVE  Alike(Decrypt!Does(f, act), Decrypt!Does(g, act))
  <1>1. CASE act \in LineActs
    <2>1. act \notin {Decrypt!Recording(TRUE), Decrypt!Recording(FALSE)}
      BY <1>1 DEF LineActs, Decrypt!Recording
    <2>2. /\ Decrypt!Does(f, act) = Decrypt!KeepLines(f, act.kind, act.line, act.shown)
          /\ Decrypt!Does(g, act) = Decrypt!KeepLines(g, act.kind, act.line, act.shown)
      BY <1>1 DEF Decrypt!Does, LineActs
    <2>3. Decrypt!Joins(f, act.kind) <=> Decrypt!Joins(g, act.kind)
      BY DEF SameKept, Decrypt!Joins
    <2>4. Decrypt!KeepLines(f, act.kind, act.line, act.shown).on = f.on
          /\ Decrypt!KeepLines(g, act.kind, act.line, act.shown).on = g.on
          /\ Decrypt!KeepLines(f, act.kind, act.line, act.shown).recording = f.recording
          /\ Decrypt!KeepLines(g, act.kind, act.line, act.shown).recording = g.recording
      BY DEF Decrypt!KeepLines, IsFlow
    <2>5. Decrypt!KeepLines(f, act.kind, act.line, act.shown).summary
            = Decrypt!KeepLines(g, act.kind, act.line, act.shown).summary
          /\ Decrypt!KeepLines(f, act.kind, act.line, act.shown).last
            = Decrypt!KeepLines(g, act.kind, act.line, act.shown).last
      BY <2>1, <2>3 DEF Decrypt!KeepLines, IsFlow, Alike, SameKept
    <2>6. QED
      BY <2>1, <2>2, <2>4, <2>5 DEF Alike, SameKept
  <1>2. CASE act \in LinkActs
    <2>1. act \notin {Decrypt!Recording(TRUE), Decrypt!Recording(FALSE)}
      BY <1>2 DEF LinkActs, Decrypt!Recording
    <2>2. /\ Decrypt!Does(f, act) = Decrypt!KeepLink(f, act.line)
          /\ Decrypt!Does(g, act) = Decrypt!KeepLink(g, act.line)
      BY <1>2 DEF Decrypt!Does, LinkActs
    <2>3. /\ Decrypt!KeepLink(f, act.line).on = f.on
          /\ Decrypt!KeepLink(f, act.line).last = f.last
          /\ Decrypt!KeepLink(f, act.line).recording = f.recording
          /\ Decrypt!KeepLink(f, act.line).summary
               = IF f.recording THEN Append(f.summary, act.line) ELSE f.summary
      BY DEF Decrypt!KeepLink, IsFlow
    <2>4. /\ Decrypt!KeepLink(g, act.line).on = g.on
          /\ Decrypt!KeepLink(g, act.line).last = g.last
          /\ Decrypt!KeepLink(g, act.line).recording = g.recording
          /\ Decrypt!KeepLink(g, act.line).summary
               = IF g.recording THEN Append(g.summary, act.line) ELSE g.summary
      BY DEF Decrypt!KeepLink, IsFlow
    <2>5. Alike(f, g)
      BY <2>1
    <2>6. QED
      BY <2>2, <2>3, <2>4, <2>5 DEF Alike, SameKept
  <1>3. CASE act = Decrypt!Step
    <2>1. act \notin {Decrypt!Recording(TRUE), Decrypt!Recording(FALSE)}
      BY <1>3 DEF Decrypt!Step, Decrypt!Recording
    <2>2. QED
      BY <1>3, <2>1, StepDoes DEF Alike, SameKept
  <1>4. ASSUME NEW on \in BOOLEAN, act = Decrypt!Recording(on)
        PROVE  Alike(Decrypt!Does(f, act), Decrypt!Does(g, act))
    BY <1>4, RecordingDoes DEF Alike, SameKept
  <1>5. QED
    BY <1>1, <1>2, <1>3, <1>4 DEF AllActs, OffActs, OnActs

(* The same acts keep two flows alike, as do acts that begin with one that *)
(* starts or stops the record.                                             *)
LEMMA EmptyIsEmpty ==
  ASSUME NEW A, NEW s \in Seq(A), Len(s) = 0
  PROVE  s = <<>>
  OBVIOUS

LEMMA FoldAlike ==
  ASSUME NEW f, NEW g, IsFlow(f), IsFlow(g), SameKept(f, g), NEW acts \in Seq(AllActs),
         \/ Alike(f, g)
         \/ acts # <<>> /\ acts[1] \in {Decrypt!Recording(TRUE), Decrypt!Recording(FALSE)}
  PROVE  LET d == Folded(f, acts)
             e == Folded(g, acts)
         IN  IsFlow(d) /\ IsFlow(e) /\ Alike(d, e) /\ d.on = f.on
  <1>0. PICK n \in Nat : n = Len(acts)
    OBVIOUS
  <1>a. \A k \in 0..n : k < n => acts[k + 1] \in AllActs
    BY <1>0
  <1>1. PICK st : /\ st[0] = f
                  /\ \A k \in 0..n : k < n => st[k + 1] = Decrypt!Does(st[k], acts[k + 1])
                  /\ Folded(f, acts) = st[n]
    <2>1. \E s : Staged(f, acts, s)
      BY FoldStages
    <2>2. QED
      BY <1>0, <2>1 DEF Staged
  <1>2. PICK su : /\ su[0] = g
                  /\ \A k \in 0..n : k < n => su[k + 1] = Decrypt!Does(su[k], acts[k + 1])
                  /\ Folded(g, acts) = su[n]
    <2>1. \E s : Staged(g, acts, s)
      BY FoldStages
    <2>2. QED
      BY <1>0, <2>1 DEF Staged
  <1> DEFINE S == {k \in Nat : /\ IsFlow(st[k]) /\ IsFlow(su[k]) /\ SameKept(st[k], su[k])
                               /\ k >= 1 \/ Alike(f, g) => Alike(st[k], su[k])
                               /\ st[k].on = f.on}
  <1>3. 0 \in S
    BY <1>1, <1>2
  <1>4. ASSUME NEW k \in 0..n, k < n, k \in S
        PROVE  k + 1 \in S
    <2>1. /\ IsFlow(st[k]) /\ IsFlow(su[k]) /\ SameKept(st[k], su[k]) /\ st[k].on = f.on
          /\ k >= 1 \/ Alike(f, g) => Alike(st[k], su[k])
      BY <1>4
    <2>2. /\ st[k + 1] = Decrypt!Does(st[k], acts[k + 1])
          /\ su[k + 1] = Decrypt!Does(su[k], acts[k + 1]) /\ acts[k + 1] \in AllActs
      BY <1>a, <1>1, <1>2, <1>4
    <2>3. Alike(st[k], su[k])
          \/ acts[k + 1] \in {Decrypt!Recording(TRUE), Decrypt!Recording(FALSE)}
      <3>1. CASE k >= 1
        BY <2>1, <3>1
      <3>2. CASE k = 0
        <4>1. k + 1 = 1
          BY <3>2
        <4>2. acts # <<>> =>
                (acts[1] \in {Decrypt!Recording(TRUE), Decrypt!Recording(FALSE)}
                 => acts[k + 1] \in {Decrypt!Recording(TRUE), Decrypt!Recording(FALSE)})
          BY <4>1
        <4>3. QED
          BY <2>1, <4>2
      <3>3. k >= 1 \/ k = 0
        BY <1>4
      <3>4. QED
        BY <3>1, <3>2, <3>3
    <2>4. Alike(st[k + 1], su[k + 1])
      BY <2>1, <2>2, <2>3, DoesAlike
    <2>5. IsFlow(st[k + 1]) /\ IsFlow(su[k + 1])
      BY <2>1, <2>2, DoesKeepsFlow
    <2>6. st[k + 1].on = st[k].on
      BY <2>1, <2>2, DoesKeepsFlow
    <2>7. k + 1 \in Nat /\ SameKept(st[k + 1], su[k + 1])
      BY <1>0, <1>4, <2>4 DEF Alike
    <2>8. QED
      BY <2>1, <2>4, <2>5, <2>6, <2>7
  <1>5. n \in S
    <2>1. \A k \in 0..n : k < n /\ k \in S => k + 1 \in S
      BY <1>4
    <2>2. n \in 0..n
      OBVIOUS
    <2> HIDE DEF S
    <2>3. QED
      BY <1>3, <2>1, <2>2, HasAll
  <1>6. Alike(st[n], su[n])
    <2>1. CASE n >= 1
      BY <1>5, <2>1
    <2>2. CASE n = 0
      <3>1. acts = <<>>
        BY <1>0, <2>2, EmptyIsEmpty
      <3>2. QED
        BY <1>5, <2>2, <3>1
    <2>3. QED
      BY <2>1, <2>2
  <1>7. QED
    BY <1>1, <1>2, <1>5, <1>6

LEMMA OffThenOn ==
  ASSUME NEW body \in Seq(OffActs)
  PROVE  LET ends == body \o <<Decrypt!Recording(TRUE)>>
         IN  /\ body \in Seq(AllActs) /\ ends \in Seq(AllActs)
             /\ Len(ends) = Len(body) + 1 /\ ends[Len(body) + 1] = Decrypt!Recording(TRUE)
             /\ \A k \in 0..Len(body) : k < Len(body) => ends[k + 1] = body[k + 1]
  <1> DEFINE on == Decrypt!Recording(TRUE)
             ends == body \o <<on>>
  <1>1. on \in AllActs /\ OffActs \subseteq AllActs
    BY DEF AllActs, OnActs
  <1> HIDE DEF on
  <1>2. body \in Seq(AllActs)
    BY <1>1
  <1>3. /\ ends \in Seq(AllActs) /\ Len(ends) = Len(body) + 1 /\ ends[Len(body) + 1] = on
        /\ \A k \in 0..Len(body) : k < Len(body) => ends[k + 1] = body[k + 1]
    BY <1>1, <1>2
  <1>4. QED
    BY <1>2, <1>3 DEF on

(* Acts off the record change nothing of it, and the record may be taken up*)
(* again at their end.                                                     *)
LEMMA FoldOffRecord ==
  ASSUME NEW f, IsFlow(f), f.on, NEW body \in Seq(OffActs),
         ~f.recording \/ (body # <<>> /\ body[1] = Decrypt!Recording(FALSE)),
         NEW acts, acts = body \/ acts = body \o <<Decrypt!Recording(TRUE)>>
  PROVE  LET d == Folded(f, acts)
         IN  /\ IsFlow(d) /\ SameKept(d, f)
             /\ acts = body => ~d.recording
             /\ acts = body \o <<Decrypt!Recording(TRUE)>> => d.recording
  <1>d. PICK ends : ends = body \o <<Decrypt!Recording(TRUE)>>
    OBVIOUS
  <1>0. PICK m \in Nat : m = Len(body)
    OBVIOUS
  <1>b. /\ \A k \in 0..m : k < m => body[k + 1] \in OffActs
        /\ body = <<>> <=> m = 0
    BY <1>0
  <1>a. /\ body \in Seq(AllActs) /\ ends \in Seq(AllActs)
        /\ Len(body) = m /\ Len(ends) = m + 1 /\ ends[m + 1] = Decrypt!Recording(TRUE)
        /\ \A k \in 0..m : k < m => ends[k + 1] = body[k + 1]
    BY <1>0, <1>d, OffThenOn
  <1>e. m + 1 # m /\ m + 1 \in Nat
    OBVIOUS
  <1>f. body # ends
    BY <1>a, <1>e
  <1>c. PICK n : /\ n \in Nat /\ n = Len(acts) /\ m <= n
                 /\ acts \in Seq(AllActs)
                 /\ \A k \in 0..m : k < m => acts[k + 1] = body[k + 1]
    <2>1. CASE acts = body
      BY <1>a, <2>1
    <2>2. CASE acts = ends
      BY <1>a, <1>e, <2>2
    <2>3. QED
      BY <1>d, <2>1, <2>2
  <1>1. PICK st : /\ st[0] = f
                  /\ \A k \in 0..n : k < n => st[k + 1] = Decrypt!Does(st[k], acts[k + 1])
                  /\ Folded(f, acts) = st[n]
    <2>1. \E s : Staged(f, acts, s)
      <3>1. acts \in Seq(AllActs)
        BY <1>c
      <3>2. QED
        BY <3>1, FoldStages
    <2>2. QED
      BY <1>c, <2>1 DEF Staged
  <1> DEFINE S == {k \in Nat : /\ IsFlow(st[k]) /\ SameKept(st[k], f)
                               /\ k >= 1 \/ ~f.recording => ~st[k].recording}
  <1>3. 0 \in S
    <2>1. SameKept(f, f)
      BY DEF SameKept
    <2>2. QED
      BY <1>1, <2>1
  <1>4. ASSUME NEW k \in 0..m, k < m, k \in S
        PROVE  k + 1 \in S
    <2>1. /\ IsFlow(st[k]) /\ SameKept(st[k], f)
          /\ k >= 1 \/ ~f.recording => ~st[k].recording
      BY <1>4
    <2>2. /\ st[k + 1] = Decrypt!Does(st[k], body[k + 1]) /\ body[k + 1] \in OffActs
      BY <1>a, <1>b, <1>c, <1>1, <1>4
    <2>3. ~st[k].recording \/ body[k + 1] = Decrypt!Recording(FALSE)
      <3>1. CASE k >= 1
        BY <2>1, <3>1
      <3>2. CASE k = 0
        <4>1. k + 1 = 1
          BY <3>2
        <4>2. QED
          BY <2>1, <4>1
      <3>3. k >= 1 \/ k = 0
        BY <1>4
      <3>4. QED
        BY <3>1, <3>2, <3>3
    <2>4. /\ IsFlow(st[k + 1]) /\ ~st[k + 1].recording /\ SameKept(st[k + 1], st[k])
      <3>1. st[k].on
        BY <2>1 DEF SameKept
      <3>2. QED
        BY <2>1, <2>2, <2>3, <3>1, DoesOffRecord
    <2>5. k + 1 \in Nat /\ SameKept(st[k + 1], f)
      BY <1>0, <1>4, <2>1, <2>4 DEF SameKept
    <2>6. QED
      BY <2>4, <2>5
  <1>5. m \in S
    <2>1. \A k \in 0..m : k < m /\ k \in S => k + 1 \in S
      BY <1>4
    <2>2. m \in 0..m
      OBVIOUS
    <2> HIDE DEF S
    <2>3. QED
      BY <1>3, <2>1, <2>2, HasAll
  <1>6. ~st[m].recording
    <2>1. CASE m >= 1
      BY <1>5, <2>1
    <2>2. CASE m = 0
      BY <1>b, <1>5, <2>2
    <2>3. QED
      BY <1>0, <2>1, <2>2
  <1>7. CASE acts = body
    <2>1. acts # ends /\ n = m
      BY <1>a, <1>c, <1>f, <1>7
    <2>2. QED
      BY <1>d, <1>1, <1>5, <1>6, <1>7, <2>1
  <1>8. CASE acts = ends
    <2>1. n = m + 1 /\ acts[m + 1] = Decrypt!Recording(TRUE) /\ m \in 0..n /\ m < n
          /\ acts # body
      <3>1. n = m + 1 /\ acts # body /\ acts[m + 1] = Decrypt!Recording(TRUE)
        BY <1>a, <1>c, <1>f, <1>8
      <3>2. QED
        BY <3>1
    <2>2. st[n] = Decrypt!Does(st[m], Decrypt!Recording(TRUE))
      BY <1>1, <2>1
    <2>3. IsFlow(st[m]) /\ SameKept(st[m], f)
      BY <1>5
    <2>4. IsFlow(st[n]) /\ SameKept(st[n], st[m]) /\ st[n].recording = TRUE
      BY <2>2, <2>3, RecordingDoes
    <2>5. SameKept(st[n], f)
      BY <2>3, <2>4 DEF SameKept
    <2>6. QED
      BY <1>d, <1>1, <2>1, <2>4, <2>5
  <1>9. QED
    BY <1>d, <1>7, <1>8

(* What is on the record stays on it, unless an act stops it.              *)
LEMMA FoldOnRecord ==
  ASSUME NEW f, IsFlow(f), f.recording, NEW acts \in Seq(OnActs)
  PROVE  Folded(f, acts).recording
  <1>0. PICK n \in Nat : n = Len(acts)
    OBVIOUS
  <1>1. PICK st : /\ st[0] = f
                  /\ \A k \in 0..n : k < n => st[k + 1] = Decrypt!Does(st[k], acts[k + 1])
                  /\ Folded(f, acts) = st[n]
    <2>1. \E s : Staged(f, acts, s)
      BY FoldStages
    <2>2. QED
      BY <1>0, <2>1 DEF Staged
  <1> DEFINE S == {k \in Nat : IsFlow(st[k]) /\ st[k].recording}
  <1>2. 0 \in S
    BY <1>1
  <1>3. \A k \in 0..n : k < n /\ k \in S => k + 1 \in S
    <2>1. ASSUME NEW k \in 0..n, k < n, k \in S
          PROVE  k + 1 \in S
      <3>1. k + 1 \in Nat /\ acts[k + 1] \in OnActs
            /\ st[k + 1] = Decrypt!Does(st[k], acts[k + 1])
        BY <1>0, <1>1, <2>1
      <3>2. IsFlow(st[k]) /\ st[k].recording
        BY <2>1
      <3>3. IsFlow(st[k + 1])
        BY <3>1, <3>2, DoesKeepsFlow DEF AllActs
      <3>4. st[k + 1].recording
        <4>1. CASE acts[k + 1] \in LineActs \cup LinkActs
          BY <3>1, <3>2, <4>1, LineDoes, LinkDoes
        <4>2. CASE acts[k + 1] = Decrypt!Step
          BY <3>1, <3>2, <4>2, StepDoes DEF Alike
        <4>3. CASE acts[k + 1] = Decrypt!Recording(TRUE)
          BY <3>1, <3>2, <4>3, RecordingDoes
        <4>4. QED
          BY <3>1, <4>1, <4>2, <4>3 DEF OnActs
      <3>5. QED
        BY <3>1, <3>3, <3>4
    <2>2. QED
      BY <2>1
  <1>4. n \in S
    <2>1. n \in 0..n
      OBVIOUS
    <2> HIDE DEF S
    <2>2. QED
      BY <1>2, <1>3, <2>1, HasAll
  <1>5. QED
    BY <1>1, <1>4

(* What is kept is that of the command with one password; both keep or do  *)
(* not keep what comes next, except where more passwords are asked for,    *)
(* reserved for or recovered, which is off the record.                     *)
FlowsAre ==
  /\ IsFlow(flow) /\ IsFlow(alone) /\ SameKept(flow, alone) /\ alone.recording
  /\ decrypt # "begin" => flow.on = setting.private
  /\ exit = "none" =>
       /\ decrypt = "adding" => Alike(flow, alone) \/ Decrypt!Asks
       /\ decrypt \in {"begin", "reserving", "reserving largest", "warning"} => Alike(flow, alone)
       /\ decrypt = "recovering" /\ answers = <<>> => Alike(flow, alone)
       /\ decrypt = "falling back" => ~flow.recording

(* The passwords, and what was reserved for them.                          *)
LevelsAre ==
  /\ setting \in [private : BOOLEAN, checked : BOOLEAN, windows : BOOLEAN]
  /\ levels \in Seq(Decrypt!Levels)
  /\ decrypt \in {"begin", "adding", "reserving", "reserving largest", "falling back", "warning",
                 "recovering"}
  /\ IF decrypt = "begin" THEN levels = <<>> ELSE Len(levels) >= 1
  /\ Len(levels) > 1 => setting.private
  /\ decrypt \in {"reserving largest", "falling back"} => Len(levels) > 1
  /\ decrypt \in {"warning", "recovering"} => reserved \in Decrypt!Levels /\ levels[1] <= reserved

(* Each password that was come to is answered.                             *)
AnswersAre ==
  /\ answers \in Seq({"shown", "too large"}) /\ Len(answers) <= Len(levels)
  /\ decrypt # "recovering" => answers = <<>>
  /\ exit = "resources" => answers = <<>>
  /\ exit = "success" => Len(answers) = Len(levels) /\ decrypt = "recovering"
  /\ \A i \in DOMAIN answers : answers[i] = "shown" <=> levels[i] <= reserved

RecoverInv == FlowsAre /\ LevelsAre /\ AnswersAre

(* The flows after acts of both, and after acts of the further passwords.  *)
LEMMA BothKeeps ==
  ASSUME FlowsAre, NEW acts \in Seq(OnActs), Decrypt!Both(acts),
         flow.recording \/ acts = <<Decrypt!Recording(TRUE)>>
  PROVE  /\ IsFlow(flow') /\ IsFlow(alone') /\ alone'.recording
         /\ Alike(flow', alone') /\ flow'.on = flow.on
  <1>1. flow' = Folded(flow, acts) /\ alone' = Folded(alone, acts)
    BY DEF Decrypt!Both, Folded
  <1>2. acts \in Seq(AllActs)
    <2>1. OnActs \subseteq AllActs
      BY DEF AllActs
    <2>2. QED
      BY <2>1
  <1>3. \/ Alike(flow, alone)
        \/ acts # <<>> /\ acts[1] \in {Decrypt!Recording(TRUE), Decrypt!Recording(FALSE)}
    <2>1. CASE flow.recording
      <3>1. {flow.recording, alone.recording} \subseteq BOOLEAN
        BY DEF FlowsAre, IsFlow
      <3>2. flow.recording = alone.recording
        BY <2>1, <3>1 DEF FlowsAre
      <3>3. QED
        BY <3>2 DEF FlowsAre, Alike
    <2>2. CASE acts = <<Decrypt!Recording(TRUE)>>
      BY <2>2
    <2>3. QED
      BY <2>1, <2>2
  <1>4. /\ IsFlow(Folded(flow, acts)) /\ IsFlow(Folded(alone, acts))
        /\ Alike(Folded(flow, acts), Folded(alone, acts)) /\ Folded(flow, acts).on = flow.on
    BY <1>2, <1>3, FoldAlike DEF FlowsAre
  <1>5. Folded(alone, acts).recording
    BY FoldOnRecord DEF FlowsAre
  <1>6. QED
    BY <1>1, <1>4, <1>5

LEMMA FurtherKeeps ==
  ASSUME FlowsAre, decrypt # "begin", setting.private,
         NEW body \in Seq(OffActs),
         ~flow.recording \/ (body # <<>> /\ body[1] = Decrypt!Recording(FALSE)),
         NEW acts, acts = body \/ acts = body \o <<Decrypt!Recording(TRUE)>>,
         Decrypt!Further(acts)
  PROVE  /\ IsFlow(flow') /\ IsFlow(alone') /\ alone'.recording
         /\ SameKept(flow', alone') /\ flow'.on = flow.on
         /\ acts = body => ~flow'.recording
         /\ acts = body \o <<Decrypt!Recording(TRUE)>> => flow'.recording
  <1>1. flow' = Folded(flow, acts) /\ alone' = alone
    BY DEF Decrypt!Further, Folded
  <1>2. IsFlow(flow) /\ flow.on
    BY DEF FlowsAre
  <1>3. /\ IsFlow(Folded(flow, acts)) /\ SameKept(Folded(flow, acts), flow)
        /\ acts = body => ~Folded(flow, acts).recording
        /\ acts = body \o <<Decrypt!Recording(TRUE)>> => Folded(flow, acts).recording
    BY <1>2, FoldOffRecord
  <1>4. QED
    BY <1>1, <1>3 DEF FlowsAre, SameKept

(* The acts of the steps.                                                  *)
LEMMA Joined ==
  ASSUME NEW A, NEW x \in Seq(A), NEW y \in Seq(A)
  PROVE  /\ x \o y \in Seq(A)
         /\ x # <<>> => x \o y # <<>> /\ (x \o y)[1] = x[1]
         /\ x = <<>> => x \o y = y
  OBVIOUS

LEMMA AppendIs ==
  ASSUME NEW A, NEW s \in Seq(A), NEW a \in A
  PROVE  /\ Len(s) \in Nat
         /\ Append(s, a) \in Seq(A) /\ Append(s, a) # <<>> /\ Len(Append(s, a)) = Len(s) + 1
         /\ \A i \in 1..Len(Append(s, a)) :
              Append(s, a)[i] = IF i = Len(s) + 1 THEN a ELSE s[i]
  OBVIOUS

LEMMA LenIs ==
  ASSUME NEW A, NEW s \in Seq(A)
  PROVE  Len(s) \in Nat /\ DOMAIN s = 1..Len(s)
  OBVIOUS

LEMMA ElementIs ==
  ASSUME NEW A, NEW s \in Seq(A), NEW i \in 1..Len(s)
  PROVE  s[i] \in A
  OBVIOUS

LEMMA FewActs ==
  ASSUME NEW A, NEW a \in A, NEW b \in A
  PROVE  <<a>> \in Seq(A) /\ <<a, b>> \in Seq(A)
  <1>1. <<a>> \in Seq(A)
    OBVIOUS
  <1>2. <<a, b>> \in Seq(A)
    OBVIOUS
  <1>3. QED
    BY <1>1, <1>2

LEMMA LinesAre ==
  ASSUME NEW sort \in Sorts, NEW line \in Texts, NEW shown \in Shows
  PROVE  /\ Decrypt!Line(sort, line, shown) \in OnActs \cap OffActs
         /\ Decrypt!Link(line) \in OnActs \cap OffActs
         /\ Decrypt!Step \in OnActs \cap OffActs
         /\ Decrypt!Recording(TRUE) \in OnActs /\ Decrypt!Recording(FALSE) \in OffActs
         /\ Decrypt!Record(line) \in OnActs \cap OffActs
         /\ Decrypt!Warn(line) \in OnActs \cap OffActs
  <1>1. ASSUME NEW s \in Sorts, NEW l \in Texts, NEW w \in Shows
        PROVE  Decrypt!Line(s, l, w) \in LineActs
    BY <1>1 DEF Decrypt!Line, LineActs
  <1>2. Decrypt!Link(line) \in LinkActs
    BY DEF Decrypt!Link, LinkActs
  <1>3. Decrypt!Record(line) \in LineActs /\ Decrypt!Warn(line) \in LineActs
    BY <1>1 DEF Decrypt!Record, Decrypt!Warn, Sorts, Shows
  <1>4. QED
    BY <1>1, <1>2, <1>3 DEF OnActs, OffActs

LEMMA QuestionIs ==
  /\ Decrypt!Question \in Seq(OffActs) /\ Decrypt!Question # <<>>
  /\ Decrypt!Question[1] = Decrypt!Recording(FALSE)
  <1>1. /\ Decrypt!Warn("all shown") \in OffActs /\ Decrypt!Step \in OffActs
        /\ Decrypt!Recording(FALSE) \in OffActs
    BY LinesAre DEF Texts, Sorts, Shows
  <1>2. ASSUME NEW A, NEW a \in A, NEW b \in A, NEW c \in A
        PROVE  <<a, b, c>> \in Seq(A) /\ <<a, b, c>> # <<>> /\ <<a, b, c>>[1] = a
    OBVIOUS
  <1>3. QED
    BY <1>1, <1>2 DEF Decrypt!Question

LEMMA DiskAskedIs ==
  ASSUME NEW word \in Texts
  PROVE  /\ Decrypt!DiskAsked(word) \in Seq(OffActs) /\ Decrypt!DiskAsked(word) \in Seq(OnActs)
         /\ Decrypt!DiskAsked(word) # <<>>
  <1>1. /\ Decrypt!Warn("disk") \in OnActs \cap OffActs
        /\ Decrypt!Link("safe computer") \in OnActs \cap OffActs
        /\ Decrypt!Record(word) \in OnActs \cap OffActs
    BY LinesAre DEF Texts, Sorts, Shows
  <1>2. ASSUME NEW A, NEW a \in A, NEW b \in A, NEW c \in A
        PROVE  <<a, b, c>> \in Seq(A) /\ <<a, b, c>> # <<>>
    OBVIOUS
  <1>3. QED
    BY <1>1, <1>2 DEF Decrypt!DiskAsked

LEMMA ShownIs ==
  ASSUME NEW status \in {"verified", "not verified"}
  PROVE  Decrypt!Shown(status) \in Seq(OffActs) /\ Decrypt!Shown(status) \in Seq(OnActs)
  <1>1. /\ Decrypt!Line("result", "recovered", "later") \in OnActs \cap OffActs
        /\ Decrypt!Line("result", status, "now") \in OnActs \cap OffActs
        /\ Decrypt!Line("notice", status, "now") \in OnActs \cap OffActs
        /\ Decrypt!Link("decrypt") \in OnActs \cap OffActs
    BY LinesAre DEF Texts, Sorts, Shows
  <1>2. ASSUME NEW A, NEW a \in A, NEW b \in A, NEW c \in A, NEW d \in A
        PROVE  /\ <<a>> \o <<b>> \in Seq(A) /\ <<a>> \o <<c, d>> \in Seq(A)
    <2>1. <<a>> \in Seq(A) /\ <<b>> \in Seq(A) /\ <<c, d>> \in Seq(A)
      BY <1>2, FewActs
    <2>2. QED
      BY <2>1, Joined
  <1>3. QED
    BY <1>1, <1>2 DEF Decrypt!Shown

LEMMA RecordedAlike ==
  ASSUME FlowsAre
  PROVE  Alike(flow, alone) <=> flow.recording
  <1>1. {flow.recording, alone.recording} \subseteq BOOLEAN /\ alone.recording
    BY DEF FlowsAre, IsFlow
  <1>2. flow.recording = alone.recording <=> flow.recording
    BY <1>1
  <1>3. QED
    BY <1>2 DEF FlowsAre, Alike

LEMMA AfterBoth ==
  ASSUME FlowsAre, NEW acts \in Seq(OnActs), Decrypt!Both(acts),
         flow.recording \/ acts = <<Decrypt!Recording(TRUE)>>, UNCHANGED setting, decrypt # "begin",
         decrypt' # "falling back"
  PROVE  FlowsAre'
  <1>1. /\ IsFlow(flow') /\ IsFlow(alone') /\ alone'.recording
        /\ Alike(flow', alone') /\ flow'.on = flow.on
    BY BothKeeps
  <1>2. flow.on = setting.private
    BY DEF FlowsAre
  <1>3. QED
    BY <1>1, <1>2 DEF FlowsAre, Alike

LEMMA AfterFurther ==
  ASSUME FlowsAre, decrypt # "begin", setting.private, UNCHANGED setting,
         NEW body \in Seq(OffActs),
         ~flow.recording \/ (body # <<>> /\ body[1] = Decrypt!Recording(FALSE)),
         NEW acts, acts = body \/ acts = body \o <<Decrypt!Recording(TRUE)>>,
         Decrypt!Further(acts),
         \/ exit' # "none"
         \/ decrypt' = "adding" /\ Decrypt!Asks'
         \/ decrypt' = "recovering" /\ answers' # <<>>
         \/ decrypt' = "falling back" /\ acts = body
         \/ decrypt' = "warning" /\ acts = body \o <<Decrypt!Recording(TRUE)>>
  PROVE  FlowsAre'
  <1>1. /\ IsFlow(flow') /\ IsFlow(alone') /\ alone'.recording
        /\ SameKept(flow', alone') /\ flow'.on = flow.on
        /\ acts = body => ~flow'.recording
        /\ acts = body \o <<Decrypt!Recording(TRUE)>> => flow'.recording
    BY FurtherKeeps
  <1>2. flow.on = setting.private
    BY DEF FlowsAre
  <1>3. {flow'.recording, alone'.recording} \subseteq BOOLEAN
    BY <1>1 DEF IsFlow
  <1>4. flow'.recording => Alike(flow', alone')
    <2>1. flow'.recording => flow'.recording = alone'.recording
      BY <1>1, <1>3
    <2>2. QED
      BY <1>1, <2>1 DEF Alike
  <1>5. /\ decrypt' = "falling back" /\ exit' = "none" => ~flow'.recording
        /\ decrypt' = "warning" /\ exit' = "none" => Alike(flow', alone')
    BY <1>1, <1>4
  <1>6. /\ exit' = "none" /\ decrypt' = "adding" => Decrypt!Asks'
        /\ exit' = "none" => decrypt' \notin {"begin", "reserving", "reserving largest"}
        /\ exit' = "none" /\ decrypt' = "recovering" => answers' # <<>>
    OBVIOUS
  <1>7. QED
    BY <1>1, <1>2, <1>5, <1>6 DEF FlowsAre

LEMMA ReadsKeepsFlows ==
  ASSUME RecoverInv, Decrypt!Reads
  PROVE  FlowsAre'
  <1>1. /\ decrypt' = "adding"
        /\ setting' \in [private : BOOLEAN, checked : BOOLEAN, windows : BOOLEAN]
    BY DEF Decrypt!Reads
  <1>2. PICK passphrase \in BOOLEAN :
          LET start == Folded(Decrypt!Fresh(setting'.private),
             <<Decrypt!Line("fact", "settings", "later"), Decrypt!Step,
               Decrypt!Record("container"), Decrypt!Step,
               Decrypt!Record("password"), Decrypt!Step>>
             \o (IF passphrase /\ ~setting'.checked
                 THEN <<Decrypt!Step, Decrypt!Record("passphrase")>> ELSE <<>>))
          IN flow' = start /\ alone' = start
    BY DEF Decrypt!Reads, Folded
  <1> DEFINE last == IF passphrase /\ ~setting'.checked
                     THEN <<Decrypt!Step, Decrypt!Record("passphrase")>> ELSE <<>>
             six == <<Decrypt!Line("fact", "settings", "later"), Decrypt!Step,
                      Decrypt!Record("container"), Decrypt!Step,
                      Decrypt!Record("password"), Decrypt!Step>>
             f == Decrypt!Fresh(setting'.private)
  <1>3. /\ Decrypt!Line("fact", "settings", "later") \in OnActs /\ Decrypt!Step \in OnActs
        /\ Decrypt!Record("container") \in OnActs /\ Decrypt!Record("password") \in OnActs
        /\ Decrypt!Record("passphrase") \in OnActs
    BY LinesAre DEF Texts, Sorts, Shows
  <1>4. six \in Seq(OnActs)
    <2>1. ASSUME NEW A, NEW a \in A, NEW b \in A, NEW c \in A, NEW d \in A, NEW e \in A,
                 NEW g \in A
          PROVE  <<a, b, c, d, e, g>> \in Seq(A)
      OBVIOUS
    <2>2. QED
      BY <1>3, <2>1
  <1>5. last \in Seq(OnActs)
    <2>1. <<Decrypt!Step, Decrypt!Record("passphrase")>> \in Seq(OnActs)
      BY <1>3, FewActs
    <2>2. QED
      BY <2>1
  <1>6. IsFlow(f) /\ f.recording /\ f.on = setting'.private
    BY <1>1 DEF Decrypt!Fresh, IsFlow
  <1>7. flow' = Folded(f, six \o last) /\ alone' = Folded(f, six \o last)
    BY <1>2
  <1> HIDE DEF f, six, last
  <1>8. six \o last \in Seq(OnActs) /\ six \o last \in Seq(AllActs)
    <2>1. six \o last \in Seq(OnActs)
      BY <1>4, <1>5, Joined
    <2>2. OnActs \subseteq AllActs
      BY DEF AllActs
    <2>3. QED
      BY <2>1, <2>2
  <1>9. Folded(f, six \o last).recording
    BY <1>6, <1>8, FoldOnRecord
  <1>10. IsFlow(Folded(f, six \o last)) /\ Folded(f, six \o last).on = f.on
    <2>1. Alike(f, f) /\ SameKept(f, f)
      BY DEF Alike, SameKept
    <2>2. QED
      BY <1>6, <1>8, <2>1, FoldAlike
  <1>11. Alike(flow', alone')
    BY <1>7 DEF Alike, SameKept
  <1>12. QED
    BY <1>1, <1>6, <1>7, <1>9, <1>10, <1>11 DEF FlowsAre, Alike

LEMMA AskingKeepsFlows ==
  ASSUME RecoverInv, exit = "none", Decrypt!Adds \/ Decrypt!GoesOn
  PROVE  FlowsAre'
  <1> USE DEF RecoverInv
  <1>0. Decrypt!Asks => setting.private
    BY DEF Decrypt!Asks
  <1>1. CASE Decrypt!Adds
    <2>1. /\ decrypt = "adding" /\ decrypt' = "adding" /\ Decrypt!Asks /\ UNCHANGED setting
          /\ Decrypt!Further(Decrypt!Question \o <<Decrypt!Step, Decrypt!Step,
                                                  Decrypt!Record("password")>>)
      BY <1>1 DEF Decrypt!Adds
    <2>2. Decrypt!Asks'
      BY <2>1 DEF Decrypt!Asks
    <2>3. Decrypt!Step \in OffActs /\ Decrypt!Record("password") \in OffActs
      BY LinesAre DEF Texts, Sorts, Shows
    <2>4. <<Decrypt!Step, Decrypt!Step, Decrypt!Record("password")>> \in Seq(OffActs)
      <3>1. ASSUME NEW A, NEW a \in A, NEW b \in A
            PROVE  <<a, a, b>> \in Seq(A)
        OBVIOUS
      <3>2. QED
        BY <2>3, <3>1
    <2>5. PICK acts : acts = Decrypt!Question \o <<Decrypt!Step, Decrypt!Step,
                                                  Decrypt!Record("password")>>
      OBVIOUS
    <2>6. /\ acts \in Seq(OffActs) /\ acts # <<>> /\ acts[1] = Decrypt!Recording(FALSE)
          /\ Decrypt!Further(acts)
      BY <2>1, <2>4, <2>5, QuestionIs, Joined
    <2>7. QED
      BY <1>0, <2>1, <2>2, <2>6, AfterFurther
  <1>2. CASE Decrypt!GoesOn /\ ~Decrypt!Asks
    <2>1. /\ decrypt = "adding" /\ decrypt' = "reserving" /\ UNCHANGED setting
          /\ Decrypt!Both(<<>>)
      BY <1>2 DEF Decrypt!GoesOn
    <2>2. flow.recording /\ <<>> \in Seq(OnActs)
      BY <1>2, <2>1, RecordedAlike DEF FlowsAre
    <2>3. QED
      BY <2>1, <2>2, AfterBoth
  <1>3. CASE Decrypt!GoesOn /\ Decrypt!Asks
    <2>1. PICK acts : acts = Decrypt!Question \o <<Decrypt!Recording(TRUE)>>
      OBVIOUS
    <2>2. /\ decrypt = "adding" /\ decrypt' = "reserving" /\ UNCHANGED setting
          /\ flow' = Folded(flow, acts) /\ alone' = Folded(alone, acts)
      BY <1>3, <2>1 DEF Decrypt!GoesOn, Decrypt!Both, Folded
    <2>3. acts \in Seq(AllActs) /\ acts # <<>> /\ acts[1] = Decrypt!Recording(FALSE)
      <3>1. Decrypt!Question \in Seq(AllActs)
        BY QuestionIs, OffThenOn
      <3>2. <<Decrypt!Recording(TRUE)>> \in Seq(AllActs)
        <4>1. Decrypt!Recording(TRUE) \in AllActs
          BY DEF AllActs, OnActs
        <4>2. QED
          BY <4>1, FewActs
      <3>3. QED
        BY <2>1, <3>1, <3>2, QuestionIs, Joined
    <2>4. /\ IsFlow(Folded(flow, acts)) /\ IsFlow(Folded(alone, acts))
          /\ Alike(Folded(flow, acts), Folded(alone, acts))
          /\ Folded(flow, acts).on = flow.on
      BY <2>3, FoldAlike DEF FlowsAre
    <2>5. Folded(alone, acts).recording
      <3>1. IsFlow(alone) /\ alone.on
        BY <1>0, <1>3, <2>2 DEF FlowsAre, SameKept
      <3>2. QED
        BY <2>1, <3>1, QuestionIs, FoldOffRecord
    <2>6. flow.on = setting.private
      BY <2>2 DEF FlowsAre
    <2>7. QED
      BY <2>2, <2>4, <2>5, <2>6 DEF FlowsAre, Alike
  <1>4. QED
    BY <1>1, <1>2, <1>3

LEMMA ReservesFirstKeepsFlows ==
  ASSUME RecoverInv, exit = "none", Decrypt!ReservesFirst
  PROVE  FlowsAre'
  <1> USE DEF RecoverInv
  <1>1. decrypt = "reserving" /\ UNCHANGED <<setting, levels, answers>>
    BY DEF Decrypt!ReservesFirst
  <1>2. flow.recording
    BY <1>1, RecordedAlike DEF FlowsAre
  <1>3. /\ <<>> \in Seq(OnActs) /\ Decrypt!DiskAsked("yes") \in Seq(OnActs)
        /\ Decrypt!DiskAsked("no") \in Seq(OnActs)
    <2>1. <<>> \in Seq(OnActs)
      OBVIOUS
    <2>2. QED
      BY <2>1, DiskAskedIs DEF Texts
  <1>4. /\ <<>> \o <<>> \in Seq(OnActs)
        /\ <<>> \o Decrypt!DiskAsked("yes") \o <<>> \in Seq(OnActs)
        /\ <<>> \o Decrypt!DiskAsked("no") \in Seq(OnActs)
    BY <1>3, Joined
  <1>5. CASE Decrypt!Granted(levels[1], FALSE, <<>>, <<>>)
             /\ decrypt' \in {"reserving largest", "warning"}
    <2>1. \E acts \in Seq(OnActs) : Decrypt!Both(acts)
      BY <1>4, <1>5 DEF Decrypt!Granted, Decrypt!Acts
    <2>2. QED
      BY <1>1, <1>2, <1>5, <2>1, AfterBoth
  <1>6. CASE Decrypt!Declined(FALSE, <<>>) /\ UNCHANGED decrypt
    <2>1. \E acts \in Seq(OnActs) : Decrypt!Both(acts)
      BY <1>3, <1>4, <1>6 DEF Decrypt!Declined, Decrypt!Acts
    <2>2. QED
      BY <1>1, <1>2, <1>6, <2>1, AfterBoth
  <1>7. CASE exit' = "resources" /\ UNCHANGED <<decrypt, flow, alone>>
    BY <1>1, <1>7 DEF FlowsAre
  <1>8. QED
    BY <1>5, <1>6, <1>7 DEF Decrypt!ReservesFirst

LEMMA ReservesLargestKeepsFlows ==
  ASSUME RecoverInv, exit = "none", Decrypt!ReservesLargest
  PROVE  FlowsAre'
  <1> USE DEF RecoverInv
  <1>1. /\ decrypt = "reserving largest" /\ UNCHANGED <<setting, levels, answers>>
        /\ setting.private
    BY DEF Decrypt!ReservesLargest, LevelsAre
  <1>2. /\ <<Decrypt!Recording(FALSE)>> \in Seq(OffActs)
        /\ Decrypt!DiskAsked("yes") \in Seq(OffActs) /\ Decrypt!DiskAsked("no") \in Seq(OffActs)
        /\ <<Decrypt!Recording(FALSE)>> # <<>>
        /\ <<Decrypt!Recording(FALSE)>>[1] = Decrypt!Recording(FALSE)
    <2>1. Decrypt!Recording(FALSE) \in OffActs
      BY DEF OffActs
    <2>2. <<Decrypt!Recording(FALSE)>> \in Seq(OffActs)
      BY <2>1, FewActs
    <2>3. QED
      BY <2>2, DiskAskedIs DEF Texts
  <1>3. ASSUME NEW yesOrNo \in {"yes", "no"},
               NEW body, body = <<Decrypt!Recording(FALSE)>> \o Decrypt!DiskAsked(yesOrNo)
        PROVE  body \in Seq(OffActs) /\ body # <<>> /\ body[1] = Decrypt!Recording(FALSE)
    BY <1>2, <1>3, Joined
  <1>4. CASE /\ Decrypt!Granted(Decrypt!Largest, TRUE, <<Decrypt!Recording(FALSE)>>,
                               <<Decrypt!Recording(TRUE)>>)
             /\ decrypt' = "warning"
    <2>1. \E body \in Seq(OffActs) :
            /\ body # <<>> /\ body[1] = Decrypt!Recording(FALSE)
            /\ Decrypt!Further(body \o <<Decrypt!Recording(TRUE)>>)
      BY <1>2, <1>3, <1>4 DEF Decrypt!Granted, Decrypt!Acts
    <2>2. QED
      BY <1>1, <1>4, <2>1, AfterFurther
  <1>5. CASE Decrypt!Declined(TRUE, <<Decrypt!Recording(FALSE)>>) /\ UNCHANGED decrypt
    <2>1. \E body \in Seq(OffActs) :
            /\ body # <<>> /\ body[1] = Decrypt!Recording(FALSE) /\ Decrypt!Further(body)
      BY <1>2, <1>3, <1>5 DEF Decrypt!Declined, Decrypt!Acts
    <2>2. exit' # "none"
      BY <1>5 DEF Decrypt!Declined
    <2>3. QED
      BY <1>1, <1>5, <2>1, <2>2, AfterFurther
  <1>6. CASE decrypt' = "falling back" /\ Decrypt!Further(<<Decrypt!Recording(FALSE)>>)
    BY <1>1, <1>2, <1>6, AfterFurther
  <1>7. QED
    BY <1>4, <1>5, <1>6 DEF Decrypt!ReservesLargest

LEMMA FallsBackKeepsFlows ==
  ASSUME RecoverInv, exit = "none", Decrypt!FallsBack
  PROVE  FlowsAre'
  <1> USE DEF RecoverInv
  <1>1. /\ decrypt = "falling back" /\ UNCHANGED <<setting, levels, answers>>
        /\ setting.private /\ ~flow.recording
    BY DEF Decrypt!FallsBack, LevelsAre, FlowsAre
  <1>2. /\ <<>> \in Seq(OffActs) /\ Decrypt!DiskAsked("yes") \in Seq(OffActs)
        /\ Decrypt!DiskAsked("no") \in Seq(OffActs)
    <2>1. <<>> \in Seq(OffActs)
      OBVIOUS
    <2>2. QED
      BY <2>1, DiskAskedIs DEF Texts
  <1>3. /\ <<>> \o Decrypt!DiskAsked("yes") \in Seq(OffActs)
        /\ <<>> \o Decrypt!DiskAsked("no") \in Seq(OffActs)
    BY <1>2, Joined
  <1>4. CASE /\ Decrypt!Granted(levels[1], TRUE, <<>>, <<Decrypt!Recording(TRUE)>>)
             /\ decrypt' = "warning"
    <2>1. \E body \in Seq(OffActs) : Decrypt!Further(body \o <<Decrypt!Recording(TRUE)>>)
      BY <1>2, <1>3, <1>4 DEF Decrypt!Granted, Decrypt!Acts
    <2>2. QED
      BY <1>1, <1>4, <2>1, AfterFurther
  <1>5. CASE Decrypt!Declined(TRUE, <<>>) /\ UNCHANGED decrypt
    <2>1. \E body \in Seq(OffActs) : Decrypt!Further(body)
      BY <1>2, <1>3, <1>5 DEF Decrypt!Declined, Decrypt!Acts
    <2>2. exit' # "none"
      BY <1>5 DEF Decrypt!Declined
    <2>3. QED
      BY <1>1, <1>5, <2>1, <2>2, AfterFurther
  <1>6. CASE exit' = "resources" /\ UNCHANGED <<decrypt, flow, alone>>
    BY <1>1, <1>6 DEF FlowsAre
  <1>7. QED
    BY <1>4, <1>5, <1>6 DEF Decrypt!FallsBack

LEMMA TellingKeepsFlows ==
  ASSUME RecoverInv, exit = "none", Decrypt!Recovers \/ Decrypt!Skips
  PROVE  FlowsAre'
  <1> USE DEF RecoverInv
  <1>1. \E acts : /\ acts \in Seq(OnActs) /\ acts \in Seq(OffActs) /\ Decrypt!Tells(acts)
    <2>1. Decrypt!Line("notice", "not recovered", "now") \in OnActs \cap OffActs
      BY LinesAre DEF Texts, Sorts, Shows
    <2>2. /\ <<Decrypt!Line("notice", "not recovered", "now")>> \in Seq(OnActs)
          /\ <<Decrypt!Line("notice", "not recovered", "now")>> \in Seq(OffActs)
      BY <2>1, FewActs
    <2>3. QED
      BY <2>2, ShownIs DEF Decrypt!Recovers, Decrypt!Skips
  <1>2. PICK acts : /\ acts \in Seq(OnActs) /\ acts \in Seq(OffActs) /\ Decrypt!Tells(acts)
    BY <1>1
  <1>3. /\ decrypt = "recovering" /\ decrypt' = "recovering" /\ UNCHANGED setting
        /\ Decrypt!Number <= Len(levels)
        /\ answers' = Append(answers, "shown") \/ answers' = Append(answers, "too large")
    BY DEF Decrypt!Recovers, Decrypt!Skips
  <1>4. answers \in Seq({"shown", "too large"})
    BY DEF AnswersAre
  <1>5. answers' # <<>>
    <2>1. "shown" \in {"shown", "too large"} /\ "too large" \in {"shown", "too large"}
      OBVIOUS
    <2>2. Append(answers, "shown") # <<>> /\ Append(answers, "too large") # <<>>
      BY <1>4, <2>1, AppendIs
    <2>3. QED
      BY <1>3, <2>2
  <1>6. CASE Decrypt!Number = 1
    <2>1. answers = <<>>
      <3>1. Len(answers) \in Nat
        BY <1>4, LenIs
      <3>2. Len(answers) = 0
        BY <1>6, <3>1 DEF Decrypt!Number
      <3>3. QED
        BY <1>4, <3>2, EmptyIsEmpty
    <2>2. flow.recording
      BY <1>3, <2>1, RecordedAlike DEF FlowsAre
    <2>3. Decrypt!Both(acts)
      BY <1>2, <1>6 DEF Decrypt!Tells
    <2>4. QED
      BY <1>2, <1>3, <2>2, <2>3, AfterBoth
  <1>7. CASE Decrypt!Number # 1
    <2>1. Len(levels) > 1 /\ setting.private
      <3>1. Len(answers) \in Nat /\ Len(levels) \in Nat
        BY <1>4, LenIs DEF LevelsAre
      <3>2. Len(levels) > 1
        <4>1. Len(answers) + 1 <= Len(levels) /\ Len(answers) + 1 # 1
          BY <1>3, <1>7 DEF Decrypt!Number
        <4>2. QED
          BY <3>1, <4>1
      <3>3. QED
        BY <3>2 DEF LevelsAre
    <2>2. PICK body : body = <<Decrypt!Recording(FALSE)>> \o acts
      OBVIOUS
    <2>3. Decrypt!Further(body)
      BY <1>2, <1>7, <2>2 DEF Decrypt!Tells
    <2>4. body \in Seq(OffActs) /\ body # <<>> /\ body[1] = Decrypt!Recording(FALSE)
      <3>1. Decrypt!Recording(FALSE) \in OffActs
        BY DEF OffActs
      <3>2. <<Decrypt!Recording(FALSE)>> \in Seq(OffActs)
        BY <3>1, FewActs
      <3>3. <<Decrypt!Recording(FALSE)>> # <<>>
            /\ <<Decrypt!Recording(FALSE)>>[1] = Decrypt!Recording(FALSE)
        OBVIOUS
      <3>4. QED
        BY <1>2, <2>2, <3>2, <3>3, Joined
    <2>5. QED
      BY <1>3, <1>5, <2>1, <2>3, <2>4, AfterFurther
  <1>8. QED
    BY <1>6, <1>7

LEMMA RecoverKeepsFlows ==
  ASSUME RecoverInv, Decrypt!Next
  PROVE  FlowsAre'
  <1>0. exit = "none"
    BY DEF Decrypt!Next
  <1>1. CASE Decrypt!WarnsOfPhrase
    <2>1. /\ decrypt = "warning" /\ decrypt' = "recovering" /\ UNCHANGED setting
          /\ Decrypt!Both(<<Decrypt!Warn("will be shown"), Decrypt!Step>>)
      BY <1>1 DEF Decrypt!WarnsOfPhrase
    <2>2. flow.recording
      BY <1>0, <2>1, RecordedAlike DEF RecoverInv, FlowsAre
    <2>3. <<Decrypt!Warn("will be shown"), Decrypt!Step>> \in Seq(OnActs)
      <3>1. Decrypt!Warn("will be shown") \in OnActs /\ Decrypt!Step \in OnActs
        BY LinesAre DEF Texts, Sorts, Shows
      <3>2. QED
        BY <3>1, FewActs
    <2>4. QED
      BY <2>1, <2>2, <2>3, AfterBoth DEF RecoverInv
  <1>2. CASE Decrypt!Finishes
    <2>1. /\ decrypt = "recovering" /\ decrypt' = "recovering" /\ UNCHANGED setting
          /\ Decrypt!Both(<<Decrypt!Recording(TRUE)>>)
      BY <1>2 DEF Decrypt!Finishes
    <2>2. <<Decrypt!Recording(TRUE)>> \in Seq(OnActs)
      <3>1. Decrypt!Recording(TRUE) \in OnActs
        BY DEF OnActs
      <3>2. QED
        BY <3>1, FewActs
    <2>3. QED
      BY <2>1, <2>2, AfterBoth DEF RecoverInv
  <1>3. CASE Decrypt!Breaks \/ Decrypt!Cancels
    BY <1>3 DEF Decrypt!Breaks, Decrypt!Cancels, RecoverInv, FlowsAre
  <1>4. QED
    BY <1>0, <1>1, <1>2, <1>3, ReadsKeepsFlows, AskingKeepsFlows, ReservesFirstKeepsFlows,
       ReservesLargestKeepsFlows, FallsBackKeepsFlows, TellingKeepsFlows DEF Decrypt!Next

(* The largest level is that of a password, and no smaller than the first. *)
LEMMA LargestIs ==
  ASSUME levels \in Seq(Decrypt!Levels), Len(levels) >= 1
  PROVE  /\ levels[1] \in Decrypt!Levels /\ Decrypt!Largest \in Decrypt!Levels
         /\ Decrypt!Largest >= levels[1]
         /\ Decrypt!Largest > levels[1] => Len(levels) > 1
  <1> DEFINE T == {levels[i] : i \in DOMAIN levels}
  <1>0. MaxLevel \in Nat
    BY BoundsAssumption
  <1>1. /\ Len(levels) \in Nat /\ DOMAIN levels = 1..Len(levels)
        /\ \A i \in DOMAIN levels : levels[i] \in Decrypt!Levels
    OBVIOUS
  <1>2. T \in SUBSET (0..MaxLevel) /\ levels[1] \in T
    BY <1>1 DEF Decrypt!Levels
  <1>3. \E greatest \in T : \A other \in T : other <= greatest
    <2> DEFINE distances == {MaxLevel - l : l \in T}
    <2>2. \A k \in T : k \in Nat /\ k <= MaxLevel /\ MaxLevel - k \in Nat
      BY <1>0, <1>2
    <2>3. distances \in SUBSET Nat /\ distances # {}
      BY <1>2, <2>2
    <2>4. PICK d \in distances : \A e \in distances : d <= e
      BY <2>3, HasLeast
    <2>5. PICK l \in T : d = MaxLevel - l
      OBVIOUS
    <2>6. ASSUME NEW k \in T
          PROVE  k <= l
      <3>1. MaxLevel - l <= MaxLevel - k
        BY <2>4, <2>5
      <3>2. k \in Nat /\ l \in Nat
        BY <2>2
      <3>3. QED
        BY <1>0, <3>1, <3>2
    <2>7. QED
      BY <2>6
  <1>4. Decrypt!Largest \in T /\ \A other \in T : other <= Decrypt!Largest
    <2>1. Decrypt!Largest = CHOOSE l \in T : \A other \in T : other <= l
      BY DEF Decrypt!Largest, Decrypt!ToSet
    <2> HIDE DEF T
    <2>2. QED
      BY <1>3, <2>1
  <1>5. levels[1] \in 0..MaxLevel /\ Decrypt!Largest \in 0..MaxLevel
        /\ levels[1] <= Decrypt!Largest
    BY <1>2, <1>4
  <1>6. Len(levels) = 1 => Decrypt!Largest = levels[1]
    BY <1>1, <1>4
  <1>7. QED
    BY <1>0, <1>1, <1>5, <1>6 DEF Decrypt!Levels

LEMMA RecoverKeepsLevels ==
  ASSUME RecoverInv, Decrypt!Next
  PROVE  LevelsAre'
  <1> USE DEF RecoverInv
  <1>0. MaxLevel \in Nat
    BY BoundsAssumption
  <1>1. CASE Decrypt!Reads
    <2>1. /\ decrypt' = "adding"
          /\ setting' \in [private : BOOLEAN, checked : BOOLEAN, windows : BOOLEAN]
      BY <1>1 DEF Decrypt!Reads
    <2>2. PICK l \in Decrypt!Levels : levels' = <<l>>
      BY <1>1 DEF Decrypt!Reads
    <2>3. levels' \in Seq(Decrypt!Levels) /\ Len(levels') = 1
      BY <2>2
    <2>4. Len(levels') >= 1 /\ ~(Len(levels') > 1)
      BY <2>3
    <2>5. QED
      BY <2>1, <2>3, <2>4 DEF LevelsAre
  <1>2. CASE Decrypt!Adds
    <2>1. /\ decrypt = "adding" /\ UNCHANGED <<decrypt, setting>> /\ setting.private
      BY <1>2 DEF Decrypt!Adds, Decrypt!Asks
    <2>2. PICK l \in Decrypt!Levels : levels' = Append(levels, l)
      BY <1>2 DEF Decrypt!Adds
    <2>3. levels' \in Seq(Decrypt!Levels) /\ Len(levels') = Len(levels) + 1 /\ Len(levels) \in Nat
      BY <2>2, AppendIs DEF LevelsAre
    <2>4. QED
      BY <2>1, <2>3 DEF LevelsAre
  <1>3. CASE Decrypt!GoesOn
    BY <1>3 DEF Decrypt!GoesOn, LevelsAre
  <1>4. ASSUME decrypt \in {"reserving", "reserving largest", "falling back"},
               UNCHANGED <<setting, levels>>,
               \/ decrypt' = decrypt
               \/ /\ decrypt' \in {"reserving largest", "falling back"}
                  /\ Decrypt!Largest > levels[1] \/ Len(levels) > 1
               \/ decrypt' = "warning" /\ reserved' \in {levels[1], Decrypt!Largest}
        PROVE  LevelsAre'
    <2>1. Len(levels) >= 1 /\ levels \in Seq(Decrypt!Levels)
      BY <1>4 DEF LevelsAre
    <2>2. /\ levels[1] \in Decrypt!Levels /\ Decrypt!Largest \in Decrypt!Levels
          /\ Decrypt!Largest >= levels[1]
          /\ Decrypt!Largest > levels[1] => Len(levels) > 1
      BY <2>1, LargestIs
    <2>3. \A l \in {levels[1], Decrypt!Largest} : l \in Decrypt!Levels /\ levels[1] <= l
      BY <1>0, <2>2 DEF Decrypt!Levels
    <2>4. decrypt' # "recovering" /\ decrypt' # "begin"
      BY <1>4
    <2>5. decrypt' = "warning" => reserved' \in Decrypt!Levels /\ levels[1] <= reserved'
      BY <1>4, <2>3
    <2>6. decrypt' \in {"reserving largest", "falling back"} => Len(levels) > 1
      BY <1>4, <2>2 DEF LevelsAre
    <2>7. decrypt' \in {"reserving", "reserving largest", "falling back", "warning"}
      BY <1>4
    <2>8. QED
      BY <1>4, <2>1, <2>4, <2>5, <2>6, <2>7 DEF LevelsAre
  <1>5. CASE Decrypt!ReservesFirst
    BY <1>4, <1>5 DEF Decrypt!ReservesFirst, Decrypt!Granted
  <1>6. CASE Decrypt!ReservesLargest
    BY <1>4, <1>6 DEF Decrypt!ReservesLargest, Decrypt!Granted, LevelsAre
  <1>7. CASE Decrypt!FallsBack
    BY <1>4, <1>7 DEF Decrypt!FallsBack, Decrypt!Granted
  <1>8. CASE Decrypt!WarnsOfPhrase \/ Decrypt!Recovers \/ Decrypt!Skips \/ Decrypt!Finishes
    BY <1>8 DEF Decrypt!WarnsOfPhrase, Decrypt!Recovers, Decrypt!Skips, Decrypt!Finishes,
                LevelsAre
  <1>9. CASE Decrypt!Breaks \/ Decrypt!Cancels
    BY <1>9 DEF Decrypt!Breaks, Decrypt!Cancels, LevelsAre
  <1>10. QED
    BY <1>1, <1>2, <1>3, <1>5, <1>6, <1>7, <1>8, <1>9 DEF Decrypt!Next

Answer == {"shown", "too large"}

LEMMA OneMoreAnswer ==
  ASSUME NEW M \in Nat, NEW l \in Seq(0..M), NEW r \in 0..M, NEW a \in Seq(Answer),
         NEW n \in Nat, n = Len(a), NEW t \in Answer, n + 1 <= Len(l),
         t = "shown" => l[n + 1] <= r, t # "shown" => l[n + 1] > r,
         \A i \in DOMAIN a : a[i] = "shown" <=> l[i] <= r,
         NEW b, b = Append(a, t)
  PROVE  /\ b \in Seq(Answer) /\ Len(b) <= Len(l)
         /\ \A i \in DOMAIN b : b[i] = "shown" <=> l[i] <= r
  <1>1. /\ b \in Seq(Answer) /\ Len(b) = n + 1
        /\ \A i \in 1..(n + 1) : b[i] = IF i = n + 1 THEN t ELSE a[i]
    BY AppendIs
  <1>2. DOMAIN b = 1..(n + 1) /\ DOMAIN a = 1..n /\ Len(l) \in Nat
    BY <1>1, LenIs
  <1>3. n + 1 \in 1..Len(l)
    BY <1>2
  <1>4. l[n + 1] \in 0..M
    BY <1>3, ElementIs
  <1>5. l[n + 1] > r => ~(l[n + 1] <= r)
    BY <1>4
  <1>6. t = "shown" <=> l[n + 1] <= r
    BY <1>5, Zenon
  <1>7. \A i \in 1..(n + 1) : i = n + 1 \/ i \in 1..n
    OBVIOUS
  <1>8. ASSUME NEW i \in 1..(n + 1)
        PROVE  b[i] = "shown" <=> l[i] <= r
    <2>1. CASE i = n + 1
      BY <1>1, <1>6, <2>1
    <2>2. CASE i # n + 1
      <3>1. b[i] = a[i] /\ i \in DOMAIN a
        BY <1>1, <1>2, <1>7, <2>2
      <3>2. QED
        BY <3>1
    <2>3. QED
      BY <2>1, <2>2
  <1>9. QED
    BY <1>1, <1>2, <1>8

LEMMA AnsweringKeepsAnswers ==
  ASSUME RecoverInv, exit = "none", Decrypt!Recovers \/ Decrypt!Skips
  PROVE  AnswersAre'
  <1> USE DEF RecoverInv
  <1>1. MaxLevel \in Nat
    BY BoundsAssumption
  <1>2. PICK n \in Nat : n = Len(answers)
    BY LenIs DEF AnswersAre
  <1>3. /\ decrypt = "recovering" /\ UNCHANGED <<decrypt, levels, reserved, exit>>
        /\ n + 1 <= Len(levels)
        /\ \/ answers' = Append(answers, "shown") /\ levels[n + 1] <= reserved
           \/ answers' = Append(answers, "too large") /\ levels[n + 1] > reserved
    BY <1>2 DEF Decrypt!Recovers, Decrypt!Skips, Decrypt!Number
  <1>4. PICK t \in Answer : /\ answers' = Append(answers, t)
                            /\ t = "shown" => levels[n + 1] <= reserved
                            /\ t # "shown" => levels[n + 1] > reserved
    BY <1>3 DEF Answer
  <1>5. /\ answers \in Seq(Answer) /\ levels \in Seq(0..MaxLevel) /\ reserved \in 0..MaxLevel
        /\ \A i \in DOMAIN answers : answers[i] = "shown" <=> levels[i] <= reserved
    BY <1>3 DEF AnswersAre, LevelsAre, Answer, Decrypt!Levels
  <1>6. /\ answers' \in Seq(Answer) /\ Len(answers') <= Len(levels)
        /\ \A i \in DOMAIN answers' : answers'[i] = "shown" <=> levels[i] <= reserved
    <2>1. ASSUME NEW b, b = Append(answers, t)
          PROVE  /\ b \in Seq(Answer) /\ Len(b) <= Len(levels)
                 /\ \A i \in DOMAIN b : b[i] = "shown" <=> levels[i] <= reserved
      <3>1. /\ n + 1 <= Len(levels)
            /\ t = "shown" => levels[n + 1] <= reserved
            /\ t # "shown" => levels[n + 1] > reserved
        BY <1>3, <1>4
      <3>2. QED
        BY <1>1, <1>2, <1>5, <2>1, <3>1, OneMoreAnswer
    <2>2. QED
      BY <1>4, <2>1
  <1>7. QED
    BY <1>3, <1>6 DEF AnswersAre, Answer

LEMMA RecoverKeepsAnswers ==
  ASSUME RecoverInv, Decrypt!Next
  PROVE  AnswersAre'
  <1> USE DEF RecoverInv
  <1>0. exit = "none"
    BY DEF Decrypt!Next
  <1>1. ASSUME decrypt # "recovering", UNCHANGED answers,
               exit' # "success"
        PROVE  AnswersAre'
    <2>1. answers = <<>> /\ answers' = <<>>
      BY <1>1 DEF AnswersAre
    <2>2. Len(levels') \in Nat
      <3>1. LevelsAre'
        BY RecoverKeepsLevels
      <3>2. QED
        BY <3>1, LenIs DEF LevelsAre
    <2>3. Len(answers') = 0 /\ DOMAIN answers' = {} /\ answers' \in Seq({"shown", "too large"})
      <3>1. answers' \in Seq({"shown", "too large"})
        BY <1>1 DEF AnswersAre
      <3>2. Len(answers') = 0
        BY <2>1
      <3>3. DOMAIN answers' = 1..0
        BY <3>1, <3>2, LenIs
      <3>4. QED
        BY <3>1, <3>2, <3>3
    <2>4. QED
      BY <1>1, <2>1, <2>2, <2>3 DEF AnswersAre
  <1>2. CASE Decrypt!Finishes
    <2>1. /\ decrypt = "recovering" /\ UNCHANGED <<decrypt, levels, reserved, answers>>
          /\ exit' = "success" /\ Len(answers) + 1 > Len(levels)
      BY <1>2 DEF Decrypt!Finishes, Decrypt!Number
    <2>2. Len(answers) = Len(levels)
      <3>1. Len(answers) \in Nat /\ Len(levels) \in Nat
        BY LenIs DEF AnswersAre, LevelsAre
      <3>2. Len(answers) <= Len(levels) /\ Len(answers) + 1 > Len(levels)
        BY <2>1 DEF AnswersAre
      <3>3. QED
        BY <3>1, <3>2
    <2>3. QED
      BY <2>1, <2>2 DEF AnswersAre
  <1>3. CASE Decrypt!Breaks
    BY <1>3 DEF Decrypt!Breaks, AnswersAre
  <1>4. CASE Decrypt!Cancels
    BY <1>4 DEF Decrypt!Cancels, AnswersAre
  <1>5. CASE Decrypt!Recovers \/ Decrypt!Skips
    BY <1>0, <1>5, AnsweringKeepsAnswers
  <1>6. CASE Decrypt!Reads \/ Decrypt!Adds \/ Decrypt!GoesOn
    BY <1>0, <1>1, <1>6 DEF Decrypt!Reads, Decrypt!Adds, Decrypt!GoesOn
  <1>7. CASE Decrypt!ReservesFirst
    BY <1>0, <1>1, <1>7 DEF Decrypt!ReservesFirst, Decrypt!Declined
  <1>8. CASE Decrypt!ReservesLargest
    BY <1>0, <1>1, <1>8 DEF Decrypt!ReservesLargest, Decrypt!Declined
  <1>9. CASE Decrypt!FallsBack \/ Decrypt!WarnsOfPhrase
    BY <1>0, <1>1, <1>9 DEF Decrypt!FallsBack, Decrypt!WarnsOfPhrase, Decrypt!Declined
  <1>10. QED
    BY <1>2, <1>3, <1>4, <1>5, <1>6, <1>7, <1>8, <1>9 DEF Decrypt!Next

(* decrypt.rs, reserve_largest, and flow.rs, for every number of passwords *)
(* and of memory levels: each password is recovered or told that its memory*)
(* could not be had, and at every moment, so wherever the command ends, the*)
(* summary for the main screen is that of the first password alone.        *)
THEOREM EachIsAnsweredAsOne == Spec => []AnsweredAsOne
  <1> DEFINE RInv == command \in {"none", "decrypt"} => RecoverInv
  <1>1. Init => RInv
    <2>1. ASSUME Init
          PROVE  RecoverInv
      <3>1. /\ decrypt = "begin" /\ levels = <<>> /\ answers = <<>> /\ exit = "none"
            /\ setting = [private |-> FALSE, checked |-> FALSE, windows |-> FALSE]
            /\ flow = Decrypt!Fresh(FALSE) /\ alone = Decrypt!Fresh(FALSE)
        BY <2>1 DEF Init, Decrypt!Init
      <3>2. IsFlow(flow) /\ flow.recording /\ Alike(flow, alone)
        BY <3>1 DEF Decrypt!Fresh, IsFlow, Alike, SameKept
      <3>3. FlowsAre
        BY <3>1, <3>2 DEF FlowsAre, Alike
      <3>4. LevelsAre
        <4>1. levels \in Seq(Decrypt!Levels) /\ ~(Len(levels) > 1)
          BY <3>1
        <4>2. QED
          BY <3>1, <4>1 DEF LevelsAre
      <3>5. AnswersAre
        <4>1. answers \in Seq({"shown", "too large"}) /\ Len(answers) <= Len(levels)
              /\ DOMAIN answers = {}
          BY <3>1
        <4>2. QED
          BY <3>1, <4>1 DEF AnswersAre
      <3>6. QED
        BY <3>3, <3>4, <3>5 DEF RecoverInv
    <2>2. QED
      BY <2>1
  <1>2. RInv /\ [Next]_vars => RInv'
    <2>1. ASSUME RecoverInv, UNCHANGED <<decryptVars, exit>>
          PROVE  RecoverInv'
      <3>1. UNCHANGED <<decrypt, setting, levels, reserved, flow, alone, answers, exit>>
        BY <2>1 DEF decryptVars
      <3>2. FlowsAre'
        BY <2>1, <3>1 DEF RecoverInv, FlowsAre, Decrypt!Asks
      <3>3. LevelsAre'
        BY <2>1, <3>1 DEF RecoverInv, LevelsAre
      <3>4. AnswersAre'
        BY <2>1, <3>1 DEF RecoverInv, AnswersAre
      <3>5. QED
        BY <3>2, <3>3, <3>4 DEF RecoverInv
    <2>2. ASSUME RecoverInv, Decrypt!Next
          PROVE  RecoverInv'
      BY <2>2, RecoverKeepsFlows, RecoverKeepsLevels, RecoverKeepsAnswers DEF RecoverInv
    <2>3. QED
      BY <2>1, <2>2, OneCommandRuns
  <1>3. ASSUME RecoverInv
        PROVE  Decrypt!AnsweredAsOne
    <2>1. Decrypt!SummaryOfOne
      BY <1>3 DEF RecoverInv, FlowsAre, SameKept, Decrypt!SummaryOfOne
    <2>2. exit = "success" => Len(answers) = Len(levels) /\ answers[1] = "shown"
      <3>1. ASSUME exit = "success"
            PROVE  Len(answers) = Len(levels) /\ answers[1] = "shown"
        <4>1. /\ Len(answers) = Len(levels) /\ Len(levels) >= 1 /\ levels[1] <= reserved
          BY <1>3, <3>1 DEF RecoverInv, AnswersAre, LevelsAre
        <4>2. 1 \in DOMAIN answers
          <5>1. DOMAIN answers = 1..Len(answers) /\ Len(answers) \in Nat
            BY <1>3, LenIs DEF RecoverInv, AnswersAre
          <5>2. Len(answers) >= 1
            BY <4>1
          <5>3. QED
            BY <5>1, <5>2
        <4>3. QED
          BY <1>3, <4>1, <4>2 DEF RecoverInv, AnswersAre
      <3>2. QED
        BY <3>1
    <2>3. Decrypt!EveryPasswordIsAnswered
      BY <1>3, <2>2 DEF RecoverInv, AnswersAre, LevelsAre, Decrypt!EveryPasswordIsAnswered
    <2>4. QED
      BY <2>1, <2>3 DEF Decrypt!AnsweredAsOne
  <1>4. RInv => AnsweredAsOne
    BY <1>3 DEF AnsweredAsOne
  <1>5. QED
    BY <1>1, <1>2, <1>4, PTL DEF Spec

-----------------------------------------------------------------------------
(* The self-test.                                                          *)

LEMMA MergesOne ==
  ASSUME NEW A, NEW set \in Seq(A), NEW p \in A
  PROVE  Test!Merge(set, <<p>>) = IF p \in {set[i] : i \in DOMAIN set} THEN set ELSE Append(set, p)
  <1> DEFINE Adds(s, q) == IF q \in Test!ToSet(s) THEN s ELSE Append(s, q)
             Solves(m) == m = [n \in 0..1 |-> IF n = 0 THEN set ELSE Adds(m[n - 1], <<p>>[n])]
             all == [n \in 0..1 |-> IF n = 0 THEN set ELSE Adds(set, p)]
  <1>1. Test!Merge(set, <<p>>) = (CHOOSE m : Solves(m))[1]
    BY DEF Test!Merge
  <1>2. Solves(all)
    <2> HIDE DEF Adds
    <2>1. \A n \in 0..1 : all[n] = IF n = 0 THEN set ELSE Adds(all[n - 1], <<p>>[n])
      <3>1. all[0] = set /\ all[1] = Adds(set, p)
        OBVIOUS
      <3>2. \A n \in 0..1 : n = 0 \/ (n = 1 /\ n - 1 = 0)
        OBVIOUS
      <3> HIDE DEF all
      <3>3. <<p>>[1] = p
        OBVIOUS
      <3>4. QED
        BY <3>1, <3>2, <3>3
    <2>2. QED
      BY <2>1
  <1>3. \E m : Solves(m) /\ m = CHOOSE x : Solves(x)
    <2> HIDE DEF Solves
    <2>1. QED
      BY <1>2
  <1>4. PICK m : Solves(m) /\ m = CHOOSE x : Solves(x)
    <2> HIDE DEF Solves
    <2>1. QED
      BY <1>3
  <1>5. m[0] = set /\ m[1] = Adds(m[0], p)
    <2> HIDE DEF Adds
    <2>1. QED
      BY <1>4
  <1>6. Test!Merge(set, <<p>>) = m[1]
    <2> HIDE DEF Solves
    <2>1. QED
      BY <1>1, <1>4
  <1>7. QED
    BY <1>5, <1>6 DEF Test!ToSet

LEMMA MergesTwo ==
  ASSUME NEW A, NEW set \in Seq(A), NEW p \in A, NEW q \in A,
         p \in {set[i] : i \in DOMAIN set}, q \in {set[i] : i \in DOMAIN set}
  PROVE  Test!Merge(set, <<p, q>>) = set
  <1> DEFINE Adds(s, r) == IF r \in Test!ToSet(s) THEN s ELSE Append(s, r)
             Solves(m) == m = [n \in 0..2 |-> IF n = 0 THEN set ELSE Adds(m[n - 1], <<p, q>>[n])]
             all == [n \in 0..2 |-> set]
  <1>1. Test!Merge(set, <<p, q>>) = (CHOOSE m : Solves(m))[2]
    BY DEF Test!Merge
  <1>2. Adds(set, p) = set /\ Adds(set, q) = set
    BY DEF Test!ToSet
  <1>3. Solves(all)
    <2> HIDE DEF Adds
    <2>1. \A n \in 0..2 : all[n] = IF n = 0 THEN set ELSE Adds(all[n - 1], <<p, q>>[n])
      <3>1. \A n \in 0..2 : n = 0 \/ (n \in {1, 2} /\ n - 1 \in 0..2)
        OBVIOUS
      <3>2. \A n \in {1, 2} : <<p, q>>[n] \in {p, q}
        OBVIOUS
      <3>3. QED
        BY <1>2, <3>1, <3>2
    <2>2. QED
      BY <2>1
  <1>4. PICK m : Solves(m) /\ m = CHOOSE x : Solves(x)
    <2> HIDE DEF Solves
    <2>1. QED
      BY <1>3
  <1>5. m[0] = set /\ m[1] = Adds(m[0], p) /\ m[2] = Adds(m[1], q)
    <2> HIDE DEF Adds
    <2>1. QED
      BY <1>4
  <1>6. Test!Merge(set, <<p, q>>) = m[2]
    <2> HIDE DEF Solves
    <2>1. QED
      BY <1>1, <1>4
  <1>7. QED
    <2> HIDE DEF Adds
    <2>1. QED
      BY <1>2, <1>5, <1>6

(* The parts that mhfe self-test tries, each once.                         *)
Tested == {"hashes", "argon2", "words", "argon2-sizes", "random-source", "memory-locking",
           "core-dumps", "isolation", "hidden-input"}

LEMMA AddedIs ==
  ASSUME NEW A, NEW s \in Seq(A), NEW a \in A, NEW n, n = Len(s) + 1,
         NEW t, t = Append(s, a)
  PROVE  /\ t \in Seq(A) /\ Len(t) = n /\ t[n] = a
         /\ \A i \in 1..Len(s) : t[i] = s[i]
  OBVIOUS

LEMMA JoinedIs ==
  ASSUME NEW A, NEW s \in Seq(A), NEW u \in Seq(A), NEW n, n = Len(s) + Len(u),
         NEW t, t = s \o u
  PROVE  /\ t \in Seq(A) /\ Len(t) = n
         /\ \A i \in 1..Len(s) : t[i] = s[i]
         /\ \A i \in 1..Len(u) : t[Len(s) + i] = u[i]
  OBVIOUS

LEMMA EveryPartIs ==
  /\ Test!EveryPart \in Seq(Tested) /\ Len(Test!EveryPart) = 9
  /\ Test!EveryPart[1] = "hashes" /\ Test!EveryPart[2] = "argon2"
  /\ Test!EveryPart[3] = "words" /\ Test!EveryPart[4] = "argon2-sizes"
  /\ Test!EveryPart[5] = "random-source" /\ Test!EveryPart[6] = "memory-locking"
  /\ Test!EveryPart[7] = "core-dumps" /\ Test!EveryPart[8] = "isolation"
  /\ Test!EveryPart[9] = "hidden-input"
  <1>1. /\ Test!Core \in Seq(Tested) /\ Len(Test!Core) = 3
        /\ Test!Core[1] = "hashes" /\ Test!Core[2] = "argon2" /\ Test!Core[3] = "words"
    BY DEF Test!Core, Tested
  <1>2. PICK four : four = Append(Test!Core, "argon2-sizes")
    OBVIOUS
  <1>3. /\ four \in Seq(Tested) /\ Len(four) = 4 /\ four[1] = "hashes" /\ four[2] = "argon2"
        /\ four[3] = "words" /\ four[4] = "argon2-sizes"
    <2>1. "argon2-sizes" \in Tested
      BY DEF Tested
    <2>0. 4 = Len(Test!Core) + 1 /\ Len(Test!Core) = 3
      BY <1>1
    <2>2. /\ four \in Seq(Tested) /\ Len(four) = 4 /\ four[4] = "argon2-sizes"
          /\ \A i \in 1..3 : four[i] = Test!Core[i]
      BY <1>1, <1>2, <2>1, <2>0, AddedIs
    <2>3. 1 \in 1..3 /\ 2 \in 1..3 /\ 3 \in 1..3
      OBVIOUS
    <2>4. QED
      BY <1>1, <2>2, <2>3
  <1>4. PICK five : five = Append(four, "random-source")
    OBVIOUS
  <1>5. /\ five \in Seq(Tested) /\ Len(five) = 5 /\ five[1] = "hashes" /\ five[2] = "argon2"
        /\ five[3] = "words" /\ five[4] = "argon2-sizes" /\ five[5] = "random-source"
    <2>1. "random-source" \in Tested
      BY DEF Tested
    <2>0. 5 = Len(four) + 1 /\ Len(four) = 4
      BY <1>3
    <2>2. /\ five \in Seq(Tested) /\ Len(five) = 5 /\ five[5] = "random-source"
          /\ \A i \in 1..4 : five[i] = four[i]
      BY <1>3, <1>4, <2>1, <2>0, AddedIs
    <2>3. 1 \in 1..4 /\ 2 \in 1..4 /\ 3 \in 1..4 /\ 4 \in 1..4
      OBVIOUS
    <2>4. QED
      BY <1>3, <2>2, <2>3
  <1>6. Test!Merge(four, Test!Passwords) = five
    <2>1. "random-source" \notin {four[i] : i \in DOMAIN four}
      <3>1. DOMAIN four = 1..4 /\ \A i \in 1..4 : i \in {1, 2, 3, 4}
        BY <1>3
      <3>2. QED
        BY <1>3, <3>1
    <2>2. Test!Merge(four, <<"random-source">>) = five
      <3>1. "random-source" \in Tested
        BY DEF Tested
      <3>2. QED
        BY <1>3, <1>4, <2>1, <3>1, MergesOne
    <2>3. QED
      BY <2>2 DEF Test!Passwords
  <1>7. Test!Merge(five, Test!Wallet) = five /\ Test!Merge(five, Test!Repair) = five
    <2>1. "words" \in Tested /\ "random-source" \in Tested
      BY DEF Tested
    <2>2. /\ "words" \in {five[i] : i \in DOMAIN five}
          /\ "random-source" \in {five[i] : i \in DOMAIN five}
      <3>1. /\ 3 \in DOMAIN five /\ 5 \in DOMAIN five
            /\ five[3] = "words" /\ five[5] = "random-source"
        BY <1>5
      <3>2. QED
        BY <3>1
    <2>3. Test!Merge(five, <<"words", "random-source">>) = five
      BY <1>5, <2>1, <2>2, MergesTwo
    <2>4. Test!Merge(five, <<"words">>) = five
      BY <1>5, <2>1, <2>2, MergesOne
    <2>5. QED
      BY <2>3, <2>4 DEF Test!Wallet, Test!Repair
  <1>8. PICK six : six = Append(five, "memory-locking")
    OBVIOUS
  <1>9. Test!EveryPart = six \o <<"core-dumps", "isolation", "hidden-input">>
    BY <1>2, <1>6, <1>7, <1>8 DEF Test!EveryPart, Test!Native
  <1>10. six \in Seq(Tested) /\ Len(six) = 6 /\ six[6] = "memory-locking"
         /\ \A i \in 1..5 : six[i] = five[i]
    <2>1. "memory-locking" \in Tested
      BY DEF Tested
    <2>2. five \in Seq(Tested) /\ Len(five) = 5 /\ 6 = Len(five) + 1
      BY <1>5
    <2>3. /\ six \in Seq(Tested) /\ Len(six) = 6 /\ six[6] = "memory-locking"
          /\ \A i \in 1..Len(five) : six[i] = five[i]
      BY <1>8, <2>1, <2>2, AddedIs
    <2>4. QED
      BY <2>2, <2>3
  <1>11. <<"core-dumps", "isolation", "hidden-input">> \in Seq(Tested)
    BY DEF Tested
  <1>12. PICK three : three = <<"core-dumps", "isolation", "hidden-input">>
    OBVIOUS
  <1>13. three \in Seq(Tested) /\ Len(three) = 3 /\ three[1] = "core-dumps"
         /\ three[2] = "isolation" /\ three[3] = "hidden-input"
    BY <1>11, <1>12
  <1>14. PICK all : all = six \o three
    OBVIOUS
  <1>15. /\ all \in Seq(Tested) /\ Len(all) = 9 /\ \A i \in 1..6 : all[i] = six[i]
         /\ all[7] = three[1] /\ all[8] = three[2] /\ all[9] = three[3]
    <2>0. 9 = Len(six) + Len(three) /\ Len(six) = 6 /\ Len(three) = 3
      BY <1>10, <1>13
    <2>1. /\ all \in Seq(Tested) /\ Len(all) = 9 /\ \A i \in 1..6 : all[i] = six[i]
          /\ \A i \in 1..3 : all[6 + i] = three[i]
      <3>1. /\ all \in Seq(Tested) /\ Len(all) = 9 /\ \A i \in 1..Len(six) : all[i] = six[i]
            /\ \A i \in 1..Len(three) : all[Len(six) + i] = three[i]
        <4>1. six \in Seq(Tested) /\ three \in Seq(Tested) /\ 9 = Len(six) + Len(three)
          BY <1>10, <1>13, <2>0
        <4>2. QED
          BY <1>14, <4>1, JoinedIs
      <3>2. QED
        BY <2>0, <3>1
    <2>2. 6 + 2 = 8 /\ 6 + 3 = 9 /\ 6 + 1 = 7 /\ 1 \in 1..3 /\ 2 \in 1..3 /\ 3 \in 1..3
      OBVIOUS
    <2>3. QED
      BY <2>1, <2>2
  <1>16. all = Test!EveryPart
    BY <1>9, <1>12, <1>14
  <1>17. QED
    BY <1>5, <1>10, <1>13, <1>15, <1>16

(* The parts were tried in their order, with what their checks may give.   *)
OutcomeSet == {"passed", "failed", "warning", "not available"}

TriedAre ==
  /\ tried \in Seq(Tested \X OutcomeSet) /\ Len(tried) <= 9
  /\ \A i \in DOMAIN tried : /\ tried[i][1] = Test!EveryPart[i]
                             /\ tried[i][2] \in Test!Outcomes(tried[i][1])
  /\ test = "begin" => tried = <<>>
  /\ (test \in {"reserve", "packs", "rounds", "writes", "verdict"} \/ exit = "success") =>
       Len(tried) = 9 /\ ~Test!FailedPart
  /\ broken \subseteq Tested \ {"random-source"}
  /\ random \in Test!Sources

(* The operation that is replayed and its calls.                           *)
CallsAre ==
  /\ test \in {"begin", "parts", "reserve", "packs", "rounds", "writes", "verdict", "ended"}
  /\ call \in 0..4 /\ path \in BOOLEAN /\ vectors \in BOOLEAN
  /\ same \in BOOLEAN \X BOOLEAN
  /\ test \in {"begin", "parts", "reserve"} =>
       call = 0 /\ path /\ faults = {} /\ witness = Test!None
  /\ test = "packs" => call \in {0, 2}
  /\ test = "rounds" => call \in 0..3
  /\ test = "writes" => call \in {2, 4}
  /\ test = "verdict" => call = 4
  /\ test \in {"reserve", "packs", "rounds", "writes", "verdict"} => vectors
  /\ test # "ended" => exit = "none"
  /\ (exit = "success" /\ vectors) => (faults = {} /\ call = 4)

(* What was published so far had no fault.  The first vector is being      *)
(* replayed up to its container, the second one after it.                  *)
First  == (test = "rounds" /\ call < 2) \/ (test = "writes" /\ call = 2)
Second == (test = "rounds" /\ call >= 2) \/ (test = "writes" /\ call = 4)

GoodWithoutFault ==
  /\ (test = "packs" /\ call = 0) => faults = {}
  /\ (First /\ path) => faults = {}
  /\ (test = "packs" /\ call = 2 /\ same[1]) => faults = {}
  /\ (Second /\ same[1] /\ path) => faults = {}
  /\ (test = "verdict" /\ same[1] /\ same[2]) => faults = {}

(* What the witness found lies where it says, and a fault that it has not  *)
(* found is one before a call to come or after the last.                   *)
FaultAfter == \E f \in faults : f[1] = "after"
FaultBefore(upto) == \E n \in 1..upto : <<"before", n>> \in faults

WitnessIs ==
  /\ witness # Test!None =>
       /\ witness \in {"argon2-key", "argon2-input"} \X (1..4)
       /\ witness[1] = "argon2-key" => <<"argon2", witness[2]>> \in faults
       /\ witness[1] = "argon2-input" => FaultBefore(witness[2])
  /\ witness = Test!None =>
       /\ (test = "rounds" /\ ~path) => FaultBefore(call + 1)
       /\ (test = "writes" /\ ~path) => FaultAfter
       /\ (test = "packs" /\ call = 2 /\ ~same[1]) => FaultAfter
       /\ (Second /\ ~same[1]) => FaultAfter
       /\ (test = "verdict" /\ ~(same[1] /\ same[2])) => FaultAfter

TestInv == TriedAre /\ CallsAre /\ GoodWithoutFault /\ WitnessIs

LEMMA TwoRounds ==
  /\ Test!Rounds = 2 /\ 2 * Test!Rounds = 4
  BY DEF Test!Rounds

LEMMA TestBegins == ASSUME Init PROVE TestInv
  <1>1. Test!Init
    BY DEF Init
  <1>2. TriedAre
    <2>1. tried = <<>> /\ broken = {} /\ random = "random" /\ exit = "none" /\ test = "begin"
      BY <1>1 DEF Test!Init
    <2>2. tried \in Seq(Tested \X OutcomeSet) /\ Len(tried) = 0 /\ DOMAIN tried = {}
      BY <2>1
    <2>3. QED
      BY <2>1, <2>2 DEF TriedAre, Test!Sources
  <1>3. /\ test = "begin" /\ vectors = FALSE /\ call = 0 /\ path = TRUE /\ faults = {}
        /\ witness = Test!None /\ exit = "none" /\ same \in BOOLEAN \X BOOLEAN
    BY <1>1 DEF Test!Init
  <1>4. CallsAre /\ GoodWithoutFault /\ WitnessIs
    <2>1. CallsAre
      <3>1. /\ call \in 0..4 /\ path \in BOOLEAN /\ vectors \in BOOLEAN /\ path /\ ~vectors
            /\ test # "ended"
        <4>1. call \in 0..4 /\ test # "ended"
          BY <1>3
        <4>2. path \in BOOLEAN /\ vectors \in BOOLEAN /\ path /\ ~vectors
          BY <1>3, Zenon
        <4>3. QED
          BY <4>1, <4>2
      <3>2. ~(exit = "success" /\ vectors)
        BY <3>1
      <3>3. QED
        BY <1>3, <3>1, <3>2 DEF CallsAre
    <2>2. GoodWithoutFault
      BY <1>3 DEF GoodWithoutFault, First, Second
    <2>3. WitnessIs
      BY <1>3 DEF WitnessIs, Second
    <2>4. QED
      BY <2>1, <2>2, <2>3
  <1>5. QED
    BY <1>2, <1>4 DEF TestInv

LEMMA OutcomesAre ==
  ASSUME NEW p
  PROVE  Test!Outcomes(p) \subseteq OutcomeSet
  BY DEF Test!Outcomes, OutcomeSet

LEMMA TestKeepsTried ==
  ASSUME TestInv, Test!Next
  PROVE  TriedAre'
  <1>1. TriedAre /\ CallsAre
    BY DEF TestInv
  <1>2. CASE Test!Begins
    <2>1. /\ test = "begin" /\ test' = "parts" /\ random' \in Test!Sources
          /\ tried' = tried /\ exit' = exit
          /\ broken' \in {{}} \cup {{p} : p \in Test!ToSet(Test!EveryPart) \ {"random-source"}}
      BY <1>2 DEF Test!Begins
    <2>2. Test!ToSet(Test!EveryPart) \subseteq Tested
      <3>1. \A i \in DOMAIN Test!EveryPart : Test!EveryPart[i] \in Tested
        <4>1. DOMAIN Test!EveryPart = 1..Len(Test!EveryPart)
          BY EveryPartIs, LenIs
        <4>2. QED
          BY <4>1, EveryPartIs, ElementIs
      <3>2. QED
        BY <3>1 DEF Test!ToSet
    <2>3. broken' \subseteq Tested \ {"random-source"}
      BY <2>1, <2>2
    <2>4. tried = <<>> /\ exit = "none"
      BY <1>1, <2>1 DEF TriedAre, CallsAre
    <2>5. tried' \in Seq(Tested \X OutcomeSet) /\ Len(tried') = 0 /\ DOMAIN tried' = {}
      BY <2>1, <2>4
    <2>6. QED
      BY <2>1, <2>3, <2>4, <2>5 DEF TriedAre
  <1>3. CASE Test!TestsPart
    <2>1. /\ test = "parts" /\ Len(tried) < 9 /\ broken' = broken /\ random' = random
      BY <1>3, EveryPartIs DEF Test!TestsPart
    <2>2. exit = "none"
      BY <1>1, <2>1 DEF CallsAre
    <2>3. \A p : Test!Outcomes(p)' = Test!Outcomes(p)
      BY <2>1 DEF Test!Outcomes, Test!PassesProbes, Test!PassesSpread
    <2>4. CASE /\ \E outcome \in Test!Outcomes(Test!EveryPart[Len(tried) + 1]) :
                    tried' = Append(tried, <<Test!EveryPart[Len(tried) + 1], outcome>>)
               /\ UNCHANGED <<test, exit>>
      <3>1. PICK outcome \in Test!Outcomes(Test!EveryPart[Len(tried) + 1]) :
                    tried' = Append(tried, <<Test!EveryPart[Len(tried) + 1], outcome>>)
        BY <2>4
      <3>2. PICK n : n = Len(tried) + 1
        OBVIOUS
      <3>3. tried \in Seq(Tested \X OutcomeSet) /\ Len(tried) \in Nat /\ DOMAIN tried = 1..Len(tried)
        BY <1>1, LenIs DEF TriedAre
      <3>4. n \in 1..9 /\ n - 1 = Len(tried)
        BY <2>1, <3>2, <3>3
      <3>5. Test!EveryPart[n] \in Tested
        BY <3>4, EveryPartIs, ElementIs
      <3>6. outcome \in OutcomeSet
        BY <3>1, OutcomesAre
      <3>7. /\ tried' \in Seq(Tested \X OutcomeSet) /\ Len(tried') = n
            /\ tried'[n] = <<Test!EveryPart[n], outcome>>
            /\ \A i \in 1..Len(tried) : tried'[i] = tried[i]
        BY <3>1, <3>2, <3>3, <3>5, <3>6, AddedIs
      <3>8. \A i \in DOMAIN tried' : /\ tried'[i][1] = Test!EveryPart[i]
                                     /\ tried'[i][2] \in Test!Outcomes(tried'[i][1])
        <4>1. DOMAIN tried' = 1..n
          BY <3>7
        <4>2. \A i \in 1..n : i = n \/ i \in DOMAIN tried
          BY <3>3, <3>4
        <4>3. \A i \in DOMAIN tried : /\ tried[i][1] = Test!EveryPart[i]
                                      /\ tried[i][2] \in Test!Outcomes(tried[i][1])
          BY <1>1 DEF TriedAre
        <4>4. tried'[n][1] = Test!EveryPart[n] /\ tried'[n][2] = outcome
          BY <3>7
        <4>5. QED
          BY <3>1, <3>2, <3>3, <3>7, <4>1, <4>2, <4>3, <4>4
      <3>9. test' = "parts" /\ exit' = "none" /\ Len(tried') <= 9
        BY <2>1, <2>2, <2>4, <3>4, <3>7
      <3>10. (\A i \in DOMAIN tried : /\ tried[i][1] = Test!EveryPart[i]
                                      /\ tried[i][2] \in Test!Outcomes(tried[i][1]))'
        BY <2>3, <3>8
      <3>11. broken \subseteq Tested \ {"random-source"} /\ random \in Test!Sources
        BY <1>1 DEF TriedAre
      <3>12. QED
        BY <2>1, <3>7, <3>9, <3>10, <3>11 DEF TriedAre
    <2>5. CASE test' = "ended" /\ exit' = "internal" /\ UNCHANGED tried
      BY <1>1, <2>1, <2>3, <2>5 DEF TriedAre
    <2>6. QED
      BY <1>3, <2>4, <2>5 DEF Test!TestsPart
  <1>4. ASSUME UNCHANGED <<tried, broken, random>>,
               (test' \in {"reserve", "packs", "rounds", "writes", "verdict"} \/ exit' = "success") =>
                 Len(tried) = 9 /\ ~Test!FailedPart,
               test' # "begin"
        PROVE  TriedAre'
    <2>1. \A p : Test!Outcomes(p)' = Test!Outcomes(p)
      BY <1>4 DEF Test!Outcomes, Test!PassesProbes, Test!PassesSpread
    <2>2. Test!FailedPart' <=> Test!FailedPart
      BY <1>4 DEF Test!FailedPart
    <2>3. QED
      BY <1>1, <1>4, <2>1, <2>2 DEF TriedAre
  <1>5. CASE Test!ShowsParts
    <2>1. exit = "none"
      BY <1>1, <1>5 DEF CallsAre, Test!ShowsParts
    <2>2. QED
      BY <1>4, <1>5, <2>1, EveryPartIs DEF Test!ShowsParts
  <1>6. CASE Test!Reserves
    <2>1. Len(tried) = 9 /\ ~Test!FailedPart
      BY <1>1, <1>6 DEF TriedAre, Test!Reserves
    <2>2. QED
      BY <1>4, <1>6, <2>1 DEF Test!Reserves
  <1>7. CASE Test!Packs \/ Test!Calls \/ Test!Writes \/ Test!ShowsVectors
    <2>1. /\ test \in {"packs", "rounds", "writes", "verdict"} /\ test' # "begin"
          /\ UNCHANGED <<tried, broken, random>>
      BY <1>7 DEF Test!Packs, Test!Calls, Test!Writes, Test!ShowsVectors
    <2>2. Len(tried) = 9 /\ ~Test!FailedPart
      BY <1>1, <2>1 DEF TriedAre
    <2>3. QED
      BY <1>4, <2>1, <2>2
  <1>8. QED
    BY <1>2, <1>3, <1>5, <1>6, <1>7 DEF Test!Next

LEMMA TestKeepsCalls ==
  ASSUME TestInv, Test!Next
  PROVE  CallsAre'
  <1>1. CallsAre
    BY DEF TestInv
  <1>2. CASE Test!Begins
    <2>1. /\ test = "begin" /\ test' = "parts" /\ vectors' \in BOOLEAN
          /\ UNCHANGED <<call, path, faults, witness, same, exit>>
      BY <1>2 DEF Test!Begins
    <2>2. QED
      BY <1>1, <2>1 DEF CallsAre
  <1>3. CASE Test!TestsPart
    <2>1. /\ test = "parts" /\ UNCHANGED <<vectors, call, path, faults, witness, same>>
          /\ (test' = test /\ exit' = exit) \/ (test' = "ended" /\ exit' = "internal")
      BY <1>3 DEF Test!TestsPart
    <2>2. QED
      BY <1>1, <2>1 DEF CallsAre
  <1>4. CASE Test!ShowsParts
    <2>1. /\ test = "parts" /\ UNCHANGED <<vectors, call, path, faults, witness, same>>
          /\ \/ test' = "ended" /\ exit' = "internal"
             \/ vectors /\ test' = "reserve" /\ exit' = exit
             \/ ~vectors /\ test' = "ended" /\ exit' = "success"
      BY <1>4 DEF Test!ShowsParts
    <2>2. QED
      BY <1>1, <2>1 DEF CallsAre
  <1>5. CASE Test!Reserves
    <2>1. /\ test = "reserve" /\ UNCHANGED <<vectors, call, path, faults, witness, same>>
          /\ \/ test' = "packs" /\ exit' = exit
             \/ test' = "ended" /\ exit' = "resources"
      BY <1>5 DEF Test!Reserves
    <2>2. QED
      BY <1>1, <2>1 DEF CallsAre
  <1>6. CASE Test!Packs
    <2>1. /\ test = "packs" /\ test' = "rounds" /\ path' \in BOOLEAN
          /\ UNCHANGED <<vectors, call, witness, same, exit>>
      BY <1>6 DEF Test!Packs
    <2>2. call \in {0, 2} /\ vectors /\ exit = "none"
      BY <1>1, <2>1 DEF CallsAre
    <2>3. call' \in 0..3
      BY <2>1, <2>2
    <2>4. QED
      BY <1>1, <2>1, <2>2, <2>3 DEF CallsAre
  <1>7. CASE Test!Calls
    <2>1. /\ test = "rounds" /\ call' = call + 1
          /\ test' = IF call' \in {2, 4} THEN "writes" ELSE test
          /\ UNCHANGED <<vectors, same, exit>>
      BY <1>7, TwoRounds DEF Test!Calls
    <2>2. path' \in BOOLEAN
      BY <1>7 DEF Test!Calls
    <2>3. call \in 0..3 /\ vectors /\ exit = "none"
      BY <1>1, <2>1 DEF CallsAre
    <2>4. call' \in 0..4 /\ (call' \notin {2, 4} => call' \in 0..3)
      BY <2>1, <2>3
    <2>5. QED
      BY <1>1, <2>1, <2>2, <2>3, <2>4 DEF CallsAre
  <1>8. CASE Test!Writes
    <2>1. /\ test = "writes" /\ UNCHANGED <<vectors, call, path, witness, exit>>
          /\ test' = IF call = 2 THEN "packs" ELSE "verdict"
      BY <1>8, TwoRounds DEF Test!Writes
    <2>2. same' \in BOOLEAN \X BOOLEAN
      <3>1. PICK equal \in BOOLEAN :
              same' = IF call = 2 THEN <<path /\ equal, same[2]>>
                      ELSE <<same[1], path /\ equal>>
        BY <1>8, TwoRounds DEF Test!Writes
      <3>2. same[1] \in BOOLEAN /\ same[2] \in BOOLEAN /\ (path /\ equal) \in BOOLEAN
        BY <1>1 DEF CallsAre
      <3>3. QED
        BY <3>1, <3>2
    <2>3. call \in {2, 4} /\ vectors /\ exit = "none"
      BY <1>1, <2>1 DEF CallsAre
    <2>4. QED
      BY <1>1, <2>1, <2>2, <2>3 DEF CallsAre
  <1>9. CASE Test!ShowsVectors
    <2>1. /\ test = "verdict" /\ test' = "ended" /\ exit' = IF Test!Passed THEN "success" ELSE "internal"
          /\ UNCHANGED <<vectors, call, path, faults, witness, same>>
      BY <1>9 DEF Test!ShowsVectors
    <2>2. call = 4
      BY <1>1, <2>1 DEF CallsAre
    <2>3. Test!Passed => faults = {}
      BY <2>1 DEF TestInv, GoodWithoutFault, Test!Passed
    <2>4. QED
      BY <1>1, <2>1, <2>2, <2>3 DEF CallsAre
  <1>10. QED
    BY <1>2, <1>3, <1>4, <1>5, <1>6, <1>7, <1>8, <1>9 DEF Test!Next

(* One call: what the witness says of it, and where its fault is.          *)
LEMMA CallIs ==
  ASSUME TestInv, Test!Calls
  PROVE  /\ test = "rounds" /\ call \in 0..3 /\ call' = call + 1
         /\ \/ call' \in {2, 4} /\ test' = "writes"
            \/ call' \in {1, 3} /\ test' = "rounds"
         /\ path' => path /\ faults' = faults
         /\ faults \subseteq faults'
         /\ witness # Test!None => witness' = witness
         /\ witness = Test!None /\ ~path => witness' = <<"argon2-input", call'>>
         /\ witness = Test!None /\ path =>
              \/ witness' = <<"argon2-input", call'>> /\ <<"before", call'>> \in faults'
              \/ witness' = <<"argon2-key", call'>> /\ <<"argon2", call'>> \in faults'
              \/ witness' = witness /\ path'
              \/ /\ witness' = witness
                 /\ IF test' = "writes" THEN <<"after", call'>> \in faults'
                    ELSE <<"before", call' + 1>> \in faults'
  <1>1. /\ test = "rounds" /\ call' = call + 1 /\ call \in 0..3 /\ path \in BOOLEAN
    BY DEF TestInv, CallsAre, Test!Calls
  <1>2. PICK salt \in BOOLEAN : \E argon2 \in BOOLEAN, mask \in BOOLEAN :
          LET input == path /\ salt
              key == input /\ argon2
              found == Test!Judge(input, key)
              last == call' \in {Test!Rounds, 2 * Test!Rounds}
          IN /\ ~path => salt /\ argon2 /\ mask
             /\ ~salt => argon2
             /\ witness' = IF witness = Test!None /\ found # "none" THEN <<found, call'>> ELSE witness
             /\ path' = (key /\ mask)
             /\ faults' = faults \cup (IF salt THEN {} ELSE {<<"before", call'>>})
                                 \cup (IF argon2 THEN {} ELSE {<<"argon2", call'>>})
                                 \cup (IF mask THEN {} ELSE IF last THEN {<<"after", call'>>}
                                       ELSE {<<"before", call' + 1>>})
             /\ test' = IF last THEN "writes" ELSE test
    BY DEF Test!Calls
  <1>3. PICK argon2 \in BOOLEAN, mask \in BOOLEAN :
          LET input == path /\ salt
              key == input /\ argon2
              found == Test!Judge(input, key)
              last == call' \in {2, 4}
          IN /\ ~path => salt /\ argon2 /\ mask
             /\ ~salt => argon2
             /\ witness' = IF witness = Test!None /\ found # "none" THEN <<found, call'>> ELSE witness
             /\ path' = (key /\ mask)
             /\ faults' = faults \cup (IF salt THEN {} ELSE {<<"before", call'>>})
                                 \cup (IF argon2 THEN {} ELSE {<<"argon2", call'>>})
                                 \cup (IF mask THEN {} ELSE IF last THEN {<<"after", call'>>}
                                       ELSE {<<"before", call' + 1>>})
             /\ test' = IF last THEN "writes" ELSE test
    BY <1>2, TwoRounds
  <1>4. \/ call' \in {2, 4} /\ test' = "writes"
        \/ call' \in {1, 3} /\ test' = "rounds"
    <2>1. call' \in {1, 2, 3, 4}
      BY <1>1
    <2>2. QED
      BY <1>1, <1>3, <2>1
  <1>5. faults \subseteq faults' /\ (path' => path /\ faults' = faults)
    BY <1>1, <1>3
  <1>6. witness # Test!None => witness' = witness
    BY <1>3
  <1>7. ASSUME witness = Test!None, ~path
        PROVE  witness' = <<"argon2-input", call'>>
    BY <1>3, <1>7 DEF Test!Judge
  <1>8. ASSUME witness = Test!None, path
        PROVE  \/ witness' = <<"argon2-input", call'>> /\ <<"before", call'>> \in faults'
               \/ witness' = <<"argon2-key", call'>> /\ <<"argon2", call'>> \in faults'
               \/ witness' = witness /\ path'
               \/ /\ witness' = witness
                  /\ IF test' = "writes" THEN <<"after", call'>> \in faults'
                     ELSE <<"before", call' + 1>> \in faults'
    <2>1. CASE ~salt
      BY <1>3, <1>8, <2>1 DEF Test!Judge
    <2>2. CASE salt /\ ~argon2
      BY <1>3, <1>8, <2>2 DEF Test!Judge
    <2>3. CASE salt /\ argon2 /\ mask
      BY <1>3, <1>8, <2>3 DEF Test!Judge
    <2>4. CASE salt /\ argon2 /\ ~mask
      <3>1. witness' = witness
        BY <1>3, <1>8, <2>4 DEF Test!Judge
      <3>2. IF test' = "writes" THEN <<"after", call'>> \in faults'
            ELSE <<"before", call' + 1>> \in faults'
        BY <1>1, <1>3, <1>4, <2>4
      <3>3. QED
        BY <3>1, <3>2
    <2>5. QED
      BY <2>1, <2>2, <2>3, <2>4
  <1>9. QED
    BY <1>1, <1>4, <1>5, <1>6, <1>7, <1>8

(* One result is written and compared.                                     *)
WritingIs ==
  \E equal \in BOOLEAN :
    /\ path \/ equal
    /\ faults' = IF equal THEN faults ELSE faults \cup {<<"after", call>>}
    /\ same' = IF call = 2 THEN <<path /\ equal, same[2]>> ELSE <<same[1], path /\ equal>>

LEMMA WriteIs ==
  ASSUME TestInv, Test!Writes
  PROVE  /\ test = "writes" /\ call' = call /\ path' = path /\ witness' = witness
         /\ \/ /\ call = 2 /\ test' = "packs" /\ same'[2] = same[2]
               /\ same'[1] => path /\ faults' = faults
               /\ ~same'[1] => ~path \/ <<"after", call>> \in faults'
            \/ /\ call = 4 /\ test' = "verdict" /\ same'[1] = same[1]
               /\ same'[2] => path /\ faults' = faults
               /\ ~same'[2] => ~path \/ <<"after", call>> \in faults'
         /\ faults \subseteq faults'
  <1>1. /\ test = "writes" /\ call' = call /\ path' = path /\ witness' = witness
        /\ call \in {2, 4} /\ path \in BOOLEAN /\ same \in BOOLEAN \X BOOLEAN
    BY DEF TestInv, CallsAre, Test!Writes
  <1>2. WritingIs /\ test' = IF call = 2 THEN "packs" ELSE "verdict"
    BY TwoRounds DEF Test!Writes, WritingIs
  <1>3. PICK equal \in BOOLEAN :
          /\ path \/ equal
          /\ faults' = IF equal THEN faults ELSE faults \cup {<<"after", call>>}
          /\ same' = IF call = 2 THEN <<path /\ equal, same[2]>> ELSE <<same[1], path /\ equal>>
    BY <1>2 DEF WritingIs
  <1>4. faults \subseteq faults' /\ (~equal => <<"after", call>> \in faults')
        /\ (equal => faults' = faults)
    BY <1>3
  <1>5. CASE call = 2
    <2>1. same'[2] = same[2] /\ same'[1] = (path /\ equal) /\ test' = "packs"
      BY <1>2, <1>3, <1>5
    <2>2. QED
      BY <1>1, <1>4, <1>5, <2>1
  <1>6. CASE call = 4
    <2>1. same'[1] = same[1] /\ same'[2] = (path /\ equal) /\ test' = "verdict"
      BY <1>2, <1>3, <1>6
    <2>2. QED
      BY <1>1, <1>4, <1>6, <2>1
  <1>7. QED
    BY <1>1, <1>5, <1>6

LEMMA PackIs ==
  ASSUME TestInv, Test!Packs
  PROVE  /\ test = "packs" /\ test' = "rounds" /\ call' = call /\ call \in {0, 2}
         /\ witness' = witness /\ same' = same /\ faults \subseteq faults'
         /\ path' => faults' = faults
         /\ ~path' => <<"before", call' + 1>> \in faults'
  <1>1. call \in {0, 2} /\ call' = call
    BY DEF TestInv, CallsAre, Test!Packs
  <1>2. path' \in BOOLEAN /\ faults' = IF path' THEN faults ELSE faults \cup {<<"before", call' + 1>>}
    BY <1>1 DEF Test!Packs
  <1>3. QED
    BY <1>1, <1>2 DEF Test!Packs

LEMMA TestKeepsGood ==
  ASSUME TestInv, Test!Next
  PROVE  GoodWithoutFault'
  <1>1. GoodWithoutFault /\ CallsAre
    BY DEF TestInv
  <1>2. CASE Test!Begins \/ Test!TestsPart \/ Test!ShowsParts \/ Test!Reserves \/ Test!ShowsVectors
    <2>1. /\ UNCHANGED <<call, path, faults, same>>
          /\ \/ test' \in {"parts", "reserve", "ended"}
             \/ test = "reserve" /\ test' = "packs" /\ faults = {} /\ call = 0
      BY <1>1, <1>2 DEF CallsAre, Test!Begins, Test!TestsPart, Test!ShowsParts, Test!Reserves,
           Test!ShowsVectors
    <2>2. QED
      BY <2>1 DEF GoodWithoutFault, First, Second
  <1>3. CASE Test!Packs
    BY <1>1, <1>3, PackIs DEF GoodWithoutFault, First, Second
  <1>4. CASE Test!Calls
    <2>1. ASSUME path'
          PROVE  /\ (First /\ path) \/ (Second /\ path)
                 /\ faults' = faults /\ same' = same
                 /\ First' => First
                 /\ Second' => Second
                 /\ test' \in {"rounds", "writes"}
      <3>1. path /\ faults' = faults /\ test = "rounds" /\ call \in 0..3 /\ call' = call + 1
        BY <1>4, <2>1, CallIs
      <3>2. \/ call' \in {2, 4} /\ test' = "writes"
            \/ call' \in {1, 3} /\ test' = "rounds"
        BY <1>4, CallIs
      <3>3. same' = same
        BY <1>4 DEF Test!Calls
      <3>4. QED
        BY <3>1, <3>2, <3>3 DEF First, Second
    <2>2. test' \in {"rounds", "writes"}
      BY <1>4, CallIs
    <2>3. QED
      BY <1>1, <2>1, <2>2 DEF GoodWithoutFault
  <1>5. CASE Test!Writes
    <2>1. CASE call = 2
      <3>1. test' = "packs" /\ call' = 2 /\ (same'[1] => path /\ faults' = faults) /\ First
        BY <1>5, <2>1, WriteIs DEF First
      <3>2. QED
        BY <1>1, <3>1 DEF GoodWithoutFault, First, Second
    <2>2. CASE call = 4
      <3>1. /\ test' = "verdict" /\ same'[1] = same[1] /\ (same'[2] => path /\ faults' = faults)
            /\ Second
        BY <1>5, <2>2, WriteIs DEF Second
      <3>2. QED
        BY <1>1, <3>1 DEF GoodWithoutFault, First, Second
    <2>3. QED
      BY <1>5, <2>1, <2>2, WriteIs
  <1>6. QED
    BY <1>2, <1>3, <1>4, <1>5 DEF Test!Next

LEMMA TestKeepsWitness ==
  ASSUME TestInv, Test!Next
  PROVE  WitnessIs'
  <1>1. WitnessIs /\ CallsAre
    BY DEF TestInv
  <1>2. ASSUME witness # Test!None, witness' = witness, faults \subseteq faults'
        PROVE  WitnessIs'
    <2>1. /\ witness \in {"argon2-key", "argon2-input"} \X (1..4)
          /\ witness[1] = "argon2-key" => <<"argon2", witness[2]>> \in faults'
          /\ witness[1] = "argon2-input" => FaultBefore(witness[2])'
      BY <1>1, <1>2 DEF WitnessIs, FaultBefore
    <2>2. QED
      BY <1>2, <2>1 DEF WitnessIs, FaultBefore
  <1>3. FaultAfter /\ faults \subseteq faults' => FaultAfter'
    BY DEF FaultAfter
  <1>4. \A n : <<"after", n>> \in faults' => FaultAfter'
    BY DEF FaultAfter
  <1>5. CASE Test!Begins \/ Test!TestsPart \/ Test!ShowsParts \/ Test!Reserves \/ Test!ShowsVectors
    <2>1. /\ UNCHANGED <<call, path, faults, same, witness>>
          /\ \/ test' \in {"parts", "reserve", "ended"}
             \/ test' = "packs" /\ call = 0
      BY <1>1, <1>5 DEF CallsAre, Test!Begins, Test!TestsPart, Test!ShowsParts, Test!Reserves,
           Test!ShowsVectors
    <2>2. CASE witness # Test!None
      BY <1>2, <2>1, <2>2
    <2>3. CASE witness = Test!None
      BY <2>1, <2>3 DEF WitnessIs, Second
    <2>4. QED
      BY <2>2, <2>3
  <1>6. CASE Test!Packs
    <2>1. CASE witness # Test!None
      BY <1>2, <1>6, <2>1, PackIs
    <2>2. CASE witness = Test!None
      <3>1. ~path' => FaultBefore(call + 1)'
        <4>1. call' + 1 \in 1..(call' + 1)
          BY <1>6, PackIs
        <4>2. QED
          BY <1>6, <4>1, PackIs DEF FaultBefore
      <3>2. Second' /\ ~same'[1] => FaultAfter'
        BY <1>1, <1>3, <1>6, <2>2, PackIs DEF Second, WitnessIs
      <3>3. test' = "rounds" /\ witness' = Test!None
        BY <1>6, <2>2, PackIs
      <3>4. QED
        BY <3>1, <3>2, <3>3 DEF WitnessIs
    <2>3. QED
      BY <2>1, <2>2
  <1>7. CASE Test!Calls
    <2>1. CASE witness # Test!None
      BY <1>2, <1>7, <2>1, CallIs
    <2>2. CASE witness = Test!None /\ witness' # Test!None
      <3>1. call \in 0..3 /\ call' = call + 1 /\ call' \in 1..4 /\ call' \in 1..call'
        BY <1>7, CallIs
      <3>2. \/ witness' = <<"argon2-input", call'>> /\ FaultBefore(call)'
            \/ witness' = <<"argon2-key", call'>> /\ <<"argon2", call'>> \in faults'
        <4>1. CASE path
          BY <1>7, <2>2, <3>1, <4>1, CallIs DEF FaultBefore
        <4>2. CASE ~path
          <5>1. FaultBefore(call + 1)
            BY <1>1, <1>7, <2>2, <4>2, CallIs DEF WitnessIs
          <5>2. FaultBefore(call)'
            BY <1>7, <3>1, <5>1, CallIs DEF FaultBefore
          <5>3. QED
            BY <1>7, <2>2, <4>2, <5>2, CallIs
        <4>3. QED
          BY <4>1, <4>2
      <3>3. QED
        BY <2>2, <3>1, <3>2 DEF WitnessIs, FaultBefore
    <2>3. CASE witness = Test!None /\ witness' = Test!None
      <3>1. path
        BY <1>7, <2>3, CallIs DEF Test!None
      <3>2. call \in 0..3 /\ call' = call + 1 /\ same' = same /\ test = "rounds"
        BY <1>7, CallIs DEF Test!Calls
      <3>3. \/ path'
            \/ test' = "writes" /\ FaultAfter'
            \/ test' = "rounds" /\ <<"before", call' + 1>> \in faults'
        BY <1>4, <1>7, <2>3, <3>1, CallIs DEF Test!None
      <3>4. Second' /\ ~same'[1] => FaultAfter'
        <4>1. ASSUME Second', ~same'[1]
              PROVE  FaultAfter'
          <5>1. CASE Second
            BY <1>1, <1>3, <1>7, <2>3, <3>2, <4>1, <5>1, CallIs DEF WitnessIs
          <5>2. CASE ~Second
            BY <1>7, <3>2, <4>1, <5>2, CallIs DEF Second
          <5>3. QED
            BY <5>1, <5>2
        <4>2. QED
          BY <4>1
      <3>5. test' = "rounds" /\ ~path' => FaultBefore(call + 1)'
        BY <3>2, <3>3 DEF FaultBefore
      <3>6. test' \in {"rounds", "writes"} /\ (test' = "writes" /\ ~path' => FaultAfter')
        BY <1>7, <3>3, CallIs
      <3>7. QED
        BY <2>3, <3>4, <3>5, <3>6 DEF WitnessIs
    <2>4. QED
      BY <2>1, <2>2, <2>3
  <1>8. CASE Test!Writes
    <2>1. CASE witness # Test!None
      BY <1>2, <1>8, <2>1, WriteIs
    <2>2. CASE witness = Test!None
      <3>1. ~path => FaultAfter'
        BY <1>1, <1>3, <1>8, <2>2, WriteIs DEF WitnessIs
      <3>2. call = 4 /\ ~same[1] => FaultAfter'
        BY <1>1, <1>3, <1>8, <2>2, WriteIs DEF WitnessIs, Second
      <3>3. test' = "packs" /\ ~same'[1] => FaultAfter'
        BY <1>4, <1>8, <3>1, WriteIs
      <3>4. test' = "verdict" /\ ~(same'[1] /\ same'[2]) => FaultAfter'
        BY <1>4, <1>8, <3>1, <3>2, WriteIs
      <3>5. test' \in {"packs", "verdict"} /\ witness' = Test!None
        BY <1>8, <2>2, WriteIs
      <3>6. QED
        BY <3>3, <3>4, <3>5 DEF WitnessIs, Second
    <2>3. QED
      BY <2>1, <2>2
  <1>9. QED
    BY <1>5, <1>6, <1>7, <1>8 DEF Test!Next

LEMMA FaultLiesThere ==
  ASSUME TestInv
  PROVE  Test!FaultIsWhereItSays
  <1>1. SUFFICES ASSUME test = "verdict"
                 PROVE  CASE Test!Fault = "none"         -> faults = {}
                          [] Test!Fault = "argon2-key"   -> <<"argon2", witness[2]>> \in faults
                          [] Test!Fault = "argon2-input" ->
                               \E n \in 1..witness[2] : <<"before", n>> \in faults
                          [] Test!Fault = "after-argon2" -> \E f \in faults : f[1] = "after"
    BY DEF Test!FaultIsWhereItSays
  <1>2. GoodWithoutFault /\ WitnessIs
    BY DEF TestInv
  <1>3. CASE Test!Passed
    <2>1. Test!Fault = "none"
      BY <1>3 DEF Test!Fault
    <2>2. faults = {}
      BY <1>1, <1>2, <1>3 DEF GoodWithoutFault, Test!Passed
    <2>3. QED
      BY <2>1, <2>2
  <1>4. CASE ~Test!Passed /\ witness # Test!None
    <2>1. Test!Fault = witness[1] /\ witness[1] \in {"argon2-key", "argon2-input"}
      BY <1>2, <1>4 DEF Test!Fault, WitnessIs
    <2>2. /\ witness[1] = "argon2-key" => <<"argon2", witness[2]>> \in faults
          /\ witness[1] = "argon2-input" => \E n \in 1..witness[2] : <<"before", n>> \in faults
      BY <1>2, <1>4 DEF WitnessIs, FaultBefore
    <2>3. QED
      BY <2>1, <2>2
  <1>5. CASE ~Test!Passed /\ witness = Test!None
    <2>1. Test!Fault = "after-argon2"
      BY <1>5 DEF Test!Fault
    <2>2. \E f \in faults : f[1] = "after"
      BY <1>1, <1>2, <1>5 DEF WitnessIs, Test!Passed, FaultAfter
    <2>3. QED
      BY <2>1, <2>2
  <1>6. QED
    BY <1>3, <1>4, <1>5

(* Each place of the list has a part of its own, each part a place.        *)
LEMMA EachPartOnce ==
  /\ DOMAIN Test!EveryPart = 1..9
  /\ Test!EveryPart = [i \in 1..9 |-> Test!EveryPart[i]]
  /\ \A i, k \in 1..9 : Test!EveryPart[i] = Test!EveryPart[k] => i = k
  /\ \A p \in Tested : \E i \in 1..9 : Test!EveryPart[i] = p
  <1>1. DOMAIN Test!EveryPart = 1..9
    BY EveryPartIs, LenIs
  <1>2. Test!EveryPart = [i \in 1..9 |-> Test!EveryPart[i]]
    BY <1>1, EveryPartIs
  <1>3. \A i \in 1..9 : i \in {1, 2, 3, 4, 5, 6, 7, 8, 9}
    OBVIOUS
  <1>4. \A i \in {1, 2, 3, 4, 5, 6, 7, 8, 9} : i \in 1..9
    OBVIOUS
  <1>5. \A i, k \in {1, 2, 3, 4, 5, 6, 7, 8, 9} : Test!EveryPart[i] = Test!EveryPart[k] => i = k
    BY EveryPartIs
  <1>6. \A p \in Tested : \E i \in {1, 2, 3, 4, 5, 6, 7, 8, 9} : Test!EveryPart[i] = p
    BY EveryPartIs DEF Tested
  <1>7. QED
    BY <1>1, <1>2, <1>3, <1>4, <1>5, <1>6

LEMMA PassWasEarned ==
  ASSUME TestInv
  PROVE  Test!PassIsEarned
  <1>1. SUFFICES ASSUME exit = "success"
                 PROVE  /\ [i \in DOMAIN tried |-> tried[i][1]] = Test!EveryPart
                        /\ \A i, k \in DOMAIN tried : tried[i][1] = tried[k][1] => i = k
                        /\ random = "random"
                        /\ \A p \in broken : \E i \in DOMAIN tried :
                             tried[i] \in {p} \X {"warning", "not available"}
                        /\ vectors => faults = {} /\ call = 2 * Test!Rounds
    BY DEF Test!PassIsEarned
  <1>2. /\ tried \in Seq(Tested \X OutcomeSet) /\ Len(tried) = 9 /\ ~Test!FailedPart
        /\ \A i \in DOMAIN tried : /\ tried[i][1] = Test!EveryPart[i]
                                   /\ tried[i][2] \in Test!Outcomes(tried[i][1])
        /\ broken \subseteq Tested \ {"random-source"} /\ random \in Test!Sources
    BY <1>1 DEF TestInv, TriedAre
  <1>3. DOMAIN tried = 1..9
    BY <1>2, LenIs
  <1>4. \A i \in 1..9 : /\ tried[i] \in Tested \X OutcomeSet
                       /\ tried[i][1] = Test!EveryPart[i]
                       /\ tried[i][2] \in Test!Outcomes(Test!EveryPart[i])
                       /\ tried[i][2] # "failed"
    <2>1. \A i \in 1..9 : tried[i] \in Tested \X OutcomeSet
      BY <1>2, ElementIs
    <2>2. \A i \in 1..9 : tried[i][2] # "failed"
      BY <1>2, <1>3 DEF Test!FailedPart
    <2>3. QED
      BY <1>2, <1>3, <2>1, <2>2
  <1>5. [i \in DOMAIN tried |-> tried[i][1]] = Test!EveryPart
    <2>1. [i \in DOMAIN tried |-> tried[i][1]] = [i \in 1..9 |-> Test!EveryPart[i]]
      BY <1>3, <1>4
    <2>2. QED
      BY <2>1, EachPartOnce
  <1>6. \A i, k \in DOMAIN tried : tried[i][1] = tried[k][1] => i = k
    BY <1>3, <1>4, EachPartOnce
  <1>7. random = "random"
    <2>1. 5 \in 1..9
      OBVIOUS
    <2>2. tried[5][2] \in Test!Outcomes("random-source") /\ tried[5][2] # "failed"
      BY <1>4, <2>1, EveryPartIs
    <2>3. QED
      BY <2>2 DEF Test!Outcomes, Test!PassesSpread
  <1>8. ASSUME NEW p \in broken
        PROVE  \E i \in DOMAIN tried : tried[i] \in {p} \X {"warning", "not available"}
    <2>1. p \in Tested /\ p # "random-source"
      BY <1>2, <1>8
    <2>2. PICK i \in 1..9 : Test!EveryPart[i] = p
      BY <2>1, EachPartOnce
    <2>3. tried[i][2] \in Test!Outcomes(p) /\ tried[i][2] # "failed" /\ tried[i][1] = p
      BY <1>4, <2>2
    <2>4. tried[i][2] \in {"warning", "not available"}
      BY <1>8, <2>1, <2>3 DEF Test!Outcomes
    <2>5. tried[i] = <<p, tried[i][2]>>
      BY <1>4, <2>3
    <2>6. tried[i] \in {p} \X {"warning", "not available"}
      <3>1. PICK outcome : outcome = tried[i][2]
        OBVIOUS
      <3>2. <<p, outcome>> \in {p} \X {"warning", "not available"}
        BY <2>4, <3>1
      <3>3. QED
        BY <2>5, <3>1, <3>2
    <2>7. QED
      BY <1>3, <2>6
  <1>9. vectors => faults = {} /\ call = 2 * Test!Rounds
    BY <1>1, TwoRounds DEF TestInv, CallsAre
  <1>10. QED
    BY <1>5, <1>6, <1>7, <1>8, <1>9

(* self_test.rs and self_check.rs, over the merged list of the parts and   *)
(* every place a fault can take: a fault lies where the result says, and a *)
(* pass means that each part was tried once and the vectors had no fault.  *)
THEOREM SelfTestTellsTheTruth == Spec => []SelfTestIsTrue
  <1> DEFINE Inv == command \in {"none", "test"} => TestInv
  <1>1. Init => Inv
    BY TestBegins
  <1>2. Inv /\ [Next]_vars => Inv'
    <2>1. ASSUME TestInv, UNCHANGED <<testVars, exit>>
          PROVE  TestInv'
      <3>1. UNCHANGED <<test, vectors, tried, broken, random, call, path, faults, witness, same, exit>>
        BY <2>1 DEF testVars
      <3>2. TriedAre'
        <4>1. (Test!FailedPart' <=> Test!FailedPart)
              /\ \A p : Test!Outcomes(p)' = Test!Outcomes(p)
          BY <3>1 DEF Test!FailedPart, Test!Outcomes, Test!PassesProbes, Test!PassesSpread
        <4>2. QED
          BY <2>1, <3>1, <4>1 DEF TestInv, TriedAre
      <3>3. CallsAre' /\ GoodWithoutFault'
        BY <2>1, <3>1 DEF TestInv, CallsAre, GoodWithoutFault, First, Second
      <3>4. WitnessIs'
        BY <2>1, <3>1 DEF TestInv, WitnessIs, Second, FaultAfter, FaultBefore
      <3>5. QED
        BY <3>2, <3>3, <3>4 DEF TestInv
    <2>2. ASSUME TestInv, Test!Next
          PROVE  TestInv'
      BY <2>2, TestKeepsTried, TestKeepsCalls, TestKeepsGood, TestKeepsWitness DEF TestInv
    <2>3. QED
      BY <2>1, <2>2, OneCommandRuns
  <1>3. Inv => SelfTestIsTrue
    BY FaultLiesThere, PassWasEarned DEF SelfTestIsTrue, Test!SelfTestIsTrue
  <1>4. QED
    BY <1>1, <1>2, <1>3, PTL DEF Spec
=============================================================================
