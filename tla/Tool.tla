-------------------------------- MODULE Tool --------------------------------
(***************************************************************************)
(* The mhfe process (src/bin/mhfe/main.rs): the start menu where it is     *)
(* started alone at a terminal, else the one command of its arguments.  A  *)
(* module stands for each, and for what the commands have in common: the   *)
(* start of the process, the terminal, the reading of a container and the  *)
(* settings.  A behaviour is one of them; they share the exit code.        *)
(***************************************************************************)
EXTENDS Readings

CONSTANTS MaxSignals, MaxPasswords, MaxLevel,   \* bounds
          Clients,          \* connections to mhfe serve
          MaxConnections,
          MaxNested         \* private screens within one another, a bound

ASSUME BoundsAssumption ==
  /\ {MaxSignals, MaxPasswords, MaxLevel} \subseteq Nat
  /\ IsFiniteSet(Clients) /\ {MaxConnections, MaxNested} \subseteq Nat \ {0}

VARIABLES command,   \* "none" before main has chosen, "menu" or what runs
          exit

(* The start menu.                                                         *)
VARIABLES menu, COMMAND, stopped, handler, caught, process, pending, switched, signals
menuVars == <<menu, COMMAND, stopped, handler, caught, process, pending, switched, signals>>
Menu == INSTANCE MenuCommand

(* encrypt and new.                                                        *)
VARIABLES reader, original, suite, card, sealing, check, good, flagged, told, keep
encryptVars == <<reader, original, suite, card, sealing, check, good, flagged, told, keep>>
Encrypt == INSTANCE Sealing

(* decrypt.                                                                *)
VARIABLES decrypt, setting, levels, reserved, flow, alone, answers
decryptVars == <<decrypt, setting, levels, reserved, flow, alone, answers>>
Decrypt == INSTANCE Recoveries

(* check.                                                                  *)
VARIABLES rehearsal, script, recovery, wallet, choice, typed, evidence, result
checkVars == <<rehearsal, script, recovery, wallet, choice, typed, evidence, result>>
Check == INSTANCE Rehearsal

(* rekey.                                                                  *)
VARIABLES rekey, old, stated, kind, right, rounds, offered, recovered, owner, reference, new,
          sealed
rekeyVars == <<rekey, old, stated, kind, right, rounds, offered, recovered, owner, reference,
               new, sealed>>
Dialog == INSTANCE RekeyDialog

(* serve.                                                                  *)
VARIABLES serve, disk, page, active, client, request, answer
serveVars == <<serve, disk, page, active, client, request, answer>>
Server == INSTANCE Serve

(* self-test.                                                              *)
VARIABLES test, vectors, tried, broken, random, call, path, faults, witness, same
testVars == <<test, vectors, tried, broken, random, call, path, faults, witness, same>>
Test == INSTANCE SelfTest

(* What main does before a command.                                        *)
VARIABLES prepare, kind_of, host, scoped, threads, offers, isolation, swap, said, part, working,
          gave, named
startVars == <<prepare, kind_of, host, scoped, threads, offers, isolation, swap, said, part,
               working, gave, named>>
Start == INSTANCE Protection

(* The container that a command reads, and repair.                         *)
VARIABLES read, asks, written, reviewed, known, seen, agreed
containerVars == <<read, asks, written, reviewed, known, seen, agreed>>
Container == INSTANCE ContainerReading

(* The settings of a command and their memory.                             *)
VARIABLES settle, way, level, memory, hint, locked, notice, went_on
settingsVars == <<settle, way, level, memory, hint, locked, notice, went_on>>
Settle == INSTANCE Settings

(* The terminal, its private screens and the thread of Ctrl+C.             *)
VARIABLES main, stopper, drawing, savedLock, saved, stepped, steps, private, held, container,
          unverified, screen, secrets, echo, ended
screenVars == <<main, stopper, drawing, savedLock, saved, stepped, steps, private, held,
                container, unverified, screen, secrets, echo, ended>>
Screen == INSTANCE PrivateScreen WITH handler <- stopper, flow <- stepped, active <- private

vars == <<command, exit, menuVars, encryptVars, decryptVars, checkVars, rekeyVars, serveVars,
          testVars, startVars, containerVars, settingsVars,
          screenVars>>

Init ==
  /\ command = "none"
  /\ Menu!Init /\ Encrypt!Init /\ Decrypt!Init /\ Check!Init /\ Dialog!Init
  /\ Server!Init /\ Test!Init /\ Start!Init /\ Container!Init /\ Settle!Init
  /\ Screen!Init

Commands == {"menu", "encrypt", "decrypt", "check", "rekey",
             "serve", "test", "start", "container", "settings", "screen"}

(* What a step of one command leaves alone.                                *)
OthersStay ==
  /\ command # "menu" => UNCHANGED menuVars
  /\ command # "encrypt" => UNCHANGED encryptVars
  /\ command # "decrypt" => UNCHANGED decryptVars
  /\ command # "check" => UNCHANGED checkVars
  /\ command # "rekey" => UNCHANGED rekeyVars
  /\ command # "serve" => UNCHANGED serveVars
  /\ command # "test" => UNCHANGED testVars
  /\ command # "start" => UNCHANGED startVars
  /\ command # "container" => UNCHANGED containerVars
  /\ command # "settings" => UNCHANGED settingsVars
  /\ command # "screen" => UNCHANGED screenVars

(* main parses its arguments.                                              *)
Chooses ==
  /\ command = "none" /\ command' \in Commands
  /\ UNCHANGED exit /\ OthersStay

RunsMenu ==      command = "menu" /\ Menu!Next /\ UNCHANGED exit
RunsEncrypt ==   command = "encrypt" /\ Encrypt!Next
RunsDecrypt ==   command = "decrypt" /\ Decrypt!Next
RunsCheck ==     command = "check" /\ Check!Next
RunsRekey ==     command = "rekey" /\ Dialog!Next
RunsServe ==     command = "serve" /\ Server!Next
RunsSelfTest ==  command = "test" /\ Test!Next
RunsStart ==     command = "start" /\ Start!Next
RunsContainer == command = "container" /\ Container!Next
RunsSettings ==  command = "settings" /\ Settle!Next
RunsScreen ==    command = "screen" /\ Screen!Next /\ UNCHANGED exit

Next ==
  \/ Chooses
  \/ /\ \/ RunsMenu \/ RunsEncrypt \/ RunsDecrypt \/ RunsCheck \/ RunsRekey \/ RunsServe
        \/ RunsSelfTest \/ RunsStart \/ RunsContainer \/ RunsSettings \/ RunsScreen
     /\ OthersStay /\ UNCHANGED command

(* Nothing is assumed of a command that a person answers.                  *)
Spec == Init /\ [][Next]_vars /\ Menu!Fairness /\ Server!Fairness /\ Screen!Fairness

-----------------------------------------------------------------------------
(* Properties, each stated in the module of its part.                      *)

(* menu.rs, run_command: the menu comes back to a clean terminal.          *)
MenuComesBackClean == Menu!MenuComesBackClean

(* terminal.rs, hidden_input.rs: however a command ends, the terminal has  *)
(* its echo and no secret that is drawn under the lock.                    *)
LeftClean == command = "screen" => Screen!LeftClean

(* menu.rs, pass_on_stop: a stop ends the command and then the tool;       *)
(* hidden_input.rs, restore_and_exit: also while a prompt waits; serve.rs, *)
(* answer: a connection ends.                                              *)
StopsAndConnectionsEnd ==
  Menu!PassedOnStopEnds /\ Screen!StopEnds /\ Server!ConnectionsEnd

(* encrypt.rs, show_sealing, and operation.rs, Keep: only a checked        *)
(* container is final, an unchecked one is told as such, what is kept      *)
(* recovers the phrase.                                                    *)
SealedIsChecked == command = "encrypt" => Encrypt!SealedIsChecked

(* decrypt.rs, reserve_largest, and flow.rs: each password is answered,    *)
(* the summary tells of one.                                               *)
AnsweredAsOne == command = "decrypt" => Decrypt!AnsweredAsOne

(* rehearsal.rs, evidence_of, and check.rs, report: the result is true,    *)
(* and mhfe rekey takes what check matches without reserve.                *)
ResultIsTrue == command = "check" => Check!ResultIsTrue

(* bin/mhfe/rekey.rs: the new container has the wallet, and no recovery    *)
(* is run in vain.                                                         *)
DialogRekeysTheWallet == command = "rekey" => Dialog!DialogRekeysTheWallet

(* serve.rs: at most so many connections, and the checked page alone.      *)
ServesTheChecked == command = "serve" => Server!ServesTheChecked

(* self_test.rs, self_check.rs: what the self-test says of a part is true. *)
SelfTestIsTrue == command = "test" => Test!SelfTestIsTrue

(* main.rs, protect.rs: no secret before the protection or what is said    *)
(* of its gaps.                                                            *)
Protected == command = "start" => Start!Protected

(* terminal.rs, container_repair.rs, container_search.rs: a command goes   *)
(* on with the container that the person saw.                              *)
ContainerIsTheirs == command = "container" => Container!ContainerIsTheirs

(* settings.rs, cgroup.rs: the memory asked for is there.                  *)
MemoryIsThere == command = "settings" => Settle!MemoryIsThere
=============================================================================
