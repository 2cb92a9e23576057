------------------------------ MODULE Settings ------------------------------
(***************************************************************************)
(* The settings of a command that runs the cipher, the memory they need    *)
(* and what the computer has of it (src/bin/mhfe/settings.rs;              *)
(* src/engine/native.rs, ffi.rs and cgroup.rs; src/suite.rs).              *)
(*                                                                         *)
(* Memory is counted in gibibytes.  The figures are read anew each time,   *)
(* as other programs take and free memory meanwhile.                       *)
(***************************************************************************)
EXTENDS Integers, Sequences, FiniteSetsExt

CONSTANT MaxLevel   \* memory levels are 0..MaxLevel, a bound

VARIABLES
  settle,    \* the next step of the command; where it ended it stays
  way,       \* who answers, whether the options were given, the steps are shown
             \* one at a time and this is Windows
  level,     \* the memory level of the work factor
  memory,    \* the figures last read
  hint,      \* the level that a refusal names, or Nothing
  locked,    \* whether the system locked the work area
  notice,    \* the warning about the disk: "none", "next" step or "shown"
  went_on,   \* the person answered Yes below it
  exit

vars == <<settle, way, level, memory, hint, locked, notice, went_on, exit>>

Nothing == -1   \* no figure, no limit, or a usage that cannot be read

-----------------------------------------------------------------------------
(* memory_bytes: 2, 3 and 4 GiB at the first levels.                       *)
Bytes(l) == l + 2

(* The control group of the process and those above it, from the nearest   *)
(* on, each with its limit, its usage and the cache in it.                 *)
Group == [limit : {Nothing}, usage : {1}, cache : {0}]
         \cup [limit : {3}, usage : {Nothing, 1}, cache : {0, 1}] \cup [limit : {4}, usage : {1}, cache : {1}]
Figures == [computer : {Nothing, 2, 4}, version : {"v2"}, groups : {<<>>}]
           \cup [computer : {3}, version : {"v1", "v2"}, groups : [1..2 -> Group]]

Unread == [computer |-> Nothing, version |-> "v2", groups |-> <<>>]

Least(numbers) == IF numbers \ {Nothing} = {} THEN Nothing ELSE Min(numbers \ {Nothing})
Saturating(n) == IF n < 0 THEN 0 ELSE n

(* available_v1 and available_v2: v1 tells of each group the lowest limit  *)
(* of it and of those above.                                               *)
LimitOf(f, i) ==
  IF f.version = "v2" THEN f.groups[i].limit
  ELSE Least({f.groups[k].limit : k \in i..Len(f.groups)})

RoomLeft(limit, usage, cache) == Saturating(limit - Saturating(usage - cache))
Room(f, i) ==
  LET limit == LimitOf(f, i)
      usage == IF f.groups[i].usage = Nothing THEN limit ELSE f.groups[i].usage
  IN IF limit = Nothing THEN Nothing ELSE RoomLeft(limit, usage, f.groups[i].cache)

SmallestRoomSlip(f) == IF f.groups = <<>> THEN Nothing ELSE Room(f, 1)
SmallestRoom(f) == Least({Room(f, i) : i \in DOMAIN f.groups})

Available(f) == Least({f.computer, SmallestRoom(f)})

(* check_can_run and highest_available_level.                              *)
CanRun(f, l) == Available(f) = Nothing \/ Bytes(l) <= Available(f)
HighestAvailable(f) ==
  LET fits == {l \in 0..MaxLevel : Bytes(l) <= Available(f)}
  IN IF Available(f) = Nothing \/ fits = {} THEN Nothing ELSE Max(fits)

-----------------------------------------------------------------------------
Init ==
  /\ settle = "begin" /\ way = [person |-> FALSE, given |-> FALSE, steps |-> FALSE, windows |-> FALSE]
  /\ level = 0 /\ memory = Unread
  /\ hint = Nothing /\ locked = FALSE /\ notice = "none" /\ went_on = FALSE /\ exit = "none"

TypeOK ==
  /\ way \in [person : BOOLEAN, given : BOOLEAN, steps : BOOLEAN, windows : BOOLEAN]
  /\ level \in 0..MaxLevel /\ memory \in Figures /\ hint \in Nothing..MaxLevel
  /\ notice \in {"none", "next", "shown"} /\ {locked, went_on} \subseteq BOOLEAN

(* The steps of a command are shown to a person (Flow::start).             *)
Begins ==
  /\ settle = "begin" /\ settle' = "choose"
  /\ way' \in [person : BOOLEAN, given : BOOLEAN, steps : BOOLEAN, windows : BOOLEAN]
  /\ way'.steps => way'.person
  /\ level' \in IF way'.given THEN 0..MaxLevel ELSE {0}
  /\ UNCHANGED <<memory, hint, locked, notice, went_on, exit>>

(* with_level_hint: only a lack of free memory, which is read once more.   *)
Refused(lack) ==
  /\ settle' = "ended" /\ exit' = "resources"
  /\ IF lack THEN \E now \in Figures : memory' = now /\ hint' = HighestAvailable(now)
     ELSE hint' = Nothing /\ UNCHANGED memory

(* ask_own: only settings that this computer can run end the loop.         *)
AsksOwn ==
  /\ settle = "choose" /\ way.person /\ ~way.given /\ settle' = "checked"
  /\ level' \in 0..MaxLevel /\ \E f \in Figures : CanRun(f, level')
  /\ UNCHANGED <<way, memory, hint, locked, notice, went_on, exit>>

Keeps ==
  /\ settle = "choose" /\ settle' = "checked"
  /\ UNCHANGED <<way, level, memory, hint, locked, notice, went_on, exit>>

(* choose states the settings and checks them, also those typed.           *)
ChecksResources ==
  /\ settle = "checked"
  /\ \/ \E f \in Figures :
          CanRun(f, level) /\ memory' = f /\ settle' = "secrets" /\ UNCHANGED <<hint, exit>>
     \/ (\E f \in Figures : ~CanRun(f, level)) /\ Refused(TRUE)
  /\ UNCHANGED <<way, level, locked, notice, went_on>>

-----------------------------------------------------------------------------
(* The command reads its secrets; the figures are those of one call.       *)
ReadsSecrets ==
  /\ settle = "secrets" /\ settle' = "reserve" /\ memory' = Unread
  /\ UNCHANGED <<way, level, hint, locked, notice, went_on, exit>>

(* reserve_engine.  The system may refuse what it reported as free.        *)
Reserves ==
  /\ settle = "reserve"
  /\ \/ /\ \E f \in Figures : CanRun(f, level) /\ memory' = f
        /\ locked' \in BOOLEAN
        /\ settle' = IF way.windows /\ ~locked' THEN "disk" ELSE "runs"
        /\ UNCHANGED <<hint, exit>>
     \/ (\E f \in Figures : ~CanRun(f, level)) /\ Refused(TRUE) /\ UNCHANGED locked
     \/ Refused(FALSE) /\ UNCHANGED locked
  /\ UNCHANGED <<way, level, notice, went_on>>

(* ask_to_go_on: the warning is kept for the next step where the command   *)
(* is shown in steps (style::warn), and the question stays on this one     *)
(* (choose_here); nobody can be asked in a script.                         *)
WarnsOfDisk ==
  /\ settle = "disk" /\ notice = "none"
  /\ IF way.person THEN notice' = (IF way.steps THEN "next" ELSE "shown") /\ UNCHANGED <<settle, exit>>
     ELSE settle' = "ended" /\ exit' = "failure" /\ UNCHANGED notice
  /\ UNCHANGED <<way, level, memory, hint, locked, went_on>>

AnswersDisk ==
  /\ settle = "disk" /\ notice # "none"
  /\ \/ settle' = "runs" /\ went_on' = TRUE /\ exit' = exit
     \/ settle' = "ended" /\ exit' \in {"failure", "cancelled"} /\ UNCHANGED went_on
  /\ UNCHANGED <<way, level, memory, hint, locked, notice>>

(* The next step of the command, its work.                                 *)
Runs ==
  /\ settle = "runs" /\ settle' = "ended" /\ exit' = "success"
  /\ notice' = IF notice = "next" THEN "shown" ELSE notice
  /\ UNCHANGED <<way, level, memory, hint, locked, went_on>>

Next == Begins \/ AsksOwn \/ Keeps \/ ChecksResources \/ ReadsSecrets \/ Reserves \/ WarnsOfDisk
        \/ AnswersDisk \/ Runs
Spec == Init /\ [][Next]_vars

-----------------------------------------------------------------------------
(* Free for the process: what the computer reports, and of every group up  *)
(* the tree with a limit, that limit less the usage the kernel cannot drop.*)
Holds(f, bytes) ==
  /\ f.computer # Nothing => bytes <= f.computer
  /\ \A i \in DOMAIN f.groups :
       LET g == f.groups[i] IN
         g.limit # Nothing /\ g.usage # Nothing => bytes + g.usage - g.cache <= g.limit

(* cgroup.rs, "instead of MHFE refusing at the start with a clear          *)
(* message": no secret is asked for, and no memory taken, for settings     *)
(* that the figures of that moment cannot hold; and a level that a refusal *)
(* names is one the computer can run (with_level_hint).                    *)
NothingForLackOfMemory ==
  /\ settle \in {"secrets", "disk", "runs"} => Holds(memory, Bytes(level))
  /\ hint # Nothing => Holds(memory, Bytes(hint)) /\ exit = "resources"

(* settings.rs, reserve_engine: on Windows a work area that could reach    *)
(* the page file is used only where the person chose to go on.             *)
UnlockedIsChosen ==
  exit = "success" /\ way.windows /\ ~locked => went_on

MemoryIsThere == NothingForLackOfMemory /\ UnlockedIsChosen

(* flow.rs:4, "A warning is shown again at the top of the next step, so    *)
(* that it is read before the person goes on": who goes on has read why    *)
(* the question is asked.                                                  *)
ReadBeforeGoingOn == went_on => notice = "shown"
=============================================================================
