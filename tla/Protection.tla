----------------------------- MODULE Protection -----------------------------
(***************************************************************************)
(* How a command of mhfe is protected before it reads anything             *)
(* (src/bin/mhfe/main.rs, prepare; src/bin/mhfe/protect.rs;                *)
(* src/bin/mhfe/startup.rs; swap_forbidden of src/engine/cgroup.rs).       *)
(*                                                                         *)
(* A swap area is a device; devices stand on others, which may be          *)
(* encrypted.  The process may start itself again in a scope without swap. *)
(* Threads inherit the isolation of the one that starts them.              *)
(***************************************************************************)
EXTENDS Naturals, Sequences

VARIABLES
  prepare,   \* the next step of the process; where it ended it stays
  kind_of,   \* what the command is: "secrets", "self-test" or "serve"
  host,      \* the computer: its system, its swap areas and its control group
  scoped,    \* MHFE_IN_NO_SWAP_SCOPE is set
  threads,   \* for each thread of the process, whether it is isolated
  offers,    \* the protections that hold in a process of one thread on this system
  isolation, \* the protections that Isolation::enter read back
  swap,      \* SWAP
  said,      \* what the person was told before the first secret
  part,      \* RUNNING, the part that the panic hook names
  working,   \* the part whose check is under way, also where it stopped the process
  gave,      \* the outcomes of the checks that ended, in their order
  named,     \* the part in the message that the process ends with
  exit

choices == <<kind_of, host, scoped, swap, said>>
entered == <<threads, offers, isolation>>
checks == <<part, working, gave, named>>
vars == <<prepare, choices, entered, checks, exit>>

-----------------------------------------------------------------------------
(* The devices: a disk, dm-crypt on it, dm-integrity on it (whose UUID     *)
(* looks like dm-crypt's), volumes on one or on both, a tower of them, and *)
(* memory with and without a disk behind it.                               *)

Below == [disk |-> {}, luks |-> {"disk"}, integrity |-> {"disk"}, volume |-> {"luks"},
          mixed |-> {"luks", "disk"}, tower |-> {"volume"}, zram |-> {}, backed |-> {}]
Devices == DOMAIN Below
MaxDeviceDepth == 1   \* 8 in the code, a bound

StaysInMemory(device) == device = "zram"
CryptSlip == {"luks", "integrity"}
Crypt == {"luks"}

(* encrypted, by the depth that is left: all a device stands on must be.   *)
Encrypted[left \in 0..MaxDeviceDepth] ==
  {device \in Devices : \/ StaysInMemory(device) \/ device \in Crypt
                        \/ /\ left > 0 /\ Below[device] # {}
                           /\ Below[device] \subseteq Encrypted[left - 1]}

(* An area has the last component of its path and the device it lies on.   *)
(* A partition is named as its device is; a file has a name of its own,    *)
(* which may be that of a device in memory that the computer has too, and  *)
(* may lie on a device that is not seen.                                   *)
Areas == {[name |-> device, on |-> device] : device \in Devices}
         \cup [name : {"swapfile", "zram"}, on : {"luks", "disk", "unseen"}]

(* Goes by the last component of the path alone, of a file too.            *)
SwapOnDisk(areas) == \E area \in areas : ~StaysInMemory(area.name)
Unprotected(areas) == {area \in areas : area.on \notin Encrypted[MaxDeviceDepth]}

(* swap_forbidden_with: only cgroup v2, where its mount shows the group,   *)
(* says so, of the group or of one above it.                               *)
SwapForbidden(group) == group.version = "v2" /\ 0 \in group.swap_max

(* What the areas are, whatever the code reads: pages reach a disk plain   *)
(* through a device that is none of these and stands on such a one.        *)
Leaks[device \in Devices \cup {"unseen"}] ==
  CASE device \in {"disk", "backed", "unseen"} -> TRUE
    [] device \in {"luks", "zram"} -> FALSE
    [] OTHER -> \E lower \in Below[device] : Leaks[lower]

-----------------------------------------------------------------------------
Protections == {"core dumps", "network", "memory", "files"}
(* A control group of v1, or one the mount does not show, tells no limit   *)
(* of swap; of v2 each group up to the mount tells its own.                *)
Groups == [version : {"v1", "unseen"}, swap_max : {{0}}]
          \cup [version : {"v2"}, swap_max : SUBSET {0, 1}]
Swaps == {{}} \cup {{area} : area \in Areas}
         \cup {{[name |-> "volume", on |-> "volume"], area} : area \in Areas}
Elsewhere == [os : {"macos", "windows"}, areas : {{}}, readable : {TRUE},
              group : [version : {"v1"}, swap_max : {{0}}]]
Linux == [os : {"linux"}, areas : Swaps, readable : {TRUE}, group : Groups]
         \cup [os : {"linux"}, areas : {{}}, readable : {FALSE}, group : Groups]
Hosts == Elsewhere \cup Linux

Isolated(kind) == kind # "serve"
Reads(kind) == kind = "secrets"   \* Checks::EveryPart

Init ==
  /\ prepare = "begin" /\ kind_of = "secrets" /\ scoped = FALSE /\ threads = <<FALSE>>
  /\ host = [os |-> "macos", areas |-> {}, readable |-> TRUE,
             group |-> [version |-> "v1", swap_max |-> {0}]]
  /\ offers = {} /\ isolation = {} /\ swap = "none" /\ said = {}
  /\ part = "none" /\ working = "none" /\ gave = <<>> /\ named = "none" /\ exit = "none"

PartNames == {"hashes", "argon2", "core-dumps", "isolation"}
TypeOK ==
  /\ kind_of \in {"secrets", "self-test", "serve"} /\ host \in Hosts /\ scoped \in BOOLEAN
  /\ threads \in UNION {[1..n -> BOOLEAN] : n \in 1..6}
  /\ offers \subseteq Protections /\ isolation \subseteq Protections
  /\ gave \in UNION {[1..n -> {"passed", "warning", "failed"}] : n \in 0..4}
  /\ {part, working, named} \subseteq PartNames \cup {"none"}
  /\ swap \in {"none", "not on disk", "forbidden", "encrypted", "allowed"}

(* A slip of Begins: the handler of Ctrl+C, which has a thread, is set     *)
(* first.                                                                  *)
BeginsSlip ==
  /\ prepare = "begin" /\ kind_of' \in {"secrets", "self-test", "serve"}
  /\ host' \in IF Reads(kind_of') THEN Hosts ELSE {h \in Hosts : h.areas = {} /\ h.readable}
  /\ prepare' = IF Reads(kind_of') THEN "swap" ELSE "isolate"
  /\ threads' = <<FALSE, FALSE>>
  /\ UNCHANGED <<scoped, swap, said, offers, isolation, checks, exit>>
Begins ==
  /\ prepare = "begin" /\ kind_of' \in {"secrets", "self-test", "serve"}
  /\ host' \in IF Reads(kind_of') THEN Hosts ELSE {h \in Hosts : h.areas = {} /\ h.readable}
  /\ prepare' = IF Reads(kind_of') THEN "swap" ELSE "isolate"
  /\ UNCHANGED <<scoped, swap, said, entered, checks, exit>>

(* keep_off_swap, where no question is needed.                             *)
Readable == host.readable
OnDisk == ~Readable \/ SwapOnDisk(host.areas)

Settled(as) == swap' = as /\ prepare' = "isolate"
               /\ UNCHANGED <<kind_of, host, scoped, said, entered, checks, exit>>
KeepsOffSwap ==
  /\ prepare = "swap"
  /\ \/ host.os # "linux" /\ Settled("none")
     \/ host.os = "linux" /\ ~OnDisk /\ Settled("not on disk")
     \/ host.os = "linux" /\ OnDisk /\ SwapForbidden(host.group) /\ Settled("forbidden")

(* restart_without_swap: the program again, in a scope whose limit may not *)
(* hold; a first scope tries it, and in the scope it is not tried again.   *)
MustRestart == host.os = "linux" /\ OnDisk /\ ~SwapForbidden(host.group)
Restarts ==
  /\ prepare = "swap" /\ MustRestart /\ ~scoped /\ scoped' = TRUE
  /\ \/ host' = host \/ host' = [host EXCEPT !.group.swap_max = @ \cup {0}]
  /\ UNCHANGED <<prepare, kind_of, swap, said, entered, checks, exit>>

(* The scope could not be entered, or did not help.                        *)
Areasleft == IF Readable THEN Unprotected(host.areas) ELSE {[name |-> "swaps", on |-> "unseen"]}
StaysOnDisk ==
  /\ prepare = "swap" /\ MustRestart /\ Areasleft = {} /\ Settled("encrypted")

(* ask_about_swap: Yes goes on; No, q or a script that nobody can ask ends *)
(* the command.                                                            *)
AsksAboutSwap ==
  /\ prepare = "swap" /\ MustRestart /\ Areasleft # {}
  /\ \/ said' = said \cup {"swap"} /\ swap' = "allowed" /\ prepare' = "isolate" /\ exit' = exit
     \/ exit' \in {"failure", "cancelled"} /\ prepare' = "ended" /\ UNCHANGED <<said, swap>>
  /\ UNCHANGED <<kind_of, host, scoped, entered, checks>>

(* protect::enter, which applies to the thread that calls it, and whose    *)
(* network takes a process of one thread.                                  *)
Enters ==
  /\ prepare = "isolate" /\ prepare' = "handler"
  /\ IF Isolated(kind_of)
     THEN /\ threads' = [t \in DOMAIN threads |-> threads[t] \/ t = 1]
          /\ offers' \in {Protections, {}} \cup {Protections \ {p} : p \in Protections}
          /\ isolation' = IF Len(threads) = 1 THEN offers' ELSE offers' \ {"network"}
     ELSE UNCHANGED entered
  /\ UNCHANGED <<choices, checks, exit>>

Starts(n) == threads' = [t \in 1..(Len(threads) + n) |-> IF t <= Len(threads) THEN threads[t]
                                                         ELSE threads[1]]

(* stop_on_ctrl_c: its handler has a thread.                               *)
StopsOnCtrlC ==
  /\ prepare = "handler" /\ prepare' = "check" /\ Starts(1)
  /\ UNCHANGED <<choices, offers, isolation, checks, exit>>

-----------------------------------------------------------------------------
(* startup::check.  Parts in their order; the engine's check runs on four  *)
(* threads.  A part that fails lets the others run and then stops the      *)
(* command; one that stops the program is named by the panic hook.         *)

Parts == IF Reads(kind_of) THEN <<"hashes", "argon2", "core-dumps", "isolation">>
         ELSE IF kind_of = "serve" THEN <<"hashes">> ELSE <<>>

(* CoreDumpCheck and IsolationCheck read what enter read back; Windows has *)
(* no setting for core dumps, and only Linux and Windows refuse writes.    *)
Gaps == ({"network", "memory"} \cup (IF host.os = "macos" THEN {} ELSE {"files"})) \ isolation
CoreDumps == host.os = "windows" \/ "core dumps" \in isolation

(* Of the outcomes, a warning and a part not available stop nothing.       *)
MayGive(name) ==
  CASE name = "core-dumps" -> {IF host.os = "windows" THEN "warning"
                               ELSE IF CoreDumps THEN "passed" ELSE "failed"}
    [] name = "isolation"  -> {IF Gaps = {} THEN "passed" ELSE "warning"}
    [] OTHER -> {"passed", "failed"}

(* run_named: on_start keeps the part for the panic hook, its check runs,  *)
(* on_result lets it go.                                                   *)
NextPart == Parts[Len(gave) + 1]

(* A slip of StartsPart: the part before is kept.                          *)
StartsPartSlip ==
  /\ prepare = "check" /\ Len(gave) < Len(Parts) /\ prepare' = "started"
  /\ part' = IF gave = <<>> THEN NextPart ELSE Parts[Len(gave)]
  /\ UNCHANGED <<choices, entered, working, gave, named, exit>>
StartsPart ==
  /\ prepare = "check" /\ Len(gave) < Len(Parts) /\ prepare' = "started"
  /\ part' = NextPart
  /\ UNCHANGED <<choices, entered, working, gave, named, exit>>

RunsPart ==
  /\ prepare = "started" /\ prepare' = "running"
  /\ working' = NextPart /\ IF working' = "argon2" THEN Starts(4) ELSE UNCHANGED threads
  /\ UNCHANGED <<choices, offers, isolation, part, gave, named, exit>>

GivesResult ==
  /\ prepare = "running" /\ prepare' = "given"
  /\ \E outcome \in MayGive(working) : gave' = Append(gave, outcome)
  /\ working' = "none"
  /\ UNCHANGED <<choices, entered, part, named, exit>>

EndsPart ==
  /\ prepare = "given" /\ prepare' = "check" /\ part' = "none"
  /\ UNCHANGED <<choices, entered, working, gave, named, exit>>

(* install_panic_hook: the message names RUNNING.  The two checks that     *)
(* only read what was read back stop nothing.                              *)
Panics ==
  /\ prepare = "running" /\ working \in {"hashes", "argon2"}
  /\ named' = part /\ exit' = "internal" /\ prepare' = "ended"
  /\ UNCHANGED <<choices, entered, part, working, gave>>

(* SelfCheckReport::first_failure.                                         *)
Failures == {i \in DOMAIN gave : gave[i] = "failed"}
FirstFailureSlip == CHOOSE i \in Failures : \A j \in Failures : j <= i
FirstFailure == CHOOSE i \in Failures : \A j \in Failures : i <= j

Reports ==
  /\ prepare = "check" /\ Len(gave) = Len(Parts)
  /\ IF Failures = {} THEN prepare' = "run" /\ UNCHANGED <<named, exit>>
     ELSE prepare' = "ended" /\ exit' = "internal" /\ named' = Parts[FirstFailure]
  /\ UNCHANGED <<choices, entered, part, working, gave>>

(* warn_of_isolation_gaps, by itself or in the summary of the settings.    *)
Warns ==
  /\ prepare = "run" /\ Reads(kind_of) /\ prepare' = "secrets"
  /\ said' = said \cup (IF Gaps = {} THEN {} ELSE {"gaps"})
  /\ UNCHANGED <<kind_of, host, scoped, swap, entered, checks, exit>>

Next == Begins \/ KeepsOffSwap \/ Restarts \/ StaysOnDisk \/ AsksAboutSwap \/ Enters
        \/ StopsOnCtrlC \/ StartsPart \/ RunsPart \/ GivesResult \/ EndsPart \/ Panics
        \/ Reports \/ Warns
Spec == Init /\ [][Next]_vars

-----------------------------------------------------------------------------
(* The areas are taken for memory, whatever they lie on: the list of them  *)
(* can be read and each has the name of a device in memory.                *)
AllNamedAsMemory == host.readable /\ \A area \in host.areas : StaysInMemory(area.name)

(* protect.rs, "Keeps a secret command's memory off the disk": with swap   *)
(* through which a page can reach a disk unencrypted, or swap that cannot  *)
(* be told, a secret is asked only once the process may use no swap or the *)
(* person chose to go on.  One case is left out, in which the code asks    *)
(* without either: every area has the name of a device in memory, and a    *)
(* file so named lies on a disk (swap_on_disk_under goes by the last       *)
(* component of the path).                                                 *)
SwapIsDecided ==
  /\ prepare = "secrets" /\ host.os = "linux"
  /\ ~host.readable \/ \E area \in host.areas : Leaks[area.on]
  /\ ~AllNamedAsMemory
  => "swap" \in said \/ (host.group.version = "v2" /\ 0 \in host.group.swap_max)

(* main.rs, prepare, "The order matters": from the isolation on, every     *)
(* thread of an isolated process is isolated, those of the handler and of  *)
(* the engine too, and the network, which is closed only to a process of   *)
(* one thread, is closed wherever the system closes it to one.             *)
EveryThreadIsIsolated ==
  prepare \in {"check", "started", "running", "given", "run", "secrets"} /\ Isolated(kind_of)
  => /\ \A t \in DOMAIN threads : threads[t]
     /\ "network" \in offers => "network" \in isolation

(* startup.rs: before a secret is asked, every part has run and none       *)
(* failed, core dumps are off where they can be, and what isolation leaves *)
(* open was said.                                                          *)
AskedOnceSound ==
  prepare = "secrets" =>
    /\ Len(gave) = Len(Parts) /\ Failures = {} /\ CoreDumps
    /\ Gaps # {} => "gaps" \in said

(* startup.rs, run_named and check: a message that ends the process names  *)
(* the part whose check was under way when it stopped the program, and     *)
(* where none did, the first part in the order of the report that gave a   *)
(* wrong answer.                                                           *)
TheRunningPartIsNamed ==
  prepare = "ended" /\ exit = "internal" =>
    IF working # "none" THEN named = working
    ELSE \E i \in DOMAIN gave : /\ named = Parts[i] /\ gave[i] = "failed"
                                /\ \A j \in 1..(i - 1) : gave[j] # "failed"

Protected == SwapIsDecided /\ EveryThreadIsIsolated /\ AskedOnceSound /\ TheRunningPartIsNamed
=============================================================================
