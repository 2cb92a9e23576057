----------------------------- MODULE SelfChecks -----------------------------
(***************************************************************************)
(* The known answers behind a class's self-check and the parts the classes *)
(* of a page share: a worker runs the parts of a set (host.selfCheck of    *)
(* web/worker-runtime.js over SelfCheck::run of src/self_check.rs) through *)
(* the Argon2 build that starts (argon2ForCheck of web/core-worker.js),    *)
(* and PackageCheck of web/runtime.js makes the report, keeping what       *)
(* passed for the other classes.  When a class checks, and what waits for  *)
(* it, is LongOperations'.  A definition named ...Slip is a plausible bug  *)
(* in the definition after it.                                             *)
(***************************************************************************)
EXTENDS Naturals, Sequences, FiniteSets

CONSTANTS
  Runs,      \* the runs of a set, of all classes together; bounds their number
  Clients,   \* the classes on the page that use one WebAssembly
  SetOf,     \* the parts of each class, in the order they run
  Argon2,    \* the part whose answer depends on a build of Argon2
  SourceOf,  \* the script of the mode's Argon2 build, as each class has it
  Shared     \* the identity of every other part: the WebAssembly alone

PartsOf(c) == {SetOf[c][i] : i \in DOMAIN SetOf[c]}
Parts      == UNION {PartsOf(c) : c \in Clients}
Sources    == {SourceOf[c] : c \in Clients}

ASSUME SetsAssumption ==
  \A c \in Clients : /\ SetOf[c] \in Seq(PartsOf(c))
                     /\ \A i, j \in DOMAIN SetOf[c] : SetOf[c][i] = SetOf[c][j] => i = j

VARIABLES
  fast,      \* whether the page is cross-origin isolated: its mode's build is the threaded one
  run,       \* each run: its class, tier, Argon2 build, what it leaves out and found, its report
  kept,      \* passedOnPage: the parts that passed, each with its identity
  closed,    \* the classes closed by a failed part or report (#failed)
  earned,    \* history: parts that gave their known answer, with the identity that gave it
  wrong      \* history: parts that gave a wrong answer or stopped, with the run

vars == <<fast, run, kept, closed, earned, wrong>>

\* The build in front of the worker: the mode's own, the standard mode's in its
\* place, none that starts, or Argon2 left out of the check.
Builds   == {"own", "fallback", "none", "leftOut"}
Outcomes == {"passed", "failed", "warning", "notAvailable", "notRun"}
Ids      == Parts \X (Sources \cup {Shared})
Result   == [part : Parts, outcome : Outcomes]
Run      == [at : {"idle", "running", "reported", "died"}, of : Clients,
             tier : {"startup", "full"}, build : Builds, skip : SUBSET Parts,
             ran : SUBSET Result, report : SUBSET Result, whole : BOOLEAN]

TypeOK ==
  /\ fast \in BOOLEAN
  /\ run \in [Runs -> Run]
  /\ kept \subseteq Ids /\ earned \subseteq Ids
  /\ closed \subseteq Clients
  /\ wrong \subseteq Runs \X Parts

Init ==
  /\ fast \in BOOLEAN
  /\ \E c \in Clients :
       run = [r \in Runs |-> [at |-> "idle", of |-> c, tier |-> "startup", build |-> "leftOut",
                              skip |-> {}, ran |-> {}, report |-> {}, whole |-> FALSE]]
  /\ kept = {} /\ closed = {} /\ earned = {} /\ wrong = {}

(* identityOf: Argon2's answer holds for the script of the class's mode.   *)
IdOf(c, p) == <<p, IF p = Argon2 THEN SourceOf[c] ELSE Shared>>

(* The parts another class of the page has passed.                         *)
PassedIds(c) == {p \in PartsOf(c) : IdOf(c, p) \in kept}

(* argon2ForCheck: on a fast page the standard build stands in for the     *)
(* mode's own when that does not start.                                    *)
BuildsFor(c, tier) ==
  IF Argon2 \notin PartsOf(c) THEN {"leftOut"}
  ELSE {"own", "none"} \cup (IF fast THEN {"fallback"} ELSE {})
         \cup (IF tier = "startup" THEN {"leftOut"} ELSE {})

\* A startup check leaves out what is kept; a full one runs every part anew.
Begin(r, c, tier, build) ==
  /\ run[r].at = "idle"
  /\ build \in BuildsFor(c, tier)
  /\ run' = [run EXCEPT ![r] =
       [at |-> "running", of |-> c, tier |-> tier, build |-> build,
        skip |-> IF tier = "startup" THEN PassedIds(c) ELSE {},
        ran |-> {}, report |-> {}, whole |-> FALSE]]
  /\ UNCHANGED <<fast, kept, closed, earned, wrong>>

Ran(r)    == {x.part : x \in run[r].ran}
ToRun(r)  == PartsOf(run[r].of) \ run[r].skip
Places(r) == {i \in DOMAIN SetOf[run[r].of] : SetOf[run[r].of][i] \in ToRun(r) \ Ran(r)}

(* The set runs in its order, without the parts left out.                  *)
IsNext(r, p) ==
  \E i \in Places(r) : p = SetOf[run[r].of][i] /\ \A j \in Places(r) : i <= j

(* outcomeOf: what the page is told of a part's answer.                    *)
OutcomeOf(r, p, right) ==
  CASE p = Argon2 /\ run[r].build = "leftOut"  -> "notRun"
    [] p = Argon2 /\ run[r].build = "none"     -> "notAvailable"
    [] p = Argon2 /\ run[r].build = "fallback" -> IF right THEN "warning" ELSE "failed"
    [] OTHER                                   -> IF right THEN "passed" ELSE "failed"

(* Whether a build computed an answer: not when none started or it was     *)
(* left out.                                                               *)
Computes(r, p) == p = Argon2 => run[r].build \in {"own", "fallback"}
EarnsOwn(r, p) == p = Argon2 => run[r].build = "own"

(* A failed part closes the class before the report.                       *)
Closes(c, outcomes) == closed' = closed \cup (IF "failed" \in outcomes THEN {c} ELSE {})

\* One part runs, and the page hears of its outcome.
RunPart(r, right) ==
  /\ run[r].at = "running"
  /\ \E p \in Parts :
       /\ IsNext(r, p)
       /\ LET outcome == OutcomeOf(r, p, right)
          IN /\ run' = [run EXCEPT ![r].ran = @ \cup {[part |-> p, outcome |-> outcome]}]
             /\ Closes(run[r].of, {outcome})
       /\ earned' = IF right /\ EarnsOwn(r, p) THEN earned \cup {IdOf(run[r].of, p)} ELSE earned
       /\ wrong' = IF ~right /\ Computes(r, p) THEN wrong \cup {<<r, p>>} ELSE wrong
  /\ UNCHANGED <<fast, kept>>

OutcomesOf(results) == {x.outcome : x \in results}
PassedOf(results)   == {x.part : x \in {y \in results : y.outcome = "passed"}}

KeepsSlip(r, ran) ==
  kept' = kept \cup
    (IF run[r].tier = "startup"
     THEN {IdOf(run[r].of, x.part) : x \in {y \in ran : y.outcome # "failed"}} ELSE {})
(* #placed: the parts that passed at startup are kept for other classes.   *)
Keeps(r, ran) ==
  kept' = kept \cup
    (IF run[r].tier = "startup" THEN {IdOf(run[r].of, p) : p \in PassedOf(ran)} ELSE {})

PlacedSlip(r, ran) ==
  LET from == {p \in PartsOf(run[r].of) : IdOf(run[r].of, p) \in kept}
  IN {[part |-> p, outcome |-> "passed"] : p \in from} \cup {x \in ran : x.part \notin from}
(* #placed: the whole set, a part that ran as this run found it.           *)
Placed(r, ran) ==
  IF run[r].tier = "full" THEN ran
  ELSE ran \cup {[part |-> p, outcome |-> "passed"] :
                   p \in {q \in PassedIds(run[r].of) : q \notin {x.part : x \in ran}}}

Finish(r) ==
  /\ run[r].at = "running"
  /\ ToRun(r) \subseteq Ran(r)
  /\ LET report == Placed(r, run[r].ran)
     IN /\ run' = [run EXCEPT ![r].at = "reported", ![r].report = report, ![r].whole = TRUE]
        /\ Closes(run[r].of, OutcomesOf(report))
  /\ Keeps(r, run[r].ran)
  /\ UNCHANGED <<fast, earned, wrong>>

(* The WebAssembly stops inside a part: the part fails and the report is   *)
(* of the parts so far.                                                    *)
Trap(r) ==
  /\ run[r].at = "running"
  /\ \E p \in Parts :
       /\ IsNext(r, p)
       /\ LET ran == run[r].ran \cup {[part |-> p, outcome |-> "failed"]}
          IN /\ run' = [run EXCEPT ![r].at = "reported", ![r].ran = ran, ![r].report = ran]
             /\ Closes(run[r].of, OutcomesOf(ran))
             /\ Keeps(r, ran)
       /\ wrong' = wrong \cup {<<r, p>>}
  /\ UNCHANGED <<fast, earned>>

(* The worker ends without a report: it did not start, stopped, or found   *)
(* parts of different builds.                                              *)
Die(r) ==
  /\ run[r].at = "running"
  /\ run' = [run EXCEPT ![r].at = "died"]
  /\ UNCHANGED <<fast, kept, closed, earned, wrong>>

Next ==
  \E r \in Runs :
    \/ \E c \in Clients, tier \in {"startup", "full"}, build \in Builds : Begin(r, c, tier, build)
    \/ \E right \in BOOLEAN : RunPart(r, right)
    \/ Finish(r) \/ Trap(r) \/ Die(r)

Spec == Init /\ [][Next]_vars

-----------------------------------------------------------------------------
ReportPasses(r) == run[r].at = "reported" /\ "failed" \notin OutcomesOf(run[r].report)

(* What a class leaves out was computed right on this page with the same   *)
(* WebAssembly, and Argon2 by the very build the class uses: an answer of  *)
(* the standard build that stood in for the threaded one is passed on to   *)
(* nobody (#placed, afterFallback).                                        *)
PassesAreEarned == kept \subseteq earned

(* A report that passes names every part of the class's set once, and each *)
(* part it calls passed gave its known answer under the class's identity,  *)
(* in this run or in another class's that it was left out for.             *)
ReportsAreEarned ==
  \A r \in Runs : ReportPasses(r) =>
    LET results == run[r].report
    IN /\ {x.part : x \in results} = PartsOf(run[r].of)
       /\ \A x, y \in results : x.part = y.part => x = y
       /\ \A p \in PassedOf(results) : IdOf(run[r].of, p) \in earned

(* A wrong answer closes its class even when the worker dies before the    *)
(* report ("A failed part closes the class even if its worker dies").      *)
WrongClosesClass == \A w \in wrong : run[w[1]].of \in closed

(* A wrong answer fails its own report, also when another class passed the *)
(* same part while this one ran.                                           *)
WrongFailsReport == \A w \in wrong : ~ReportPasses(w[1])

(* Nothing is called checked on a page that was not computed right: neither*)
(* what a class leaves out nor what a report passes.                       *)
AnswersAreEarned == PassesAreEarned /\ ReportsAreEarned

(* A wrong answer is never lost, for its class or for its report.          *)
WrongIsTold == WrongClosesClass /\ WrongFailsReport
=============================================================================
