-------------------------- MODULE SelfChecksProofs --------------------------
(***************************************************************************)
(* Proofs about SelfChecks, for every set of classes, of parts and of      *)
(* runs: a report that passes rests on right answers, and a wrong one      *)
(* shows.                                                                  *)
(***************************************************************************)
EXTENDS SelfChecks, TLAPS

(* What a run leaves out is kept; a full one leaves out nothing.           *)
SkipsKept ==
  \A r \in Runs : run[r].at = "running" =>
    /\ run[r].skip \subseteq PassedIds(run[r].of)
    /\ run[r].tier = "full" => run[r].skip = {}

(* What a run found: each part of its class once, a pass earned.           *)
FoundIsEarned ==
  \A r \in Runs :
    /\ \A x \in run[r].ran :
         /\ x.part \in PartsOf(run[r].of)
         /\ x.outcome = "passed" => IdOf(run[r].of, x.part) \in earned
    /\ \A x, y \in run[r].ran : x.part = y.part => x = y

(* A wrong answer is among the run's results, and in its report.           *)
WrongIsFound ==
  /\ \A w \in wrong : /\ run[w[1]].at # "idle"
                      /\ \E x \in run[w[1]].ran : x.outcome = "failed"
                      /\ run[w[1]].of \in closed
  /\ \A r \in Runs : run[r].at = "reported" => run[r].ran \subseteq run[r].report

IInv ==
  /\ TypeOK /\ PassesAreEarned /\ SkipsKept /\ FoundIsEarned /\ WrongIsFound /\ ReportsAreEarned

-----------------------------------------------------------------------------
LEMMA InitIInv == Init => IInv
<1> SUFFICES ASSUME Init PROVE IInv
  OBVIOUS
<1>1. PICK c \in Clients :
        run = [r \in Runs |-> [at |-> "idle", of |-> c, tier |-> "startup", build |-> "leftOut",
                               skip |-> {}, ran |-> {}, report |-> {}, whole |-> FALSE]]
  BY DEF Init
<1>2. TypeOK
  BY <1>1 DEF Init, TypeOK, Run, Builds
<1>3. PassesAreEarned /\ SkipsKept /\ FoundIsEarned /\ WrongIsFound /\ ReportsAreEarned
  BY <1>1 DEF Init, PassesAreEarned, SkipsKept, FoundIsEarned, WrongIsFound, ReportsAreEarned,
     ReportPasses
<1> QED
  BY <1>2, <1>3 DEF IInv

(* A part that is next belongs to the set, and has neither run nor been    *)
(* left out.                                                               *)
LEMMA NextIsOpen ==
  ASSUME NEW r \in Runs, NEW p, IsNext(r, p)
  PROVE  /\ p \in PartsOf(run[r].of) /\ p \notin run[r].skip
         /\ \A x \in run[r].ran : x.part # p
BY DEF IsNext, Places, ToRun, Ran, PartsOf

(* The identity of a part of a class is one the page may keep.             *)
LEMMA IdentityTyped ==
  ASSUME NEW c \in Clients, NEW p \in PartsOf(c)
  PROVE  IdOf(c, p) \in Ids /\ p \in Parts
BY DEF IdOf, Ids, Parts, Sources

(* A run begins.                                                           *)
LEMMA BeginStep ==
  ASSUME IInv, NEW r \in Runs, NEW c \in Clients, NEW tier \in {"startup", "full"},
         NEW build \in Builds, Begin(r, c, tier, build)
  PROVE  IInv'
<1> DEFINE skip == IF tier = "startup" THEN PassedIds(c) ELSE {}
<1> DEFINE new == [at |-> "running", of |-> c, tier |-> tier, build |-> build,
                   skip |-> skip, ran |-> {}, report |-> {}, whole |-> FALSE]
<1>1. skip \subseteq PassedIds(c) /\ skip \subseteq Parts /\ (tier = "full" => skip = {})
  BY DEF PassedIds, Parts
<1>2. new \in Run /\ new.at = "running" /\ new.of = c /\ new.skip = skip
      /\ new.tier = tier /\ new.ran = {} /\ new.report = {}
  BY <1>1 DEF Run
<1>3. run' = [run EXCEPT ![r] = new] /\ UNCHANGED <<fast, kept, closed, earned, wrong>>
      /\ run[r].at = "idle"
  BY DEF Begin
<1> HIDE DEF new, skip
<1>4. run'[r] = new /\ \A q \in Runs : q # r => run'[q] = run[q]
  BY <1>3 DEF IInv, TypeOK
<1>5. TypeOK'
  BY <1>2, <1>3 DEF IInv, TypeOK
<1>6. PassesAreEarned' /\ SkipsKept'
  BY <1>1, <1>2, <1>3, <1>4 DEF IInv, PassesAreEarned, SkipsKept, PassedIds, IdOf
<1>7. FoundIsEarned'
  BY <1>2, <1>3, <1>4 DEF IInv, FoundIsEarned, IdOf
<1>8. WrongIsFound'
  BY <1>2, <1>3, <1>4 DEF IInv, WrongIsFound, TypeOK
<1>9. ReportsAreEarned'
  BY <1>2, <1>3, <1>4 DEF IInv, ReportsAreEarned, ReportPasses, OutcomesOf, PassedOf, IdOf
<1> QED
  BY <1>5, <1>6, <1>7, <1>8, <1>9 DEF IInv

(* A part runs: a right answer of the class's own build is earned.         *)
LEMMA RunPartStep ==
  ASSUME IInv, NEW r \in Runs, NEW right \in BOOLEAN, RunPart(r, right)
  PROVE  IInv'
<1>1. PICK p \in Parts :
        /\ IsNext(r, p)
        /\ run' = [run EXCEPT ![r].ran =
                    @ \cup {[part |-> p, outcome |-> OutcomeOf(r, p, right)]}]
        /\ Closes(run[r].of, {OutcomeOf(r, p, right)})
        /\ earned' = IF right /\ EarnsOwn(r, p) THEN earned \cup {IdOf(run[r].of, p)} ELSE earned
        /\ wrong' = IF ~right /\ Computes(r, p) THEN wrong \cup {<<r, p>>} ELSE wrong
  BY DEF RunPart
<1> DEFINE c == run[r].of
<1> DEFINE new == [part |-> p, outcome |-> OutcomeOf(r, p, right)]
<1>2. c \in Clients /\ p \in PartsOf(c) /\ p \notin run[r].skip /\ \A x \in run[r].ran : x.part # p
  BY <1>1, NextIsOpen DEF IInv, TypeOK, Run
<1>3. OutcomeOf(r, p, right) \in Outcomes
  BY DEF OutcomeOf, Outcomes
<1>4. new \in Result /\ new.part = p /\ new.outcome = OutcomeOf(r, p, right)
  BY <1>2, <1>3 DEF Result
<1>5. new.outcome = "passed" => IdOf(c, p) \in earned'
  <2>1. new.outcome = "passed" => right /\ EarnsOwn(r, p)
    BY DEF OutcomeOf, EarnsOwn, IInv, TypeOK, Run, Builds
  <2> QED
    BY <1>1, <2>1
<1>6. (~right /\ Computes(r, p)) => new.outcome = "failed"
  BY DEF OutcomeOf, Computes
<1>7. /\ run[r].at = "running" /\ kept' = kept /\ fast' = fast
      /\ run'[r] = [run[r] EXCEPT !.ran = @ \cup {new}]
      /\ \A q \in Runs : q # r => run'[q] = run[q]
      /\ run' \in [Runs -> Run]
  <2>1. run[r] \in Run /\ run \in [Runs -> Run]
    BY DEF IInv, TypeOK
  <2>2. [run[r] EXCEPT !.ran = @ \cup {new}] \in Run
    BY <1>4, <2>1 DEF Run
  <2> QED
    BY <1>1, <2>1, <2>2 DEF RunPart
<1>8. earned \subseteq earned' /\ earned' \subseteq Ids
  BY <1>1, <1>2, IdentityTyped DEF IInv, TypeOK
<1>9. closed \subseteq closed' /\ (new.outcome = "failed" => c \in closed') /\ closed' \subseteq Clients
  BY <1>1, <1>2, <1>4 DEF Closes, IInv, TypeOK
<1>10. wrong' \subseteq wrong \cup {<<r, p>>} /\ (<<r, p>> \in wrong' \ wrong => new.outcome = "failed")
  BY <1>1, <1>6
<1>11. /\ run'[r].at = "running" /\ run'[r].of = c /\ run'[r].skip = run[r].skip
       /\ run'[r].tier = run[r].tier
       /\ run'[r].ran = run[r].ran \cup {new} /\ run'[r].report = run[r].report
  BY <1>7 DEF IInv, TypeOK, Run
<1> HIDE DEF new, c
<1>12. TypeOK'
  BY <1>2, <1>7, <1>8, <1>9, <1>10 DEF IInv, TypeOK
<1>13. PassesAreEarned'
  BY <1>7, <1>8 DEF IInv, PassesAreEarned
<1>14. SkipsKept'
  BY <1>7, <1>11 DEF IInv, SkipsKept, PassedIds, IdOf, c
<1>15. FoundIsEarned'
  <2>1. \A q \in Runs : q # r => (FoundIsEarned!(q))'
    BY <1>7, <1>8 DEF IInv, FoundIsEarned, IdOf
  <2>2. (FoundIsEarned!(r))'
    BY <1>2, <1>4, <1>5, <1>8, <1>11 DEF IInv, FoundIsEarned, IdOf, c
  <2> QED
    BY <2>1, <2>2 DEF FoundIsEarned
<1>16. WrongIsFound'
  <2>1. ASSUME NEW w \in wrong'
        PROVE  /\ run'[w[1]].at # "idle" /\ run'[w[1]].of \in closed'
               /\ \E x \in run'[w[1]].ran : x.outcome = "failed"
    <3>1. CASE w \in wrong
      <4>1. w[1] \in Runs /\ run[w[1]].at # "idle" /\ run[w[1]].of \in closed
            /\ \E x \in run[w[1]].ran : x.outcome = "failed"
        BY <3>1 DEF IInv, WrongIsFound, TypeOK
      <4> QED
        BY <1>7, <1>9, <1>11, <4>1 DEF c
    <3>2. CASE w \notin wrong
      <4>1. w = <<r, p>> /\ new.outcome = "failed"
        BY <1>10, <3>2
      <4> QED
        BY <1>9, <1>11, <4>1
    <3> QED
      BY <3>1, <3>2
  <2>2. \A q \in Runs : run'[q].at = "reported" => run'[q].ran \subseteq run'[q].report
    BY <1>7, <1>11 DEF IInv, WrongIsFound
  <2> QED
    BY <2>1, <2>2 DEF WrongIsFound
<1>17. ReportsAreEarned'
  BY <1>7, <1>8, <1>11 DEF IInv, ReportsAreEarned, ReportPasses, OutcomesOf, PassedOf, IdOf, c
<1> QED
  BY <1>12, <1>13, <1>14, <1>15, <1>16, <1>17 DEF IInv

(* What Keeps adds passed in this run.                                     *)
LEMMA KeepsEarned ==
  ASSUME IInv, NEW r \in Runs, NEW ran, Keeps(r, ran),
         \A x \in ran : x.part \in PartsOf(run[r].of)
                        /\ (x.outcome = "passed" => IdOf(run[r].of, x.part) \in earned)
  PROVE  kept \subseteq kept' /\ kept' \subseteq earned
BY DEF Keeps, PassedOf, IInv, PassesAreEarned

(* A run reports: each part it left out was kept for it.                   *)
LEMMA FinishStep == ASSUME IInv, NEW r \in Runs, Finish(r) PROVE IInv'
<1> DEFINE c == run[r].of
<1> DEFINE report == Placed(r, run[r].ran)
<1>1. run[r] \in Run /\ run \in [Runs -> Run] /\ run[r].at = "running" /\ c \in Clients
  BY DEF IInv, TypeOK, Finish, Run
<1>2. /\ run' = [run EXCEPT ![r].at = "reported", ![r].report = report, ![r].whole = TRUE]
      /\ Closes(c, OutcomesOf(report)) /\ Keeps(r, run[r].ran)
      /\ UNCHANGED <<fast, earned, wrong>>
      /\ PartsOf(c) \ run[r].skip \subseteq {x.part : x \in run[r].ran}
  BY DEF Finish, ToRun, Ran
<1>3. run[r].ran \subseteq Result /\ \A x \in run[r].ran :
        x.part \in PartsOf(c) /\ (x.outcome = "passed" => IdOf(c, x.part) \in earned)
  BY <1>1 DEF IInv, FoundIsEarned, Run
<1>4. kept \subseteq kept' /\ kept' \subseteq earned
  BY <1>2, <1>3, KeepsEarned
<1>5. report \subseteq Result
  <2>1. PassedIds(c) \subseteq Parts
    BY <1>1 DEF PassedIds, Parts
  <2> QED
    BY <1>3, <2>1 DEF Placed, Result, Outcomes
<1>6. run[r].ran \subseteq report
  BY DEF Placed
<1>7. \A x \in report : \/ x \in run[r].ran
                        \/ /\ x.part \in PassedIds(c) /\ x.outcome = "passed"
                           /\ x.part \notin {y.part : y \in run[r].ran}
                           /\ x = [part |-> x.part, outcome |-> "passed"]
  BY DEF Placed
<1>8. {x.part : x \in report} = PartsOf(c)
  <2>1. ASSUME NEW p \in PartsOf(c) PROVE \E x \in report : x.part = p
    <3>1. CASE p \in {x.part : x \in run[r].ran}
      BY <1>6, <3>1
    <3>2. CASE p \notin {x.part : x \in run[r].ran}
      <4>1. p \in PassedIds(c) /\ run[r].tier # "full"
        BY <1>1, <1>2, <3>2 DEF IInv, SkipsKept
      <4>2. [part |-> p, outcome |-> "passed"] \in report
        BY <3>2, <4>1 DEF Placed
      <4> QED
        BY <4>2
    <3> QED
      BY <3>1, <3>2
  <2>2. ASSUME NEW x \in report PROVE x.part \in PartsOf(c)
    BY <1>3, <1>7 DEF PassedIds
  <2> QED
    BY <2>1, <2>2
<1>9. \A x, y \in report : x.part = y.part => x = y
  BY <1>1, <1>7 DEF IInv, FoundIsEarned
<1>10. \A q \in PassedOf(report) : IdOf(c, q) \in earned
  BY <1>3, <1>7 DEF PassedOf, PassedIds, IInv, PassesAreEarned
<1>11. closed \subseteq closed' /\ closed' \subseteq Clients
  BY <1>1, <1>2 DEF Closes, IInv, TypeOK
<1> HIDE DEF report
<1>12. /\ run'[r] = [run[r] EXCEPT !.at = "reported", !.report = report, !.whole = TRUE]
       /\ \A q \in Runs : q # r => run'[q] = run[q]
       /\ run' \in [Runs -> Run]
  <2>1. [run[r] EXCEPT !.at = "reported", !.report = report, !.whole = TRUE] \in Run
    BY <1>1, <1>5 DEF Run
  <2> QED
    BY <1>1, <1>2, <2>1
<1>13. /\ run'[r].at = "reported" /\ run'[r].of = c /\ run'[r].ran = run[r].ran
       /\ run'[r].report = report
  BY <1>1, <1>12 DEF Run
<1> HIDE DEF c
<1>14. TypeOK'
  BY <1>2, <1>4, <1>11, <1>12 DEF IInv, TypeOK
<1>15. PassesAreEarned' /\ SkipsKept'
  BY <1>2, <1>4, <1>12, <1>13 DEF IInv, PassesAreEarned, SkipsKept, PassedIds, IdOf
<1>16. FoundIsEarned'
  BY <1>2, <1>12, <1>13 DEF IInv, FoundIsEarned, IdOf, c
<1>17. WrongIsFound'
  BY <1>1, <1>2, <1>6, <1>11, <1>12, <1>13 DEF IInv, WrongIsFound, TypeOK, c
<1>18. ReportsAreEarned'
  <2> DEFINE Earned(q) ==
               /\ {x.part : x \in run[q].report} = PartsOf(run[q].of)
               /\ \A x, y \in run[q].report : x.part = y.part => x = y
               /\ \A p \in PassedOf(run[q].report) : IdOf(run[q].of, p) \in earned
  <2>1. ASSUME NEW q \in Runs, q # r, ReportPasses(q)'
        PROVE  Earned(q)'
    <3>1. run'[q] = run[q] /\ ReportPasses(q) /\ earned' = earned
      BY <1>2, <1>12, <2>1 DEF ReportPasses, OutcomesOf
    <3> QED
      BY <3>1 DEF IInv, ReportsAreEarned, PassedOf, IdOf
  <2>2. Earned(r)'
    BY <1>2, <1>8, <1>9, <1>10, <1>13 DEF PassedOf, IdOf
  <2>3. \A q \in Runs : ReportPasses(q)' => Earned(q)'
    BY <2>1, <2>2
  <2> QED
    BY <2>3 DEF ReportsAreEarned
<1> QED
  BY <1>14, <1>15, <1>16, <1>17, <1>18 DEF IInv

(* The WebAssembly stops: the part fails in a report that does not pass.   *)
LEMMA TrapStep == ASSUME IInv, NEW r \in Runs, Trap(r) PROVE IInv'
<1> DEFINE c == run[r].of
<1>1. PICK p \in Parts :
        /\ IsNext(r, p)
        /\ LET ran == run[r].ran \cup {[part |-> p, outcome |-> "failed"]}
           IN /\ run' = [run EXCEPT ![r].at = "reported", ![r].ran = ran, ![r].report = ran]
              /\ Closes(c, OutcomesOf(ran))
              /\ Keeps(r, ran)
        /\ wrong' = wrong \cup {<<r, p>>}
  BY DEF Trap
<1> DEFINE new == [part |-> p, outcome |-> "failed"]
<1> DEFINE ran == run[r].ran \cup {new}
<1>2. run[r] \in Run /\ run \in [Runs -> Run] /\ run[r].at = "running" /\ c \in Clients
  BY DEF IInv, TypeOK, Trap, Run
<1>3. p \in PartsOf(c) /\ \A x \in run[r].ran : x.part # p
  BY <1>1, NextIsOpen
<1>4. new \in Result /\ new.part = p /\ new.outcome = "failed"
  BY DEF Result, Outcomes
<1>5. ran \subseteq Result /\ \A x \in ran :
        x.part \in PartsOf(c) /\ (x.outcome = "passed" => IdOf(c, x.part) \in earned)
  BY <1>2, <1>3, <1>4 DEF IInv, FoundIsEarned, Run
<1>6. kept \subseteq kept' /\ kept' \subseteq earned
  BY <1>1, <1>5, KeepsEarned
<1>7. closed' = closed \cup {c} /\ closed' \subseteq Clients
  <2>1. "failed" \in OutcomesOf(ran)
    BY <1>4 DEF OutcomesOf
  <2> QED
    BY <1>1, <1>2, <2>1 DEF Closes, IInv, TypeOK
<1>8. \A x, y \in ran : x.part = y.part => x = y
  BY <1>3, <1>4 DEF IInv, FoundIsEarned
<1>9. new \in ran /\ run[r].ran \subseteq ran
  OBVIOUS
<1>10. run' = [run EXCEPT ![r].at = "reported", ![r].ran = ran, ![r].report = ran]
       /\ UNCHANGED <<fast, earned>> /\ wrong' = wrong \cup {<<r, p>>}
  BY <1>1 DEF Trap
<1> HIDE DEF ran, new
<1>11. /\ run'[r] = [run[r] EXCEPT !.at = "reported", !.ran = ran, !.report = ran]
       /\ \A q \in Runs : q # r => run'[q] = run[q]
       /\ run' \in [Runs -> Run]
  <2>1. [run[r] EXCEPT !.at = "reported", !.ran = ran, !.report = ran] \in Run
    BY <1>2, <1>5 DEF Run
  <2> QED
    BY <1>2, <1>10, <2>1
<1>12. /\ run'[r].at = "reported" /\ run'[r].of = c /\ run'[r].ran = ran
       /\ run'[r].report = ran
  BY <1>2, <1>11 DEF Run
<1> HIDE DEF c
<1>13. TypeOK'
  BY <1>6, <1>7, <1>10, <1>11 DEF IInv, TypeOK
<1>14. PassesAreEarned' /\ SkipsKept'
  BY <1>6, <1>10, <1>11, <1>12 DEF IInv, PassesAreEarned, SkipsKept, PassedIds, IdOf
<1>15. FoundIsEarned'
  BY <1>5, <1>8, <1>10, <1>11, <1>12 DEF IInv, FoundIsEarned, IdOf
<1>16. WrongIsFound'
  <2>1. ASSUME NEW w \in wrong'
        PROVE  /\ run'[w[1]].at # "idle" /\ run'[w[1]].of \in closed'
               /\ \E x \in run'[w[1]].ran : x.outcome = "failed"
    <3>1. CASE w[1] = r
      BY <1>4, <1>7, <1>9, <1>12, <3>1
    <3>2. CASE w[1] # r
      <4>1. w \in wrong /\ w[1] \in Runs
        BY <1>10, <3>2 DEF IInv, TypeOK
      <4> QED
        BY <1>7, <1>11, <3>2, <4>1 DEF IInv, WrongIsFound
    <3> QED
      BY <3>1, <3>2
  <2>2. \A q \in Runs : run'[q].at = "reported" => run'[q].ran \subseteq run'[q].report
    BY <1>11, <1>12 DEF IInv, WrongIsFound
  <2> QED
    BY <2>1, <2>2 DEF WrongIsFound
<1>17. ReportsAreEarned'
  <2>1. "failed" \in OutcomesOf(run'[r].report)
    BY <1>4, <1>9, <1>12 DEF OutcomesOf
  <2>2. \A q \in Runs : q # r => run'[q] = run[q]
    BY <1>11
  <2>3. ASSUME NEW q \in Runs, ReportPasses(q)' PROVE q # r /\ ReportPasses(q)
    BY <2>1, <2>2, <2>3 DEF ReportPasses, OutcomesOf
  <2>4. ASSUME NEW q \in Runs, q # r, ReportPasses(q)
        PROVE  /\ {x.part : x \in run'[q].report} = PartsOf(run'[q].of)
               /\ \A x, y \in run'[q].report : x.part = y.part => x = y
               /\ \A s \in PassedOf(run'[q].report) : IdOf(run'[q].of, s) \in earned'
    <3>1. run'[q] = run[q] /\ earned' = earned
      BY <1>10, <2>2, <2>4
    <3>2. /\ {x.part : x \in run[q].report} = PartsOf(run[q].of)
          /\ \A x, y \in run[q].report : x.part = y.part => x = y
      BY <2>4 DEF IInv, ReportsAreEarned
    <3>3. \A s \in PassedOf(run[q].report) : IdOf(run[q].of, s) \in earned
      BY <2>4 DEF IInv, ReportsAreEarned
    <3> QED
      BY <3>1, <3>2, <3>3, Zenon
  <2> QED
    BY <2>3, <2>4 DEF ReportsAreEarned, PassedOf, IdOf
<1> QED
  BY <1>13, <1>14, <1>15, <1>16, <1>17 DEF IInv

(* A worker dies.                                                          *)
LEMMA DieStep == ASSUME IInv, NEW r \in Runs, Die(r) PROVE IInv'
<1>1. /\ run[r] \in Run /\ run \in [Runs -> Run] /\ run[r].at = "running"
      /\ run' = [run EXCEPT ![r].at = "died"]
      /\ UNCHANGED <<fast, kept, closed, earned, wrong>>
  BY DEF IInv, TypeOK, Die
<1>2. [run[r] EXCEPT !.at = "died"] \in Run
  BY <1>1 DEF Run
<1>3. /\ run'[r].at = "died" /\ run'[r].of = run[r].of /\ run'[r].ran = run[r].ran
      /\ \A q \in Runs : q # r => run'[q] = run[q]
      /\ run' \in [Runs -> Run]
  BY <1>1, <1>2 DEF Run
<1>4. TypeOK' /\ PassesAreEarned'
  BY <1>1, <1>3 DEF IInv, TypeOK, PassesAreEarned
<1>5. SkipsKept' /\ FoundIsEarned'
  BY <1>1, <1>3 DEF IInv, SkipsKept, FoundIsEarned, PassedIds, IdOf
<1>6. WrongIsFound'
  BY <1>1, <1>3 DEF IInv, WrongIsFound, TypeOK
<1>7. ReportsAreEarned'
  BY <1>1, <1>3 DEF IInv, ReportsAreEarned, ReportPasses, OutcomesOf, PassedOf, IdOf
<1> QED
  BY <1>4, <1>5, <1>6, <1>7 DEF IInv

-----------------------------------------------------------------------------
(* IInv is an invariant.                                                   *)
THEOREM Invariance == Spec => []IInv
<1>1. ASSUME IInv, [Next]_vars PROVE IInv'
  <2>1. CASE Next
    BY <1>1, <2>1, BeginStep, RunPartStep, FinishStep, TrapStep, DieStep DEF Next
  <2>2. CASE UNCHANGED vars
    BY <1>1, <2>2 DEF vars, IInv, TypeOK, PassesAreEarned, SkipsKept, FoundIsEarned, WrongIsFound,
       ReportsAreEarned, ReportPasses, OutcomesOf, PassedOf, PassedIds, IdOf
  <2> QED
    BY <1>1, <2>1, <2>2
<1> QED
  BY <1>1, InitIInv, PTL DEF Spec

(* Every variable keeps its type.                                          *)
THEOREM TypeCorrect == Spec => []TypeOK
BY Invariance, PTL DEF IInv

(* What a class leaves out was computed right under the class's identity.  *)
THEOREM PassesEarned == Spec => []PassesAreEarned
BY Invariance, PTL DEF IInv

(* A report that passes is whole, and each pass in it is earned.           *)
THEOREM ReportsEarned == Spec => []ReportsAreEarned
BY Invariance, PTL DEF IInv

(* A wrong answer closes its class.                                        *)
THEOREM WrongCloses == Spec => []WrongClosesClass
<1>1. IInv => WrongClosesClass
  BY DEF IInv, WrongIsFound, WrongClosesClass
<1> QED
  BY <1>1, Invariance, PTL

(* A wrong answer fails its own report.                                    *)
THEOREM WrongFails == Spec => []WrongFailsReport
<1>1. IInv => WrongFailsReport
  BY DEF IInv, WrongIsFound, WrongFailsReport, ReportPasses, OutcomesOf, TypeOK
<1> QED
  BY <1>1, Invariance, PTL

(* What counts as checked was computed right.                              *)
THEOREM AnswersEarned == Spec => []AnswersAreEarned
BY PassesEarned, ReportsEarned, PTL DEF AnswersAreEarned

(* A wrong answer closes its class and fails its report.                   *)
THEOREM WrongTold == Spec => []WrongIsTold
BY WrongCloses, WrongFails, PTL DEF WrongIsTold
=============================================================================
