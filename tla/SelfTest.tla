------------------------------ MODULE SelfTest ------------------------------
(***************************************************************************)
(* mhfe self-test (src/bin/mhfe/self_test.rs): every part of the program   *)
(* at the full tier (src/self_check.rs, src/self_check/sets.rs,            *)
(* src/engine/known_answers.rs, src/random/health.rs), then the published  *)
(* vectors, watched call by call (src/self_test.rs).                       *)
(*                                                                         *)
(* A computation is as published or not: a fault of the build or of the    *)
(* computer makes it leave the published path, for good.                   *)
(***************************************************************************)
EXTENDS Naturals, Sequences, SequencesExt

VARIABLES
  test,      \* the next step of the command; where it ended it stays
  vectors,   \* --vectors was given
  tried,     \* the parts whose check has ended, in their order, with outcomes
  broken,    \* the parts that do not work, whatever their check says
  random,    \* what the system's generator is
  call,      \* Argon2id calls so far, counted over both vectors
  path,      \* whether the state of the operation is as published
  faults,    \* where faults happened: before, in or after which call
  witness,   \* the first call the witness found off: its kind and number
  same,      \* of suite 3 and suite 4, whether the result was as published
  exit

vars == <<test, vectors, tried, broken, random, call, path, faults, witness, same, exit>>

-----------------------------------------------------------------------------
(* self_check.rs.  A set has each part once, in the order they were added; *)
(* merge adds those of another set.                                        *)

MergeSlip(set, other) == set \o other
Merge(set, other) ==
  LET merged[n \in 0..Len(other)] ==
        IF n = 0 THEN set
        ELSE IF other[n] \in ToSet(merged[n - 1]) THEN merged[n - 1]
        ELSE Append(merged[n - 1], other[n])
  IN merged[Len(other)]

(* sets::native and every_part, the parts that are compared with known     *)
(* answers shown by two that several sets have.                            *)
Core      == <<"hashes", "argon2", "words">>
Passwords == <<"random-source">>
Wallet    == <<"words", "random-source">>
Repair    == <<"words">>
Native == Append(Merge(Merge(Merge(Append(Core, "argon2-sizes"), Passwords), Wallet), Repair),
                 "memory-locking")
EveryPart == Native \o <<"core-dumps", "isolation", "hidden-input">>

(* health.rs.  What a source does to the two probes of check_source and to *)
(* the bytes of check_spread.                                              *)
Sources == {"random", "fills nothing", "stuck", "narrow", "fails"}
PassesProbes(source) == source \in {"random", "narrow"}
PassesSpread(source) == source = "random"

(* What the check of a part may give: a size of memory that cannot be had  *)
(* and a terminal that is not there are not available, the protections     *)
(* that only weaken warn.                                                  *)
Outcomes(part) ==
  CASE part = "random-source" ->
         {IF PassesProbes(random) /\ PassesSpread(random) THEN "passed" ELSE "failed"}
    [] part \in {"memory-locking", "isolation"} -> {IF part \in broken THEN "warning" ELSE "passed"}
    [] part \in {"argon2-sizes", "hidden-input"} ->
         {IF part \in broken THEN "failed" ELSE "passed", "not available"}
    [] OTHER -> {IF part \in broken THEN "failed" ELSE "passed"}

FailedPart == \E i \in DOMAIN tried : tried[i][2] = "failed"

-----------------------------------------------------------------------------
(* self_test.rs.                                                           *)
Rounds == 2   \* 12 in the code, a bound
None == <<"none", 0>>

(* judge: the input recorded at this place, then its key.                  *)
JudgeSlip(input, key) == IF ~key THEN "argon2-key" ELSE IF ~input THEN "argon2-input" ELSE "none"
Judge(input, key) == IF ~input THEN "argon2-input" ELSE IF ~key THEN "argon2-key" ELSE "none"

Passed == same[1] /\ same[2]

(* SelfTestResult::fault.                                                  *)
Fault == IF Passed THEN "none" ELSE IF witness # None THEN witness[1] ELSE "after-argon2"

-----------------------------------------------------------------------------
Init ==
  /\ test = "begin" /\ vectors = FALSE /\ tried = <<>> /\ broken = {} /\ random = "random"
  /\ call = 0 /\ path = TRUE /\ faults = {} /\ witness = None /\ same = <<FALSE, FALSE>>
  /\ exit = "none"

TypeOK ==
  /\ vectors \in BOOLEAN /\ random \in Sources /\ Len(tried) <= Len(EveryPart)
  /\ broken \subseteq ToSet(EveryPart)
  /\ call \in 0..2 * Rounds /\ path \in BOOLEAN /\ same \in Seq(BOOLEAN)
  /\ faults \subseteq {"before", "argon2", "after"} \X (1..2 * Rounds)

Begins ==
  /\ test = "begin" /\ test' = "parts" /\ vectors' \in BOOLEAN /\ random' \in Sources
  /\ broken' \in {{}} \cup {{part} : part \in ToSet(EveryPart) \ {"random-source"}}
  /\ UNCHANGED <<tried, call, path, faults, witness, same, exit>>

(* run_named: a part that stops the program ends the tool by name.         *)
TestsPart ==
  /\ test = "parts" /\ Len(tried) < Len(EveryPart)
  /\ LET part == EveryPart[Len(tried) + 1]
     IN \/ (\E outcome \in Outcomes(part) : tried' = Append(tried, <<part, outcome>>))
           /\ UNCHANGED <<test, exit>>
        \/ part \in broken /\ test' = "ended" /\ exit' = "internal" /\ UNCHANGED tried
  /\ UNCHANGED <<vectors, broken, random, call, path, faults, witness, same>>

(* The table, and the verdict where no vector runs.                        *)
ShowsParts ==
  /\ test = "parts" /\ Len(tried) = Len(EveryPart)
  /\ IF FailedPart THEN test' = "ended" /\ exit' = "internal"
     ELSE IF vectors THEN test' = "reserve" /\ exit' = exit
     ELSE test' = "ended" /\ exit' = "success"
  /\ UNCHANGED <<vectors, tried, broken, random, call, path, faults, witness, same>>

Reserves ==
  /\ test = "reserve"
  /\ \/ test' = "packs" /\ exit' = exit
     \/ test' = "ended" /\ exit' = "resources"
  /\ UNCHANGED <<vectors, tried, broken, random, call, path, faults, witness, same>>

(* An operation packs its phrase or container and encodes its password.    *)
Packs ==
  /\ test = "packs" /\ test' = "rounds"
  /\ path' \in BOOLEAN
  /\ faults' = IF path' THEN faults ELSE faults \cup {<<"before", call + 1>>}
  /\ UNCHANGED <<vectors, tried, broken, random, call, witness, same, exit>>

(* RoundKeyWitness::argon2id: a call with its input, which a salt may      *)
(* spoil, its key, which Argon2id may, and the mask and state after it.    *)
Calls ==
  /\ test = "rounds" /\ call' = call + 1
  /\ \E salt \in BOOLEAN, argon2 \in BOOLEAN, mask \in BOOLEAN :
       LET input == path /\ salt
           key == input /\ argon2
           found == Judge(input, key)
           last == call' \in {Rounds, 2 * Rounds}
       IN /\ ~path => salt /\ argon2 /\ mask
          /\ ~salt => argon2
          /\ witness' = IF witness = None /\ found # "none" THEN <<found, call'>> ELSE witness
          /\ path' = (key /\ mask)
          /\ faults' = faults \cup (IF salt THEN {} ELSE {<<"before", call'>>})
                              \cup (IF argon2 THEN {} ELSE {<<"argon2", call'>>})
                              \cup (IF mask THEN {} ELSE IF last THEN {<<"after", call'>>}
                                    ELSE {<<"before", call' + 1>>})
          /\ test' = IF last THEN "writes" ELSE test
  /\ UNCHANGED <<vectors, tried, broken, random, same, exit>>

(* The encryption stops at its container, which is compared, before its    *)
(* check; the recovery ends with its phrase.                               *)
Writes ==
  /\ test = "writes"
  /\ \E good \in BOOLEAN :
       /\ path \/ good
       /\ faults' = IF good THEN faults ELSE faults \cup {<<"after", call>>}
       /\ same' = IF call = Rounds THEN <<path /\ good, same[2]>> ELSE <<same[1], path /\ good>>
  /\ test' = IF call = Rounds THEN "packs" ELSE "verdict"
  /\ UNCHANGED <<vectors, tried, broken, random, call, path, witness, exit>>

ShowsVectors ==
  /\ test = "verdict" /\ test' = "ended" /\ exit' = IF Passed THEN "success" ELSE "internal"
  /\ UNCHANGED <<vectors, tried, broken, random, call, path, faults, witness, same>>

Next == Begins \/ TestsPart \/ ShowsParts \/ Reserves \/ Packs \/ Calls \/ Writes
        \/ ShowsVectors
Spec == Init /\ [][Next]_vars

-----------------------------------------------------------------------------
(* self_test.rs, SelfTestFault: the fault lies where the result says, and  *)
(* one that passed had none.                                               *)
FaultIsWhereItSays ==
  test = "verdict" =>
    CASE Fault = "none"         -> faults = {}
      [] Fault = "argon2-key"   -> <<"argon2", witness[2]>> \in faults
      [] Fault = "argon2-input" -> \E n \in 1..witness[2] : <<"before", n>> \in faults
      [] Fault = "after-argon2" -> \E f \in faults : f[1] = "after"

(* "A program that passes computes MHFE as the specification says": the    *)
(* tool says so only where each part was tried, once, none that can be     *)
(* seen here is broken, and the vectors asked for came out as published.   *)
PassIsEarned ==
  exit = "success" =>
    /\ [i \in DOMAIN tried |-> tried[i][1]] = EveryPart
    /\ \A i, k \in DOMAIN tried : tried[i][1] = tried[k][1] => i = k
    /\ random = "random"
    /\ \A part \in broken : \E i \in DOMAIN tried :
         tried[i] \in {part} \X {"warning", "not available"}
    /\ vectors => faults = {} /\ call = 2 * Rounds

SelfTestIsTrue == FaultIsWhereItSays /\ PassIsEarned
=============================================================================
