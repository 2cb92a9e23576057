------------------------ MODULE LongOperationsProofs ------------------------
(***************************************************************************)
(* Proofs about LongOperations, for every set of calls and every number of *)
(* checks: the slot holds one call, and no call begins unchecked.          *)
(***************************************************************************)
EXTENDS LongOperations, TLAPS

(* What is kept or awaited is a check that started.                        *)
RefsKnown ==
  /\ startups \subseteq DOMAIN checks
  /\ \A c \in Calls : awaits[c] \in {0} \cup DOMAIN checks

SomePassed == \E k \in DOMAIN checks : checks[k].ended \in {"passed", "limited"}

(* Nothing closes the class between the end of a call's require() and its  *)
(* begin: the next message of a worker waits.                              *)
ReadyIsSafe ==
  \A c \in Calls : call[c] = "waiting" /\ race[c] = "ready" => failed = Open /\ SomePassed

(* A call that has not called yet, or runs, races with nothing.            *)
WaitsFromOpen == \A c \in Calls : call[c] # "waiting" => race[c] = "open"

(* A wait that was cancelled ends without a job.                           *)
StopsHold ==
  /\ \A c \in stopped : call[c] \in {"waiting", "settled"} /\ result[c] # "done"
  /\ \A c \in Calls : call[c] # "settled" => result[c] = "none"

KeptAreGood == \A k \in startups : checks[k].ended \notin {"none", "limited"}

IInv ==
  /\ TypeOK /\ RefsKnown /\ ReadyIsSafe /\ OneAtATime /\ StopsHold /\ FailureCloses
  /\ KeptAreGood /\ WaitsFromOpen

-----------------------------------------------------------------------------
(* A check that starts is added at the end of the others.                  *)
LEMMA CheckAdded ==
  ASSUME checks \in Seq(Checks), NEW tier \in Tiers, StartsCheck(tier)
  PROVE  /\ checks' \in Seq(Checks)
         /\ Len(checks') = Len(checks) + 1 /\ Len(checks) \in Nat
         /\ DOMAIN checks = 1..Len(checks) /\ DOMAIN checks' = 1..Len(checks')
         /\ \A k \in DOMAIN checks : checks'[k] = checks[k]
         /\ checks'[Len(checks')].ended = "running"
         /\ checks'[Len(checks')].part = "sound"
<1> DEFINE new == [tier |-> tier, ended |-> "running", part |-> "sound"]
<1>1. new \in Checks
  BY DEF Checks
<1>2. checks' = Append(checks, new)
  BY DEF StartsCheck
<1>3. new.ended = "running" /\ new.part = "sound"
  OBVIOUS
<1> HIDE DEF new
<1> QED
  BY <1>1, <1>2, <1>3

(* A check that changes keeps its place, and the others stay as they are.  *)
LEMMA CheckChanged ==
  ASSUME checks \in Seq(Checks), NEW k \in DOMAIN checks, NEW new \in Checks,
         checks' = [checks EXCEPT ![k] = new]
  PROVE  /\ checks' \in Seq(Checks) /\ DOMAIN checks' = DOMAIN checks
         /\ checks'[k] = new
         /\ \A j \in DOMAIN checks : j # k => checks'[j] = checks[j]
  OBVIOUS

LEMMA InitIInv == Init => IInv
  BY CallsAssumption
     DEF Init, IInv, TypeOK, RefsKnown, ReadyIsSafe, OneAtATime, StopsHold, FailureCloses,
         KeptAreGood, WaitsFromOpen, Open, PartOf, Calls, Holders, Checks

(* A check that starts changes no property of the calls.                   *)
LEMMA StartKeeps ==
  ASSUME IInv, NEW tier \in Tiers, StartsCheck(tier),
         UNCHANGED <<page, failed, slot, call, wait, result>>,
         startups' \subseteq startups \cup {Len(checks')}
  PROVE  IInv'
<1>1. /\ checks' \in Seq(Checks)
      /\ Len(checks') = Len(checks) + 1 /\ Len(checks) \in Nat
      /\ DOMAIN checks = 1..Len(checks) /\ DOMAIN checks' = 1..Len(checks')
      /\ \A k \in DOMAIN checks : checks'[k] = checks[k]
      /\ checks'[Len(checks')].ended = "running" /\ checks'[Len(checks')].part = "sound"
  BY CheckAdded DEF IInv, TypeOK
<1>2. \A k \in DOMAIN checks' : k \in DOMAIN checks \/ k = Len(checks')
  BY <1>1
<1>3. TypeOK'
  BY <1>1 DEF IInv, TypeOK, wait
<1>4. RefsKnown'
  BY <1>1 DEF IInv, RefsKnown, wait
<1>5. ReadyIsSafe'
  BY <1>1 DEF IInv, ReadyIsSafe, SomePassed, wait
<1>6. OneAtATime' /\ StopsHold' /\ WaitsFromOpen'
  BY DEF IInv, OneAtATime, StopsHold, WaitsFromOpen, wait
<1>7. FailureCloses'
  BY <1>1, <1>2 DEF IInv, FailureCloses, Open, PartOf
<1>8. KeptAreGood'
  BY <1>1 DEF IInv, KeptAreGood, RefsKnown
<1> QED
  BY <1>3, <1>4, <1>5, <1>6, <1>7, <1>8 DEF IInv

(* Without a continuation that is due no call is ready.                    *)
LEMMA QuietHasNoReady ==
  ASSUME Quiet, NEW c \in Calls
  PROVE  ~(call[c] = "waiting" /\ race[c] = "ready")
  BY DEF Quiet, Due

LEMMA PartFailsStep == IInv /\ PartFails => IInv'
<1> SUFFICES ASSUME IInv, PartFails PROVE IInv'
  OBVIOUS
<1>1. PICK k \in DOMAIN checks :
        /\ Running(k) /\ checks[k].part = "sound"
        /\ checks' = [checks EXCEPT ![k].part = "failed"]
        /\ failed' = Latch(k)
  BY DEF PartFails
<1> DEFINE new == [checks[k] EXCEPT !.part = "failed"]
<1>2. checks[k] \in Checks /\ checks \in Seq(Checks) /\ k \in Nat
  BY DEF IInv, TypeOK
<1>3. new \in Checks /\ new.ended = "running" /\ new.part = "failed"
  BY <1>1, <1>2 DEF Checks, Running
<1>4. checks' = [checks EXCEPT ![k] = new]
  BY <1>1
<1> HIDE DEF new
<1>5. /\ checks' \in Seq(Checks) /\ DOMAIN checks' = DOMAIN checks /\ checks'[k] = new
      /\ \A j \in DOMAIN checks : j # k => checks'[j] = checks[j]
  BY <1>2, <1>3, <1>4, CheckChanged
<1>6. \A j \in DOMAIN checks : checks'[j].ended = checks[j].ended
  BY <1>1, <1>3, <1>5 DEF Running
<1>7. UNCHANGED <<page, startups, slot, call, wait, result>>
  BY DEF PartFails
<1>8. TypeOK'
  BY <1>1, <1>2, <1>5, <1>7 DEF IInv, TypeOK, Latch, PartOf, wait
<1>9. RefsKnown' /\ KeptAreGood'
  BY <1>5, <1>6, <1>7 DEF IInv, RefsKnown, KeptAreGood, wait
<1>10. ReadyIsSafe'
  BY <1>7, QuietHasNoReady DEF ReadyIsSafe, PartFails, wait
<1>11. OneAtATime' /\ StopsHold' /\ WaitsFromOpen'
  BY <1>7 DEF IInv, OneAtATime, StopsHold, WaitsFromOpen, wait
<1>12. failed' # Open
  BY <1>1, <1>2 DEF Latch, Open, PartOf
<1>13. \A j \in DOMAIN checks : failed' = PartOf(j) => checks[j].ended # "failed"
  BY <1>1 DEF IInv, FailureCloses, Latch, Open, PartOf, Running
<1>14. FailureCloses'
  BY <1>5, <1>6, <1>12, <1>13 DEF FailureCloses, Open, PartOf
<1> QED
  BY <1>8, <1>9, <1>10, <1>11, <1>14 DEF IInv

LEMMA CheckSettlesStep == IInv /\ CheckSettles => IInv'
<1> SUFFICES ASSUME IInv, CheckSettles PROVE IInv'
  OBVIOUS
<1>1. PICK k \in DOMAIN checks : \E ended \in Outcomes(k) :
        /\ Running(k)
        /\ checks' = [checks EXCEPT ![k].ended = ended]
        /\ failed' = IF ended = "failed" THEN Closes(k) ELSE failed
        /\ \/ startups' = Forget(k, ended)
           \/ ended = "failed" /\ checks[k].tier = "argon2" /\ startups' = Forget(k, "limited")
  BY DEF CheckSettles
<1>2. PICK ended \in Outcomes(k) :
        /\ Running(k)
        /\ checks' = [checks EXCEPT ![k].ended = ended]
        /\ failed' = IF ended = "failed" THEN Closes(k) ELSE failed
        /\ \/ startups' = Forget(k, ended)
           \/ ended = "failed" /\ checks[k].tier = "argon2" /\ startups' = Forget(k, "limited")
  BY <1>1
<1> DEFINE new == [checks[k] EXCEPT !.ended = ended]
<1>3. checks[k] \in Checks /\ checks \in Seq(Checks) /\ k \in Nat
  BY DEF IInv, TypeOK
<1>4. ended \in {"passed", "limited", "failed", "none"}
  BY DEF Outcomes
<1>5. new \in Checks /\ new.ended = ended /\ new.part = checks[k].part
  BY <1>3, <1>4 DEF Checks
<1>6. checks' = [checks EXCEPT ![k] = new]
  BY <1>2
<1> HIDE DEF new
<1>7. /\ checks' \in Seq(Checks) /\ DOMAIN checks' = DOMAIN checks /\ checks'[k] = new
      /\ \A j \in DOMAIN checks : j # k => checks'[j] = checks[j]
  BY <1>3, <1>5, <1>6, CheckChanged
<1>8. UNCHANGED <<page, slot, call, wait, result>>
  BY DEF CheckSettles
<1>9. startups' \subseteq startups /\ (ended \in {"none", "limited"} => k \notin startups')
  BY <1>2, <1>4 DEF Forget
<1>10. TypeOK'
  <2>1. failed' \in [check : Nat, kept : {"nothing", "part", "report"}]
    BY <1>2, <1>3 DEF IInv, TypeOK, Closes, WholeOf
  <2> QED
    BY <2>1, <1>7, <1>8, <1>9 DEF IInv, TypeOK, wait
<1>11. RefsKnown'
  BY <1>7, <1>8, <1>9 DEF IInv, RefsKnown, wait
<1>12. KeptAreGood'
  BY <1>5, <1>7, <1>9 DEF IInv, KeptAreGood, RefsKnown
<1>13. ReadyIsSafe'
  BY <1>8, QuietHasNoReady DEF ReadyIsSafe, CheckSettles, wait
<1>14. OneAtATime' /\ StopsHold' /\ WaitsFromOpen'
  BY <1>8 DEF IInv, OneAtATime, StopsHold, WaitsFromOpen, wait
<1>15. (ended = "failed" \/ failed # Open) => failed' # Open
  BY <1>2, <1>3 DEF Closes, Open, WholeOf, PartOf
<1>16. \A j \in DOMAIN checks : failed' = PartOf(j) => failed = PartOf(j) /\ ~(j = k /\ ended = "failed")
  BY <1>2 DEF Closes, Open, WholeOf, PartOf
<1>17. FailureCloses'
  BY <1>5, <1>7, <1>15, <1>16 DEF IInv, FailureCloses, Open, PartOf
<1> QED
  BY <1>10, <1>11, <1>12, <1>13, <1>14, <1>17 DEF IInv

-----------------------------------------------------------------------------
(* A call starts to wait: it starts a check or awaits a kept one.          *)
LEMMA WaitsStep == ASSUME IInv, NEW c \in Calls, Waits(c) PROVE IInv'
<1>1. /\ call[c] = "idle" /\ c \notin SelfTests /\ (c \in Long => slot = NoCall)
      /\ slot' = (IF c \in Long THEN c ELSE slot)
      /\ call' = [call EXCEPT ![c] = "waiting"]
      /\ UNCHANGED <<page, failed, stopped, result>>
  BY DEF Waits
<1>2. OneAtATime'
  BY <1>1, CallsAssumption DEF IInv, TypeOK, OneAtATime, Calls, Holders
<1>3. StopsHold'
  BY <1>1 DEF IInv, TypeOK, StopsHold
<1>4. \A d \in Calls : d # c => call'[d] = call[d]
  BY <1>1 DEF IInv, TypeOK
<1>5. call'[c] = "waiting"
  BY <1>1 DEF IInv, TypeOK
<1>6. CASE failed # Open /\ race' = [race EXCEPT ![c] = "SELF_CHECK_FAILED"]
           /\ UNCHANGED <<checks, startups, awaits>>
  <2>1. TypeOK'
    BY <1>1, <1>6 DEF IInv, TypeOK, Refusals, Calls, Holders
  <2>2. RefsKnown' /\ FailureCloses' /\ KeptAreGood'
    BY <1>1, <1>6 DEF IInv, RefsKnown, FailureCloses, KeptAreGood
  <2>4. WaitsFromOpen'
    BY <1>6, <1>4, <1>5 DEF IInv, TypeOK, WaitsFromOpen
  <2>3. ReadyIsSafe'
    BY <1>1, <1>6 DEF IInv, TypeOK, ReadyIsSafe, SomePassed
  <2> QED
    BY <1>2, <1>3, <2>1, <2>2, <2>3, <2>4 DEF IInv
<1>7. CASE /\ failed = Open
           /\ \E oldest \in startups :
                /\ \A k \in startups : oldest <= k
                /\ awaits' = [awaits EXCEPT ![c] = oldest]
           /\ UNCHANGED <<checks, startups, race>>
  <2>1. TypeOK'
    BY <1>1, <1>7 DEF IInv, TypeOK, Calls, Holders
  <2>2. RefsKnown' /\ FailureCloses' /\ KeptAreGood'
    BY <1>1, <1>7 DEF IInv, TypeOK, RefsKnown, FailureCloses, KeptAreGood
  <2>4. WaitsFromOpen'
    BY <1>7, <1>4, <1>5 DEF IInv, TypeOK, WaitsFromOpen
  <2>3. ReadyIsSafe'
    BY <1>1, <1>7 DEF IInv, TypeOK, ReadyIsSafe, WaitsFromOpen, SomePassed
  <2> QED
    BY <1>2, <1>3, <2>1, <2>2, <2>3, <2>4 DEF IInv
<1>8. CASE /\ failed = Open /\ startups = {}
           /\ StartsCheck("withoutArgon2")
           /\ startups' = startups \cup {Len(checks')}
           /\ awaits' = [awaits EXCEPT ![c] = Len(checks')]
           /\ UNCHANGED race
  <2>1. /\ checks' \in Seq(Checks)
        /\ Len(checks') = Len(checks) + 1 /\ Len(checks) \in Nat
        /\ DOMAIN checks = 1..Len(checks) /\ DOMAIN checks' = 1..Len(checks')
        /\ \A k \in DOMAIN checks : checks'[k] = checks[k]
        /\ checks'[Len(checks')].ended = "running" /\ checks'[Len(checks')].part = "sound"
    BY <1>8, CheckAdded DEF IInv, TypeOK, Tiers
  <2>2. TypeOK'
    BY <1>1, <1>8, <2>1 DEF IInv, TypeOK, Calls, Holders
  <2>3. RefsKnown' /\ KeptAreGood'
    BY <1>1, <1>8, <2>1 DEF IInv, TypeOK, RefsKnown, KeptAreGood
  <2>4. FailureCloses'
    <3>1. \A k \in DOMAIN checks' : k \in DOMAIN checks \/ k = Len(checks')
      BY <2>1
    <3> QED
      BY <1>1, <2>1, <3>1 DEF IInv, FailureCloses, Open, PartOf
  <2>5. ReadyIsSafe'
    BY <1>1, <1>8, <2>1 DEF IInv, TypeOK, ReadyIsSafe, WaitsFromOpen, SomePassed
  <2>6. WaitsFromOpen'
    BY <1>8, <1>4, <1>5 DEF IInv, TypeOK, WaitsFromOpen
  <2> QED
    BY <1>2, <1>3, <2>2, <2>3, <2>4, <2>5, <2>6 DEF IInv
<1> QED
  BY <1>6, <1>7, <1>8 DEF Waits, Require

(* The other steps of a call and cancel() leave the checks alone.          *)
LEMMA GateUnchanged ==
  ASSUME IInv, UNCHANGED gate PROVE KeptAreGood' /\ FailureCloses' /\ (SomePassed' <=> SomePassed)
  BY DEF gate, IInv, KeptAreGood, FailureCloses, SomePassed

LEMMA RequiredStep == ASSUME IInv, NEW c \in Calls, Required(c) PROVE IInv'
<1>1. /\ call[c] = "waiting" /\ race[c] = "open" /\ awaits[c] # 0
      /\ race' = [race EXCEPT ![c] = Judges(awaits[c])]
      /\ UNCHANGED <<gate, slot, call, awaits, stopped, result>>
  BY DEF Required, Reported
<1>2. Judges(awaits[c]) \in {"ready"} \cup Refusals
  BY DEF Judges, Refusals
<1>3. awaits[c] \in DOMAIN checks /\ checks[awaits[c]].ended # "running"
  BY <1>1 DEF IInv, RefsKnown, Required, Reported, Running
<1>4. Judges(awaits[c]) = "ready" => failed = Open /\ SomePassed
  <2>1. checks[awaits[c]] \in Checks
    BY <1>3 DEF IInv, TypeOK
  <2> QED
    BY <1>3, <2>1 DEF Judges, SomePassed, Checks
<1>5. TypeOK'
  BY <1>1, <1>2 DEF IInv, TypeOK, gate
<1>6. ReadyIsSafe'
  BY <1>1, <1>4, GateUnchanged DEF IInv, TypeOK, ReadyIsSafe, gate
<1>7. RefsKnown' /\ OneAtATime' /\ StopsHold' /\ WaitsFromOpen'
  BY <1>1 DEF IInv, TypeOK, RefsKnown, OneAtATime, StopsHold, WaitsFromOpen, gate
<1> QED
  BY <1>1, <1>5, <1>6, <1>7, GateUnchanged DEF IInv

(* A call that settles frees the slot it held.                             *)
LEMMA SettleStep ==
  ASSUME IInv, NEW c \in Calls, NEW outcome \in {"CANCELLED", "REFUSED", "done"} \cup Refusals,
         call[c] \in {"waiting", "running"}, Settle(c, outcome), slot' = Leave(c),
         c \in stopped => outcome # "done", UNCHANGED <<gate, stopped>>
  PROVE  IInv'
<1>1. /\ call' = [call EXCEPT ![c] = "settled"] /\ result' = [result EXCEPT ![c] = outcome]
      /\ awaits' = [awaits EXCEPT ![c] = 0] /\ race' = [race EXCEPT ![c] = "open"]
  BY DEF Settle
<1>2. TypeOK'
  BY <1>1 DEF IInv, TypeOK, gate, Leave
<1>3. RefsKnown' /\ StopsHold' /\ WaitsFromOpen'
  BY <1>1 DEF IInv, TypeOK, RefsKnown, StopsHold, WaitsFromOpen, gate
<1>4. ReadyIsSafe'
  BY <1>1, GateUnchanged DEF IInv, TypeOK, ReadyIsSafe, gate
<1>5. OneAtATime'
  BY <1>1, CallsAssumption DEF IInv, TypeOK, OneAtATime, Leave, Calls, Holders
<1> QED
  BY <1>2, <1>3, <1>4, <1>5, GateUnchanged DEF IInv

LEMMA BeginsStep == ASSUME IInv, NEW c \in Calls, Begins(c) PROVE IInv'
<1>1. /\ call[c] = "waiting" /\ race[c] = "ready" /\ c \notin stopped
      /\ call' = [call EXCEPT ![c] = "running"]
      /\ awaits' = [awaits EXCEPT ![c] = 0] /\ race' = [race EXCEPT ![c] = "open"]
      /\ UNCHANGED <<gate, slot, stopped, result>>
  BY DEF Begins, MayBegin
<1>2. TypeOK' /\ RefsKnown'
  BY <1>1 DEF IInv, TypeOK, RefsKnown, gate
<1>3. StopsHold' /\ OneAtATime' /\ WaitsFromOpen'
  BY <1>1 DEF IInv, TypeOK, StopsHold, OneAtATime, WaitsFromOpen, gate
<1>4. ReadyIsSafe'
  BY <1>1, GateUnchanged DEF IInv, TypeOK, ReadyIsSafe, gate
<1> QED
  BY <1>1, <1>2, <1>3, <1>4, GateUnchanged DEF IInv

LEMMA SelfTestStep == ASSUME IInv, NEW c \in Calls, SelfTestStarts(c) PROVE IInv'
<1>1. /\ call[c] = "idle" /\ c \in SelfTests /\ slot = NoCall
      /\ slot' = c /\ call' = [call EXCEPT ![c] = "running"]
      /\ UNCHANGED <<gate, wait, result>>
  BY DEF SelfTestStarts
<1>2. TypeOK' /\ RefsKnown'
  BY <1>1 DEF IInv, TypeOK, RefsKnown, gate, wait, Holders
<1>3. StopsHold' /\ WaitsFromOpen'
  BY <1>1 DEF IInv, TypeOK, StopsHold, WaitsFromOpen, wait
<1>4. OneAtATime'
  BY <1>1, CallsAssumption DEF IInv, TypeOK, OneAtATime, Calls, Holders
<1>5. ReadyIsSafe'
  BY <1>1, GateUnchanged DEF IInv, TypeOK, ReadyIsSafe, gate, wait
<1> QED
  BY <1>1, <1>2, <1>3, <1>4, <1>5, GateUnchanged DEF IInv

LEMMA CancelStep == ASSUME IInv, Cancel PROVE IInv'
<1>1. slot \in Calls /\ UNCHANGED gate
  BY DEF IInv, TypeOK, Cancel, Calls, Holders
<1>2. CASE call[slot] = "running" /\ Settle(slot, "CANCELLED") /\ slot' = NoCall /\ UNCHANGED stopped
  BY <1>1, <1>2, SettleStep DEF Leave
<1>3. CASE /\ call[slot] = "waiting"
           /\ stopped' = stopped \cup {slot}
           /\ race' = [race EXCEPT ![slot] = IF @ = "open" THEN "CANCELLED" ELSE @]
           /\ UNCHANGED <<slot, call, awaits, result>>
  <2>1. TypeOK' /\ RefsKnown'
    BY <1>1, <1>3 DEF IInv, TypeOK, RefsKnown, gate
  <2>2. StopsHold' /\ OneAtATime' /\ WaitsFromOpen'
    BY <1>1, <1>3 DEF IInv, TypeOK, StopsHold, OneAtATime, WaitsFromOpen
  <2>3. ReadyIsSafe'
    BY <1>1, <1>3, GateUnchanged DEF IInv, TypeOK, ReadyIsSafe, gate
  <2> QED
    BY <1>1, <2>1, <2>2, <2>3, GateUnchanged DEF IInv
<1> QED
  BY <1>2, <1>3 DEF Cancel

LEMMA StepIInv == IInv /\ [Next]_vars => IInv'
<1> SUFFICES ASSUME IInv, [Next]_vars PROVE IInv'
  OBVIOUS
<1>1. CASE StartupCheck
  <2>1. PICK variant \in {"withoutArgon2", "argon2"} : StartsCheck(variant)
    BY <1>1 DEF StartupCheck
  <2> QED
    BY <1>1, <2>1, StartKeeps DEF StartupCheck, Tiers
<1>2. CASE FullCheck
  BY <1>2, StartKeeps DEF FullCheck, Tiers
<1>3. CASE PartFails
  BY <1>3, PartFailsStep
<1>4. CASE CheckSettles
  BY <1>4, CheckSettlesStep
<1>5. CASE Cancel
  BY <1>5, CancelStep
<1>6. ASSUME NEW c \in Calls, Waits(c) PROVE IInv'
  BY <1>6, WaitsStep
<1>7. ASSUME NEW c \in Calls, SelfTestStarts(c) PROVE IInv'
  BY <1>7, SelfTestStep
<1>8. ASSUME NEW c \in Calls, Required(c) PROVE IInv'
  BY <1>8, RequiredStep
<1>9. ASSUME NEW c \in Calls, Begins(c) PROVE IInv'
  BY <1>9, BeginsStep
<1>10. ASSUME NEW c \in Calls, WaitEnds(c) PROVE IInv'
  <2> DEFINE outcome == IF race[c] \in Refusals THEN race[c]
                        ELSE IF MayBegin(c) THEN "REFUSED" ELSE "CANCELLED"
  <2>1. call[c] = "waiting" /\ Settle(c, outcome) /\ slot' = Leave(c) /\ UNCHANGED <<gate, stopped>>
    BY <1>10 DEF WaitEnds
  <2>2. outcome \in {"CANCELLED", "REFUSED"} \cup Refusals /\ outcome # "done"
    BY DEF Refusals
  <2> QED
    BY <2>1, <2>2, SettleStep
<1>11. ASSUME NEW c \in Calls, JobEnds(c) PROVE IInv'
  BY <1>11, SettleStep DEF JobEnds, IInv, StopsHold
<1>12. ASSUME UNCHANGED vars PROVE IInv'
  BY <1>12 DEF vars, gate, wait, IInv, TypeOK, RefsKnown, ReadyIsSafe, SomePassed, OneAtATime,
               StopsHold, FailureCloses, KeptAreGood, WaitsFromOpen
<1> QED
  BY <1>1, <1>2, <1>3, <1>4, <1>5, <1>6, <1>7, <1>8, <1>9, <1>10, <1>11, <1>12 DEF Next, Busy

(* IInv holds in every state of every behaviour.                           *)
THEOREM Invariance == Spec => []IInv
  BY InitIInv, StepIInv, PTL DEF Spec

(* Every variable keeps its type, for every number of calls and checks.    *)
THEOREM TypeCorrect == Spec => []TypeOK
<1>1. IInv => TypeOK
  BY DEF IInv
<1> QED
  BY <1>1, Invariance, PTL

(* OperationSlot: the slot belongs to exactly the call that waits or runs  *)
(* with it.                                                                *)
THEOREM SlotIsExclusive == Spec => []OneAtATime
<1>1. IInv => OneAtATime
  BY DEF IInv
<1> QED
  BY <1>1, Invariance, PTL

(* PackageCheck: a failed part or report closes the class.                 *)
THEOREM FailuresClose == Spec => []FailureCloses
<1>1. IInv => FailureCloses
  BY DEF IInv
<1> QED
  BY <1>1, Invariance, PTL

(* OperationSlot.after: a wait that was cancelled never becomes a job.     *)
THEOREM CancelsHold == Spec => []CancelledNeverRuns
<1>1. IInv => CancelledNeverRuns
  BY DEF IInv, StopsHold, CancelledNeverRuns
<1> QED
  BY <1>1, Invariance, PTL

(* Both: a class that failed stays closed, a cancelled call ended.         *)
THEOREM EndedStaysEnded == Spec => []WhatEndedStaysEnded
BY FailuresClose, CancelsHold, PTL DEF WhatEndedStaysEnded

(* PackageCheck.require and OperationSlot.after: a waiting call begins     *)
(* only in a class where a check passed and no part has failed.            *)
THEOREM NothingUnchecked == Spec => NothingBeginsUnchecked
<1> DEFINE Begin(c) == call[c] = "waiting" /\ call'[c] = "running"
           Checked == failed = Open /\ \E k \in DOMAIN checks : checks[k].ended \in {"passed", "limited"}
<1>1. ASSUME IInv, [Next]_vars, NEW c \in Long \cup Quick, Begin(c) PROVE Checked
  <2>1. c \in Calls /\ call \in [Calls -> {"idle", "waiting", "running", "settled"}]
    BY <1>1 DEF Calls, IInv, TypeOK
  <2>2. race[c] = "ready"
    BY <1>1, <2>1 DEF Next, vars, gate, wait, StartupCheck, FullCheck, PartFails, CheckSettles, Cancel,
                      Busy, Waits, SelfTestStarts, Required, Begins, MayBegin, WaitEnds, JobEnds,
                      Settle
  <2> QED
    BY <1>1, <2>1, <2>2 DEF IInv, ReadyIsSafe, SomePassed
<1>2. IInv /\ [Next]_vars =>
        [\A c \in Long \cup Quick :
           call[c] = "waiting" /\ call'[c] = "running"
           => /\ failed = Open
              /\ \E k \in DOMAIN checks : checks[k].ended \in {"passed", "limited"}]_vars
  BY <1>1
<1> QED
  BY <1>2, Invariance, PTL DEF Spec, NothingBeginsUnchecked

(* PackageCheck.startup: a call never waits for a report that is known to  *)
(* be missing or limited; the check is tried again.                        *)
THEOREM TriesAgain == Spec => ChecksAgain
<1>1. ASSUME IInv, [Next]_vars, NEW c \in Calls,
             call[c] = "idle", call'[c] = "waiting", failed = Open
      PROVE  checks'[awaits'[c]].ended \in {"running", "passed"}
  <2>1. Waits(c)
    BY <1>1 DEF Next, vars, gate, wait, StartupCheck, FullCheck, PartFails, CheckSettles, Cancel,
                Busy, Waits, SelfTestStarts, Required, Begins, WaitEnds, JobEnds, Settle, IInv,
                TypeOK
  <2>2. CASE \E oldest \in startups : awaits' = [awaits EXCEPT ![c] = oldest]
             /\ UNCHANGED <<checks, startups, race>>
    <3>1. PICK oldest \in startups : awaits' = [awaits EXCEPT ![c] = oldest] /\ UNCHANGED checks
      BY <2>2
    <3>2. awaits'[c] = oldest /\ oldest \in DOMAIN checks
      BY <1>1, <3>1 DEF IInv, TypeOK, RefsKnown
    <3>3. checks[oldest] \in Checks
      BY <1>1, <3>2 DEF IInv, TypeOK
    <3>4. checks[oldest].ended \notin {"none", "limited", "failed"}
      BY <1>1, <3>1, <3>2 DEF IInv, KeptAreGood, FailureCloses
    <3> QED
      BY <3>1, <3>2, <3>3, <3>4 DEF Checks
  <2>3. CASE StartsCheck("withoutArgon2") /\ awaits' = [awaits EXCEPT ![c] = Len(checks')]
    <3>1. checks'[Len(checks')].ended = "running"
      BY <1>1, <2>3, CheckAdded DEF IInv, TypeOK, Tiers
    <3> QED
      BY <1>1, <2>3, <3>1 DEF IInv, TypeOK
  <2> QED
    BY <1>1, <2>1, <2>2, <2>3 DEF Waits, Require
<1>2. IInv /\ [Next]_vars =>
        [\A c \in Calls :
           call[c] = "idle" /\ call'[c] = "waiting" /\ failed = Open
           => checks'[awaits'[c]].ended \in {"running", "passed"}]_vars
  BY <1>1
<1> QED
  BY <1>2, Invariance, PTL DEF Spec, ChecksAgain

=============================================================================
