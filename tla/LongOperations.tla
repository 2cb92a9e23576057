--------------------------- MODULE LongOperations ---------------------------
(***************************************************************************)
(* The calls of one class of the browser package on a page: its slot for   *)
(* one long operation at a time (OperationSlot) and the self-checks every  *)
(* call waits for (PackageCheck), both in web/runtime.js, as client.js and *)
(* wallet.js use them.  The page runs one task at a time and finishes its  *)
(* continuations before the next message of a worker (Quiet), while the    *)
(* page's own code calls and cancels at any moment.  What a job does in    *)
(* between is WorkerJob's.  A definition named ...Slip is a plausible bug  *)
(* in the definition after it.                                             *)
(***************************************************************************)
EXTENDS Naturals, Sequences, FiniteSets

CONSTANTS Long,          \* calls that hold the slot and wait for a check
          SelfTests,     \* calls that hold the slot and wait for none (selfTest)
          Quick,         \* calls that wait for a check without the slot
          NoCall,        \* no call: the slot is free
          MaxChecks      \* bound: checks the class starts

Calls   == Long \cup SelfTests \cup Quick
Holders == Long \cup SelfTests

ASSUME CallsAssumption ==
  /\ Long \cap SelfTests = {} /\ Holders \cap Quick = {}
  /\ NoCall \notin Calls
  /\ MaxChecks \in Nat

VARIABLES
  page,      \* whether the page's own parts pass; they give the same in every check
  checks,    \* the checks in the order they started: tier, how each ended, a failed part's news
  startups,  \* the startup checks that are kept (#startups; a Map lists the oldest first)
  failed,    \* the failed report or part that closes the class (#failed)
  slot,      \* the call that holds the slot (#running)
  call,      \* where each call stands
  awaits,    \* the check a waiting call awaits
  race,      \* how the race of the check and cancel() ended for a waiting call
  stopped,   \* calls whose wait was cancelled
  result     \* how each call settled

gate == <<page, checks, startups, failed>>
wait == <<awaits, race, stopped>>
vars == <<gate, slot, call, wait, result>>

Tiers      == {"withoutArgon2", "argon2", "full"}
Checks     == [tier : Tiers, ended : {"running", "passed", "limited", "failed", "none"},
               part : {"sound", "failed"}]
Refusals   == {"SELF_CHECK_FAILED", "NO_REPORT"}
Open       == [check |-> 0, kept |-> "nothing"]        \* #failed is null
PartOf(k)  == [check |-> k, kept |-> "part"]
WholeOf(k) == [check |-> k, kept |-> "report"]

TypeOK ==
  /\ page \in {"passed", "failed"}
  /\ checks \in Seq(Checks)
  /\ startups \subseteq Nat
  /\ failed \in [check : Nat, kept : {"nothing", "part", "report"}]
  /\ slot \in Holders \cup {NoCall}
  /\ call \in [Calls -> {"idle", "waiting", "running", "settled"}]
  /\ awaits \in [Calls -> Nat]
  /\ race \in [Calls -> {"open", "ready", "CANCELLED"} \cup Refusals]
  /\ stopped \subseteq Calls
  /\ result \in [Calls -> {"none", "CANCELLED", "REFUSED", "done"} \cup Refusals]

Init ==
  /\ page \in {"passed", "failed"}
  /\ checks = <<>> /\ startups = {} /\ failed = Open
  /\ slot = NoCall /\ call = [c \in Calls |-> "idle"]
  /\ awaits = [c \in Calls |-> 0] /\ race = [c \in Calls |-> "open"] /\ stopped = {}
  /\ result = [c \in Calls |-> "none"]

-----------------------------------------------------------------------------
(* The checks (PackageCheck).                                              *)

Running(k) == checks[k].ended = "running"

(* Whether the awaited check of c has given its report.                    *)
Reported(c) == awaits[c] # 0 /\ ~Running(awaits[c])

(* A continuation of c is due: of its require(), or of after().            *)
Due(c) == call[c] = "waiting" /\ (race[c] # "open" \/ Reported(c))

(* The next message of a worker waits for every continuation.              *)
Quiet == \A c \in Calls : ~Due(c)

StartsCheck(tier) ==
  /\ Len(checks) < MaxChecks
  /\ checks' = Append(checks, [tier |-> tier, ended |-> "running", part |-> "sound"])

KeptFor(variant) == {k \in startups : checks[k].tier = variant}

(* startup(): one report for each variant, shared by every call.           *)
StartupCheck ==
  /\ \E variant \in {"withoutArgon2", "argon2"} :
       KeptFor(variant) = {} /\ StartsCheck(variant)
  /\ startups' = startups \cup {Len(checks')}
  /\ UNCHANGED <<page, failed, slot, call, wait, result>>

(* full(): run anew each time and not kept.                                *)
FullCheck ==
  /\ StartsCheck("full")
  /\ UNCHANGED <<page, startups, failed, slot, call, wait, result>>

(* A failed part closes the class even if its worker dies before the       *)
(* report.                                                                 *)
Latch(k) == IF failed = Open THEN PartOf(k) ELSE failed

(* A worker tells of a failed part.                                        *)
PartFails ==
  /\ Quiet /\ page = "passed"
  /\ \E k \in DOMAIN checks :
       /\ Running(k) /\ checks[k].part = "sound"
       /\ checks' = [checks EXCEPT ![k].part = "failed"]
       /\ failed' = Latch(k)
  /\ UNCHANGED <<page, startups, slot, call, wait, result>>

ClosesSlip(k) == IF failed = Open THEN WholeOf(k) ELSE failed
(* The whole report takes the place of a part latched on the way.          *)
Closes(k) == IF failed \in {Open, PartOf(k)} THEN WholeOf(k) ELSE failed

(* What check k can give: the page's own failing part alone, a report of   *)
(* its parts, Argon2's with a limit included, or none: its worker failed.  *)
Outcomes(k) ==
  IF page = "failed" THEN {"failed"}
  ELSE {"failed", "none"}
       \cup (IF checks[k].part = "failed" THEN {}
             ELSE {"passed"} \cup (IF checks[k].tier = "withoutArgon2" THEN {} ELSE {"limited"}))

ForgetSlip(k, ended) == startups
(* No report, or one with a part that was not available or a warning, is   *)
(* not kept.                                                               *)
Forget(k, ended) ==
  IF ended \in {"none", "limited"} THEN startups \ {k} ELSE startups

(* A check settles.  A failed report may hold a limited part too, and then *)
(* is not kept either, while #failed stays.                                *)
CheckSettles ==
  /\ Quiet
  /\ \E k \in DOMAIN checks : \E ended \in Outcomes(k) :
       /\ Running(k)
       /\ checks' = [checks EXCEPT ![k].ended = ended]
       /\ failed' = IF ended = "failed" THEN Closes(k) ELSE failed
       /\ \/ startups' = Forget(k, ended)
          \/ ended = "failed" /\ checks[k].tier = "argon2" /\ startups' = Forget(k, "limited")
  /\ UNCHANGED <<page, slot, call, wait, result>>

-----------------------------------------------------------------------------
(* The calls.                                                              *)

(* A call's promise settles; what its wait kept is gone with it.           *)
Settle(c, outcome) ==
  /\ call' = [call EXCEPT ![c] = "settled"]
  /\ result' = [result EXCEPT ![c] = outcome]
  /\ awaits' = [awaits EXCEPT ![c] = 0] /\ race' = [race EXCEPT ![c] = "open"]

(* require(): a closed class refuses at once; otherwise the call awaits    *)
(* the oldest kept startup check, or starts one.                           *)
Require(c) ==
  \/ /\ failed # Open
     /\ race' = [race EXCEPT ![c] = "SELF_CHECK_FAILED"]
     /\ UNCHANGED <<checks, startups, awaits>>
  \/ /\ failed = Open
     /\ \E oldest \in startups :
          /\ \A k \in startups : oldest <= k
          /\ awaits' = [awaits EXCEPT ![c] = oldest]
     /\ UNCHANGED <<checks, startups, race>>
  \/ /\ failed = Open /\ startups = {}
     /\ StartsCheck("withoutArgon2")
     /\ startups' = startups \cup {Len(checks')}
     /\ awaits' = [awaits EXCEPT ![c] = Len(checks')]
     /\ UNCHANGED race

(* requireIdle(): the slot is taken; BUSY changes nothing, and the page    *)
(* may call again.                                                         *)
Busy(c) ==
  /\ c \in Holders /\ call[c] = "idle" /\ slot # NoCall
  /\ UNCHANGED vars

(* A long call takes the slot while it waits (after); a quick one waits    *)
(* without it.                                                             *)
Waits(c) ==
  /\ call[c] = "idle" /\ c \notin SelfTests
  /\ c \in Long => slot = NoCall
  /\ Require(c)
  /\ slot' = IF c \in Long THEN c ELSE slot
  /\ call' = [call EXCEPT ![c] = "waiting"]
  /\ UNCHANGED <<page, failed, stopped, result>>

(* selfTest() starts its job at once (#begin, not gated).                  *)
SelfTestStarts(c) ==
  /\ call[c] = "idle" /\ c \in SelfTests /\ slot = NoCall
  /\ slot' = c /\ call' = [call EXCEPT ![c] = "running"]
  /\ UNCHANGED <<gate, wait, result>>

JudgesSlip(k) == IF checks[k].ended = "none" THEN "NO_REPORT"
                 ELSE IF checks[k].ended = "failed" THEN "SELF_CHECK_FAILED" ELSE "ready"

(* What require() makes of the report of k, or of another check that has   *)
(* failed meanwhile (AUD-014-SEC001).                                      *)
Judges(k) ==
  IF checks[k].ended = "none" THEN "NO_REPORT"
  ELSE IF checks[k].ended = "failed" \/ failed # Open THEN "SELF_CHECK_FAILED"
  ELSE "ready"

RequiredSlip(c) ==
  /\ call[c] = "waiting" /\ race[c] = "open" /\ Reported(c)
  /\ Judges(awaits[c]) = "ready"
  /\ race' = [race EXCEPT ![c] = "ready"]
  /\ UNCHANGED <<gate, slot, call, awaits, stopped, result>>

(* The continuation of require() settles the race, unless cancel() has.    *)
Required(c) ==
  /\ call[c] = "waiting" /\ race[c] = "open" /\ Reported(c)
  /\ race' = [race EXCEPT ![c] = Judges(awaits[c])]
  /\ UNCHANGED <<gate, slot, call, awaits, stopped, result>>

(* cancel() of a job frees the slot at once; cancel() of a wait is taken   *)
(* up by its continuation.                                                 *)
Cancel ==
  /\ slot # NoCall
  /\ \/ /\ call[slot] = "running"
        /\ Settle(slot, "CANCELLED") /\ slot' = NoCall
        /\ UNCHANGED stopped
     \/ /\ call[slot] = "waiting"
        /\ stopped' = stopped \cup {slot}
        /\ race' = [race EXCEPT ![slot] = IF @ = "open" THEN "CANCELLED" ELSE @]
        /\ UNCHANGED <<slot, call, awaits, result>>
  /\ UNCHANGED gate

MayBeginSlip(c) == race[c] = "ready"
(* A cancel() after the check settled and before this went on counts too.  *)
MayBegin(c) == race[c] = "ready" /\ c \notin stopped

(* The job takes over the slot with nothing in between.                    *)
Begins(c) ==
  /\ call[c] = "waiting" /\ MayBegin(c)
  /\ call' = [call EXCEPT ![c] = "running"]
  /\ awaits' = [awaits EXCEPT ![c] = 0] /\ race' = [race EXCEPT ![c] = "open"]
  /\ UNCHANGED <<gate, slot, stopped, result>>

LeaveSlip(c) == slot
Leave(c) == IF slot = c THEN NoCall ELSE slot

(* The wait ends without a job: the check refused, cancel() came, or a     *)
(* secret cannot be encoded.                                               *)
WaitEnds(c) ==
  /\ call[c] = "waiting" /\ race[c] # "open"
  /\ Settle(c, IF race[c] \in Refusals THEN race[c]
               ELSE IF MayBegin(c) THEN "REFUSED" ELSE "CANCELLED")
  /\ slot' = Leave(c)
  /\ UNCHANGED <<gate, stopped>>

(* The job of c ends, with a result or an error (WorkerJob.stop, onEnd).   *)
JobEnds(c) ==
  /\ call[c] = "running"
  /\ Settle(c, "done") /\ slot' = Leave(c)
  /\ UNCHANGED <<gate, stopped>>

Next ==
  \/ StartupCheck \/ FullCheck \/ PartFails \/ CheckSettles \/ Cancel
  \/ \E c \in Calls : \/ Busy(c) \/ Waits(c) \/ SelfTestStarts(c)
                      \/ Required(c) \/ Begins(c) \/ WaitEnds(c) \/ JobEnds(c)

(* Continuations run; a check and a job settle, as WorkerJob's Settles     *)
(* says.  Nothing is assumed of what the page calls.                       *)
Fairness ==
  /\ WF_vars(CheckSettles)
  /\ \A c \in Calls : WF_vars(Required(c)) /\ WF_vars(Begins(c) \/ WaitEnds(c))
                      /\ WF_vars(JobEnds(c))

Spec == Init /\ [][Next]_vars
FairSpec == Spec /\ Fairness

-----------------------------------------------------------------------------
(* Properties.                                                             *)

(* The slot belongs to exactly the call that waits or runs with it: two    *)
(* long calls never overlap, also not while one takes over from its wait,  *)
(* and no way of ending leaves the class BUSY.                             *)
OneAtATime ==
  \A c \in Calls : c \in Holders /\ call[c] \in {"waiting", "running"} <=> slot = c

(* "Secrets are copied into bytes only after the check has passed", and    *)
(* never once any part has failed, in this check or in another that ran    *)
(* meanwhile (BROWSER-PACKAGE.md; require, AUD-014-SEC001).                *)
NothingBeginsUnchecked ==
  [][\A c \in Long \cup Quick :
       call[c] = "waiting" /\ call'[c] = "running"
       => /\ failed = Open
          /\ \E k \in DOMAIN checks : checks[k].ended \in {"passed", "limited"}]_vars

(* Any failed part closes the class, also one whose worker died before its *)
(* report, and the whole report takes the part's place once there is one.  *)
FailureCloses ==
  /\ (\E k \in DOMAIN checks : checks[k].part = "failed" \/ checks[k].ended = "failed")
     => failed # Open
  /\ \A k \in DOMAIN checks : failed = PartOf(k) => checks[k].ended # "failed"

(* A cancelled wait never becomes an operation.                            *)
CancelledNeverRuns ==
  \A c \in stopped : call[c] # "running" /\ result[c] # "done"

(* A class that failed stays closed, and a call that was cancelled ended.  *)
WhatEndedStaysEnded == FailureCloses /\ CancelledNeverRuns

(* A call never waits for a report that is known to be missing or limited: *)
(* "the check is tried again at the next call".                            *)
ChecksAgain ==
  [][\A c \in Calls :
       call[c] = "idle" /\ call'[c] = "waiting" /\ failed = Open
       => checks'[awaits'[c]].ended \in {"running", "passed"}]_vars

(* Every call settles, one that waits for a check that it shares with a    *)
(* cancelled call too; by OneAtATime the slot comes free with it.          *)
EveryCallSettles ==
  \A c \in Calls : call[c] \in {"waiting", "running"} ~> call[c] = "settled"
=============================================================================
