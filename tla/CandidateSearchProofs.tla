----------------------- MODULE CandidateSearchProofs -----------------------
(***************************************************************************)
(* Proofs about CandidateSearch, for every number of candidates and every  *)
(* set of threads: the answer is the lowest match, no comparison begins    *)
(* twice, `done` counts those that are over, and a search that was         *)
(* stopped gives none.                                                     *)
(***************************************************************************)
EXTENDS CandidateSearch, FiniteSetTheorems, TLAPS

Pending(w) == pc[w] \in {"comparing", "matching", "failing", "keeping"}

(* A candidate under comparison was taken, by one worker.                  *)
Taken ==
  \A w \in Workers : Busy(w) =>
    /\ index[w] < next
    /\ \A v \in Workers : (v # w /\ Busy(v)) => index[v] # index[w]

(* Every candidate taken was found wrong, or a match at or before it is    *)
(* kept, or the search was stopped, or it is still under comparison.       *)
Judged(k) ==
  \/ outcome[k] = "other"
  \/ outcome[k] = "match" /\ matched # None /\ matched <= k
  \/ failure # None \/ cancelled
  \/ \E w \in Workers : Pending(w) /\ index[w] = k
AllJudged == \A k \in Candidates : k < next => Judged(k)

(* What is kept was found, and what a thread is about to keep or to set    *)
(* has its reason.                                                         *)
KeptIsFound ==
  /\ matched # None => outcome[matched] = "match" /\ matched < next
  /\ failure \in Candidates => outcome[failure] = "error"
  /\ \A w \in Workers :
       /\ pc[w] = "matching" => outcome[index[w]] = "match"
       /\ pc[w] \in {"failing", "keeping"} => outcome[index[w]] = "error"

(* Nobody stops taking candidates without a reason.                        *)
StopHasReason ==
  /\ stop => matched # None \/ abort
  /\ abort => failure # None \/ cancelled
  /\ \A w \in Workers :
       /\ pc[w] = "stopping" => matched # None
       /\ pc[w] = "aborting" => failure # None
       /\ pc[w] = "ending" => abort
       /\ pc[w] \in {"leaving", "gone"} => stop \/ next >= Count
  /\ main = "aborting" => failure # None \/ cancelled
  /\ main = "ending" => abort

(* The calling thread concludes after every worker it was granted is gone, *)
(* and compares in turn when it was granted none.                          *)
MainFollows ==
  /\ main # "spawning" => \A w \in Workers : pc[w] # "unasked"
  /\ main \in {"joined", "last", "returned"} =>
       \A w \in Workers : pc[w] \in {"refused", "gone"}
  /\ main \in {"joined", "last"} => \E w \in Workers : pc[w] = "gone"
  /\ main \in {"waiting", "slept", "asking", "cancelling", "blaming", "aborting", "ending"} =>
       \E w \in Workers : pc[w] # "refused"
  /\ main \in {"comparing", "reporting"} =>
       /\ \A w \in Workers : pc[w] = "refused"
       /\ ~cancelled /\ failure = None
       /\ \A k \in Candidates : k < turn => outcome[k] = "other"
  /\ main = "spawning" => turn = 0 /\ ~cancelled /\ failure # Caller
  /\ (\A w \in Workers : pc[w] \in {"unasked", "refused"}) => failure = None /\ ~cancelled
  /\ main = "reporting" => turn < Count /\ outcome[turn] # "error"
  /\ main = "last" => matched = None /\ failure = None /\ ~cancelled

(* The caller's own stop keeps it from being asked.                        *)
Silenced ==
  (cancelled \/ failure = Caller) =>
    /\ main \in {"aborting", "ending", "waiting", "slept", "joined", "returned"}
    /\ main \in {"waiting", "slept"} => abort

ResultIsRight ==
  /\ result.is # "running" => main = "returned"
  /\ LowestMatchWins /\ StoppedGivesNothing

IInv ==
  /\ TypeOK /\ Taken /\ AllJudged /\ KeptIsFound /\ StopHasReason
  /\ MainFollows /\ Silenced /\ ResultIsRight

-----------------------------------------------------------------------------
(* The initial states.                                                     *)
LEMMA InitIInv == Init => IInv
<1> SUFFICES ASSUME Init PROVE IInv
  OBVIOUS
<1> USE CountAssumption, WorkersAssumption, NoneAssumption DEF Init, Candidates
<1>1. TypeOK
  BY DEF TypeOK, Busy, WorkerPlaces, MainPlaces
<1>2. Taken /\ AllJudged /\ KeptIsFound /\ StopHasReason
  BY DEF Taken, AllJudged, KeptIsFound, StopHasReason, Busy
<1>3. MainFollows /\ Silenced /\ ResultIsRight
  BY DEF MainFollows, Silenced, ResultIsRight, LowestMatchWins, StoppedGivesNothing, Running
<1> QED
  BY <1>1, <1>2, <1>3 DEF IInv

(* A worker looks at stop.                                                 *)
LEMMA WorkerLooksStep == ASSUME IInv, NEW w \in Workers, WorkerLooks(w) PROVE IInv'
<1> USE CountAssumption, WorkersAssumption, NoneAssumption
      DEF IInv, WorkerLooks, Goes, CallerKeeps, shared
<1>1. TypeOK'
  BY DEF TypeOK, WorkerPlaces, Busy, Candidates, KeptIsFound
<1>2. Taken'
  BY DEF Taken, TypeOK, Busy, Candidates
<1>3. AllJudged'
  BY DEF AllJudged, Judged, Pending, TypeOK, Candidates, Taken, KeptIsFound, StopHasReason, Busy
<1>4. KeptIsFound'
  BY DEF KeptIsFound, TypeOK, Taken, Busy, Candidates
<1>5. StopHasReason'
  BY DEF StopHasReason, TypeOK, Busy, Candidates
<1>6. MainFollows'
  BY DEF MainFollows, TypeOK
<1>7. Silenced'
  BY DEF Silenced, MainFollows, TypeOK, Busy, Candidates
<1>8. ResultIsRight'
  BY DEF ResultIsRight, LowestMatchWins, StoppedGivesNothing, MainFollows, TypeOK, Candidates
<1> QED
  BY <1>1, <1>2, <1>3, <1>4, <1>5, <1>6, <1>7, <1>8

(* A worker takes the next candidate: every one before it was taken.       *)
LEMMA WorkerTakesStep == ASSUME IInv, NEW w \in Workers, WorkerTakes(w) PROVE IInv'
<1> USE CountAssumption, WorkersAssumption, NoneAssumption
      DEF IInv, WorkerTakes, Goes, CallerKeeps, shared
<1>1. TypeOK'
  <2>1. begun' \in [Candidates -> Nat]
    BY DEF TypeOK, Begins, Candidates
  <2> QED
    BY <2>1 DEF TypeOK, WorkerPlaces, Busy, Candidates, KeptIsFound
<1>2. Taken'
  BY DEF Taken, TypeOK, Busy, Candidates
<1>3. AllJudged'
  BY DEF AllJudged, Judged, Pending, TypeOK, Candidates, Taken, KeptIsFound, StopHasReason, Busy
<1>4. KeptIsFound'
  BY DEF KeptIsFound, TypeOK, Taken, Busy, Candidates
<1>5. StopHasReason'
  BY DEF StopHasReason, TypeOK, Busy, Candidates
<1>6. MainFollows'
  BY DEF MainFollows, TypeOK
<1>7. Silenced'
  BY DEF Silenced, MainFollows, TypeOK, Busy, Candidates
<1>8. ResultIsRight'
  BY DEF ResultIsRight, LowestMatchWins, StoppedGivesNothing, MainFollows, TypeOK, Candidates
<1> QED
  BY <1>1, <1>2, <1>3, <1>4, <1>5, <1>6, <1>7, <1>8

(* A comparison ends, or is abandoned after an abort.                      *)
LEMMA WorkerComparesStep == ASSUME IInv, NEW w \in Workers, WorkerCompares(w) PROVE IInv'
<1> USE CountAssumption, WorkersAssumption, NoneAssumption
      DEF IInv, WorkerCompares, Goes, CallerKeeps, shared
<1>1. TypeOK'
  BY DEF TypeOK, WorkerPlaces, Busy, Candidates, KeptIsFound
<1>2. Taken'
  BY DEF Taken, TypeOK, Busy, Candidates
<1>3. AllJudged'
  BY DEF AllJudged, Judged, Pending, TypeOK, Candidates, Taken, KeptIsFound, StopHasReason, Busy
<1>4. KeptIsFound'
  BY DEF KeptIsFound, TypeOK, Taken, Busy, Candidates
<1>5. StopHasReason'
  BY DEF StopHasReason, TypeOK, Busy, Candidates
<1>6. MainFollows'
  <2>1. PICK place \in {"matching", "counting", "failing"} : Goes(w, place)
    BY DEF TypeOK, Busy
  <2> QED
    BY <2>1 DEF MainFollows, TypeOK
<1>7. Silenced'
  BY DEF Silenced, MainFollows, TypeOK, Busy, Candidates
<1>8. ResultIsRight'
  BY DEF ResultIsRight, LowestMatchWins, StoppedGivesNothing, MainFollows, TypeOK, Candidates
<1> QED
  BY <1>1, <1>2, <1>3, <1>4, <1>5, <1>6, <1>7, <1>8

(* A match is kept if it is the lowest so far.                             *)
LEMMA WorkerKeepsMatchStep == ASSUME IInv, NEW w \in Workers, WorkerKeepsMatch(w) PROVE IInv'
<1> USE CountAssumption, WorkersAssumption, NoneAssumption
      DEF IInv, WorkerKeepsMatch, Better, Goes, CallerKeeps, shared
<1>1. TypeOK'
  BY DEF TypeOK, WorkerPlaces, Busy, Candidates, KeptIsFound
<1>2. Taken'
  BY DEF Taken, TypeOK, Busy, Candidates
<1>3. AllJudged'
  BY DEF AllJudged, Judged, Pending, TypeOK, Candidates, Taken, KeptIsFound, StopHasReason, Busy
<1>4. KeptIsFound'
  BY DEF KeptIsFound, TypeOK, Taken, Busy, Candidates
<1>5. StopHasReason'
  BY DEF StopHasReason, TypeOK, Busy, Candidates
<1>6. MainFollows'
  BY DEF MainFollows, TypeOK
<1>7. Silenced'
  BY DEF Silenced, MainFollows, TypeOK, Busy, Candidates
<1>8. ResultIsRight'
  BY DEF ResultIsRight, LowestMatchWins, StoppedGivesNothing, MainFollows, TypeOK, Candidates
<1> QED
  BY <1>1, <1>2, <1>3, <1>4, <1>5, <1>6, <1>7, <1>8

(* A worker stops the others.                                              *)
LEMMA WorkerStopsStep == ASSUME IInv, NEW w \in Workers, WorkerStops(w) PROVE IInv'
<1> USE CountAssumption, WorkersAssumption, NoneAssumption
      DEF IInv, WorkerStops, Goes, CallerKeeps, shared
<1>1. TypeOK'
  BY DEF TypeOK, WorkerPlaces, Busy, Candidates, KeptIsFound
<1>2. Taken'
  BY DEF Taken, TypeOK, Busy, Candidates
<1>3. AllJudged'
  BY DEF AllJudged, Judged, Pending, TypeOK, Candidates, Taken, KeptIsFound, StopHasReason, Busy
<1>4. KeptIsFound'
  BY DEF KeptIsFound, TypeOK, Taken, Busy, Candidates
<1>5. StopHasReason'
  BY DEF StopHasReason, TypeOK, Busy, Candidates
<1>6. MainFollows'
  BY DEF MainFollows, TypeOK
<1>7. Silenced'
  BY DEF Silenced, MainFollows, TypeOK, Busy, Candidates
<1>8. ResultIsRight'
  BY DEF ResultIsRight, LowestMatchWins, StoppedGivesNothing, MainFollows, TypeOK, Candidates
<1> QED
  BY <1>1, <1>2, <1>3, <1>4, <1>5, <1>6, <1>7, <1>8

(* A comparison failed.                                                    *)
LEMMA WorkerFailsStep == ASSUME IInv, NEW w \in Workers, WorkerFails(w) PROVE IInv'
<1> USE CountAssumption, WorkersAssumption, NoneAssumption
      DEF IInv, WorkerFails, Goes, CallerKeeps, shared
<1>1. TypeOK'
  BY DEF TypeOK, WorkerPlaces, Busy, Candidates, KeptIsFound
<1>2. Taken'
  BY DEF Taken, TypeOK, Busy, Candidates
<1>3. AllJudged'
  BY DEF AllJudged, Judged, Pending, TypeOK, Candidates, Taken, KeptIsFound, StopHasReason, Busy
<1>4. KeptIsFound'
  BY DEF KeptIsFound, TypeOK, Taken, Busy, Candidates
<1>5. StopHasReason'
  BY DEF StopHasReason, TypeOK, Busy, Candidates
<1>6. MainFollows'
  BY DEF MainFollows, TypeOK
<1>7. Silenced'
  BY DEF Silenced, MainFollows, TypeOK, Busy, Candidates
<1>8. ResultIsRight'
  BY DEF ResultIsRight, LowestMatchWins, StoppedGivesNothing, MainFollows, TypeOK, Candidates
<1> QED
  BY <1>1, <1>2, <1>3, <1>4, <1>5, <1>6, <1>7, <1>8

(* An error is kept.                                                       *)
LEMMA WorkerKeepsErrorStep == ASSUME IInv, NEW w \in Workers, WorkerKeepsError(w) PROVE IInv'
<1> USE CountAssumption, WorkersAssumption, NoneAssumption
      DEF IInv, WorkerKeepsError, Goes, CallerKeeps, shared
<1>1. TypeOK'
  BY DEF TypeOK, WorkerPlaces, Busy, Candidates, KeptIsFound
<1>2. Taken'
  BY DEF Taken, TypeOK, Busy, Candidates
<1>3. AllJudged'
  BY DEF AllJudged, Judged, Pending, TypeOK, Candidates, Taken, KeptIsFound, StopHasReason, Busy
<1>4. KeptIsFound'
  BY DEF KeptIsFound, TypeOK, Taken, Busy, Candidates
<1>5. StopHasReason'
  BY DEF StopHasReason, TypeOK, Busy, Candidates
<1>6. MainFollows'
  BY DEF MainFollows, TypeOK
<1>7. Silenced'
  BY DEF Silenced, MainFollows, TypeOK, Busy, Candidates
<1>8. ResultIsRight'
  BY DEF ResultIsRight, LowestMatchWins, StoppedGivesNothing, MainFollows, TypeOK, Candidates
<1> QED
  BY <1>1, <1>2, <1>3, <1>4, <1>5, <1>6, <1>7, <1>8

(* An error ends the comparisons under way.                                *)
LEMMA WorkerAbortsStep == ASSUME IInv, NEW w \in Workers, WorkerAborts(w) PROVE IInv'
<1> USE CountAssumption, WorkersAssumption, NoneAssumption
      DEF IInv, WorkerAborts, Goes, CallerKeeps, shared
<1>1. TypeOK'
  BY DEF TypeOK, WorkerPlaces, Busy, Candidates, KeptIsFound
<1>2. Taken'
  BY DEF Taken, TypeOK, Busy, Candidates
<1>3. AllJudged'
  BY DEF AllJudged, Judged, Pending, TypeOK, Candidates, Taken, KeptIsFound, StopHasReason, Busy
<1>4. KeptIsFound'
  BY DEF KeptIsFound, TypeOK, Taken, Busy, Candidates
<1>5. StopHasReason'
  BY DEF StopHasReason, TypeOK, Busy, Candidates
<1>6. MainFollows'
  BY DEF MainFollows, TypeOK
<1>7. Silenced'
  BY DEF Silenced, MainFollows, TypeOK, Busy, Candidates
<1>8. ResultIsRight'
  BY DEF ResultIsRight, LowestMatchWins, StoppedGivesNothing, MainFollows, TypeOK, Candidates
<1> QED
  BY <1>1, <1>2, <1>3, <1>4, <1>5, <1>6, <1>7, <1>8

(* A candidate is done.                                                    *)
LEMMA WorkerCountsStep == ASSUME IInv, NEW w \in Workers, WorkerCounts(w) PROVE IInv'
<1> USE CountAssumption, WorkersAssumption, NoneAssumption
      DEF IInv, WorkerCounts, Goes, CallerKeeps, shared
<1>1. TypeOK'
  BY DEF TypeOK, WorkerPlaces, Busy, Candidates, KeptIsFound
<1>2. Taken'
  BY DEF Taken, TypeOK, Busy, Candidates
<1>3. AllJudged'
  BY DEF AllJudged, Judged, Pending, TypeOK, Candidates, Taken, KeptIsFound, StopHasReason, Busy
<1>4. KeptIsFound'
  BY DEF KeptIsFound, TypeOK, Taken, Busy, Candidates
<1>5. StopHasReason'
  BY DEF StopHasReason, TypeOK, Busy, Candidates
<1>6. MainFollows'
  BY DEF MainFollows, TypeOK
<1>7. Silenced'
  BY DEF Silenced, MainFollows, TypeOK, Busy, Candidates
<1>8. ResultIsRight'
  BY DEF ResultIsRight, LowestMatchWins, StoppedGivesNothing, MainFollows, TypeOK, Candidates
<1> QED
  BY <1>1, <1>2, <1>3, <1>4, <1>5, <1>6, <1>7, <1>8

(* A worker leaves.                                                        *)
LEMMA WorkerLeavesStep == ASSUME IInv, NEW w \in Workers, WorkerLeaves(w) PROVE IInv'
<1> USE CountAssumption, WorkersAssumption, NoneAssumption
      DEF IInv, WorkerLeaves, Goes, CallerKeeps, shared
<1>1. TypeOK'
  BY DEF TypeOK, WorkerPlaces, Busy, Candidates, KeptIsFound
<1>2. Taken'
  BY DEF Taken, TypeOK, Busy, Candidates
<1>3. AllJudged'
  BY DEF AllJudged, Judged, Pending, TypeOK, Candidates, Taken, KeptIsFound, StopHasReason, Busy
<1>4. KeptIsFound'
  BY DEF KeptIsFound, TypeOK, Taken, Busy, Candidates
<1>5. StopHasReason'
  BY DEF StopHasReason, TypeOK, Busy, Candidates
<1>6. MainFollows'
  BY DEF MainFollows, TypeOK
<1>7. Silenced'
  BY DEF Silenced, MainFollows, TypeOK, Busy, Candidates
<1>8. ResultIsRight'
  BY DEF ResultIsRight, LowestMatchWins, StoppedGivesNothing, MainFollows, TypeOK, Candidates
<1> QED
  BY <1>1, <1>2, <1>3, <1>4, <1>5, <1>6, <1>7, <1>8

(* A thread is granted or refused.                                         *)
LEMMA SpawnStep == ASSUME IInv, NEW w \in Workers, Spawn(w) PROVE IInv'
<1> USE CountAssumption, WorkersAssumption, NoneAssumption
      DEF IInv, Spawn, Goes, shared
<1>1. TypeOK'
  BY DEF TypeOK, WorkerPlaces, MainPlaces, Busy, Candidates
<1>2. Taken' /\ AllJudged'
  BY DEF Taken, AllJudged, Judged, Pending, TypeOK, Busy, Candidates
<1>3. KeptIsFound'
  BY DEF KeptIsFound, TypeOK, Candidates
<1>4. StopHasReason'
  BY DEF StopHasReason, TypeOK
<1>5. MainFollows'
  BY DEF MainFollows, TypeOK, Candidates, WorkerPlaces
<1>6. Silenced'
  BY DEF Silenced, MainFollows, TypeOK, Candidates
<1>7. ResultIsRight'
  BY DEF ResultIsRight, LowestMatchWins, StoppedGivesNothing, MainFollows, TypeOK, Candidates
<1> QED
  BY <1>1, <1>2, <1>3, <1>4, <1>5, <1>6, <1>7

(* Every thread was asked for.                                             *)
LEMMA SpawnedStep == ASSUME IInv, Spawned PROVE IInv'
<1> USE CountAssumption, WorkersAssumption, NoneAssumption
      DEF IInv, Spawned, Asked, Granted, shared
<1>1. TypeOK'
  BY DEF TypeOK, WorkerPlaces, MainPlaces, Busy, Candidates
<1>2. Taken' /\ AllJudged'
  BY DEF Taken, AllJudged, Judged, Pending, TypeOK, Busy, Candidates
<1>3. KeptIsFound'
  BY DEF KeptIsFound, TypeOK, Candidates
<1>4. StopHasReason'
  BY DEF StopHasReason, TypeOK
<1>5. MainFollows'
  <2>1. \A w \in Workers : pc[w] # "unasked"
    OBVIOUS
  <2>2. CASE Granted = {}
    <3>1. \A w \in Workers : pc[w] = "refused"
      BY <2>1, <2>2
    <3> QED
      BY <2>1, <2>2, <3>1 DEF MainFollows, TypeOK, Candidates
  <2>3. CASE Granted # {}
    <3>1. \E w \in Workers : pc[w] # "refused"
      BY <2>3
    <3> QED
      BY <2>1, <2>3, <3>1 DEF MainFollows
  <2> QED
    BY <2>2, <2>3
<1>6. Silenced'
  BY DEF Silenced, MainFollows, TypeOK, Candidates
<1>7. ResultIsRight'
  BY DEF ResultIsRight, LowestMatchWins, StoppedGivesNothing, MainFollows, TypeOK, Candidates
<1> QED
  BY <1>1, <1>2, <1>3, <1>4, <1>5, <1>6, <1>7

(* The calling thread looks for its workers.                               *)
LEMMA WaitsStep == ASSUME IInv, Waits PROVE IInv'
<1> USE CountAssumption, WorkersAssumption, NoneAssumption
      DEF IInv, Waits, Gone, Granted, WorkersKeep
<1>1. TypeOK'
  BY DEF TypeOK, WorkerPlaces, MainPlaces, Busy, Candidates
<1>2. Taken' /\ AllJudged'
  BY DEF Taken, AllJudged, Judged, Pending, TypeOK, Busy, Candidates
<1>3. KeptIsFound'
  BY DEF KeptIsFound, TypeOK, Candidates
<1>4. StopHasReason'
  BY DEF StopHasReason, TypeOK
<1>5. MainFollows'
  BY DEF MainFollows, TypeOK, Candidates, WorkerPlaces
<1>6. Silenced'
  BY DEF Silenced, MainFollows, TypeOK, Candidates
<1>7. ResultIsRight'
  BY DEF ResultIsRight, LowestMatchWins, StoppedGivesNothing, MainFollows, TypeOK, Candidates
<1> QED
  BY <1>1, <1>2, <1>3, <1>4, <1>5, <1>6, <1>7

(* The calling thread looks for an abort.                                  *)
LEMMA WakesStep == ASSUME IInv, Wakes PROVE IInv'
<1> USE CountAssumption, WorkersAssumption, NoneAssumption
      DEF IInv, Wakes, WorkersKeep
<1>1. TypeOK'
  BY DEF TypeOK, WorkerPlaces, MainPlaces, Busy, Candidates
<1>2. Taken' /\ AllJudged'
  BY DEF Taken, AllJudged, Judged, Pending, TypeOK, Busy, Candidates
<1>3. KeptIsFound'
  BY DEF KeptIsFound, TypeOK, Candidates
<1>4. StopHasReason'
  BY DEF StopHasReason, TypeOK
<1>5. MainFollows'
  BY DEF MainFollows, TypeOK, Candidates, WorkerPlaces
<1>6. Silenced'
  BY DEF Silenced, MainFollows, TypeOK, Candidates
<1>7. ResultIsRight'
  BY DEF ResultIsRight, LowestMatchWins, StoppedGivesNothing, MainFollows, TypeOK, Candidates
<1> QED
  BY <1>1, <1>2, <1>3, <1>4, <1>5, <1>6, <1>7

(* The caller is told and answers.                                         *)
LEMMA AsksCallerStep == ASSUME IInv, AsksCaller PROVE IInv'
<1> USE CountAssumption, WorkersAssumption, NoneAssumption
      DEF IInv, AsksCaller, Progress, WorkersKeep
<1>1. TypeOK'
  BY DEF TypeOK, WorkerPlaces, MainPlaces, Busy, Candidates
<1>2. Taken' /\ AllJudged'
  BY DEF Taken, AllJudged, Judged, Pending, TypeOK, Busy, Candidates
<1>3. KeptIsFound'
  BY DEF KeptIsFound, TypeOK, Candidates
<1>4. StopHasReason'
  BY DEF StopHasReason, TypeOK
<1>5. MainFollows'
  BY DEF MainFollows, TypeOK, Candidates, WorkerPlaces
<1>6. Silenced'
  BY DEF Silenced, MainFollows, TypeOK, Candidates
<1>7. ResultIsRight'
  BY DEF ResultIsRight, LowestMatchWins, StoppedGivesNothing, MainFollows, TypeOK, Candidates
<1> QED
  BY <1>1, <1>2, <1>3, <1>4, <1>5, <1>6, <1>7

(* The cancel is kept.                                                     *)
LEMMA CancelsStep == ASSUME IInv, Cancels PROVE IInv'
<1> USE CountAssumption, WorkersAssumption, NoneAssumption
      DEF IInv, Cancels, WorkersKeep
<1>1. TypeOK'
  BY DEF TypeOK, WorkerPlaces, MainPlaces, Busy, Candidates
<1>2. Taken' /\ AllJudged'
  BY DEF Taken, AllJudged, Judged, Pending, TypeOK, Busy, Candidates
<1>3. KeptIsFound'
  BY DEF KeptIsFound, TypeOK, Candidates
<1>4. StopHasReason'
  BY DEF StopHasReason, TypeOK
<1>5. MainFollows'
  BY DEF MainFollows, TypeOK, Candidates, WorkerPlaces
<1>6. Silenced'
  BY DEF Silenced, MainFollows, TypeOK, Candidates
<1>7. ResultIsRight'
  BY DEF ResultIsRight, LowestMatchWins, StoppedGivesNothing, MainFollows, TypeOK, Candidates
<1> QED
  BY <1>1, <1>2, <1>3, <1>4, <1>5, <1>6, <1>7

(* The caller's error is kept.                                             *)
LEMMA KeepsCallersErrorStep == ASSUME IInv, KeepsCallersError PROVE IInv'
<1> USE CountAssumption, WorkersAssumption, NoneAssumption
      DEF IInv, KeepsCallersError, WorkersKeep
<1>1. TypeOK'
  BY DEF TypeOK, WorkerPlaces, MainPlaces, Busy, Candidates
<1>2. Taken' /\ AllJudged'
  BY DEF Taken, AllJudged, Judged, Pending, TypeOK, Busy, Candidates
<1>3. KeptIsFound'
  BY DEF KeptIsFound, TypeOK, Candidates
<1>4. StopHasReason'
  BY DEF StopHasReason, TypeOK
<1>5. MainFollows'
  BY DEF MainFollows, TypeOK, Candidates, WorkerPlaces
<1>6. Silenced'
  BY DEF Silenced, MainFollows, TypeOK, Candidates
<1>7. ResultIsRight'
  BY DEF ResultIsRight, LowestMatchWins, StoppedGivesNothing, MainFollows, TypeOK, Candidates
<1> QED
  BY <1>1, <1>2, <1>3, <1>4, <1>5, <1>6, <1>7

(* The calling thread ends the comparisons under way.                      *)
LEMMA AbortsStep == ASSUME IInv, Aborts PROVE IInv'
<1> USE CountAssumption, WorkersAssumption, NoneAssumption
      DEF IInv, Aborts, WorkersKeep
<1>1. TypeOK'
  BY DEF TypeOK, WorkerPlaces, MainPlaces, Busy, Candidates
<1>2. Taken' /\ AllJudged'
  BY DEF Taken, AllJudged, Judged, Pending, TypeOK, Busy, Candidates
<1>3. KeptIsFound'
  BY DEF KeptIsFound, TypeOK, Candidates
<1>4. StopHasReason'
  BY DEF StopHasReason, TypeOK
<1>5. MainFollows'
  BY DEF MainFollows, TypeOK, Candidates, WorkerPlaces
<1>6. Silenced'
  BY DEF Silenced, MainFollows, TypeOK, Candidates
<1>7. ResultIsRight'
  BY DEF ResultIsRight, LowestMatchWins, StoppedGivesNothing, MainFollows, TypeOK, Candidates
<1> QED
  BY <1>1, <1>2, <1>3, <1>4, <1>5, <1>6, <1>7

(* The calling thread stops the workers.                                   *)
LEMMA StopsStep == ASSUME IInv, Stops PROVE IInv'
<1> USE CountAssumption, WorkersAssumption, NoneAssumption
      DEF IInv, Stops, WorkersKeep
<1>1. TypeOK'
  BY DEF TypeOK, WorkerPlaces, MainPlaces, Busy, Candidates
<1>2. Taken' /\ AllJudged'
  BY DEF Taken, AllJudged, Judged, Pending, TypeOK, Busy, Candidates
<1>3. KeptIsFound'
  BY DEF KeptIsFound, TypeOK, Candidates
<1>4. StopHasReason'
  BY DEF StopHasReason, TypeOK
<1>5. MainFollows'
  BY DEF MainFollows, TypeOK, Candidates, WorkerPlaces
<1>6. Silenced'
  BY DEF Silenced, StopHasReason, MainFollows, TypeOK, Candidates
<1>7. ResultIsRight'
  BY DEF ResultIsRight, LowestMatchWins, StoppedGivesNothing, MainFollows, TypeOK, Candidates
<1> QED
  BY <1>1, <1>2, <1>3, <1>4, <1>5, <1>6, <1>7

(* The workers are gone: the answer is what they kept.                     *)
LEMMA ConcludesStep == ASSUME IInv, Concludes PROVE IInv'
<1> USE CountAssumption, WorkersAssumption, NoneAssumption
      DEF IInv, Concludes, Returns, WorkersKeep
<1>1. TypeOK'
  BY DEF TypeOK, WorkerPlaces, MainPlaces, Busy, Candidates, Results, Found, NotFound, Cancelled, Failed, MainFollows
<1>2. Taken' /\ AllJudged'
  BY DEF Taken, AllJudged, Judged, Pending, TypeOK, Busy, Candidates
<1>3. KeptIsFound'
  BY DEF KeptIsFound, TypeOK, Candidates
<1>4. StopHasReason'
  BY DEF StopHasReason, TypeOK
<1>5. MainFollows'
  BY DEF MainFollows, TypeOK, Candidates, WorkerPlaces
<1>6. Silenced'
  BY DEF Silenced, MainFollows, TypeOK, Candidates
<1>7. ResultIsRight'
  <2>1. CASE failure # None
    BY <2>1 DEF ResultIsRight, LowestMatchWins, StoppedGivesNothing, TypeOK, KeptIsFound, Failed, Running
  <2>2. CASE failure = None /\ cancelled
    BY <2>2 DEF ResultIsRight, LowestMatchWins, StoppedGivesNothing, TypeOK, Cancelled
  <2>3. CASE failure = None /\ ~cancelled /\ matched # None
    <3>1. result' = Found(matched) /\ main' = "returned"
      BY <2>3
    <3>2. outcome[matched] = "match" /\ matched < next /\ matched \in Int /\ next \in Int
      BY <2>3 DEF KeptIsFound, TypeOK, Candidates
    <3>3. ASSUME NEW k \in Candidates, k < matched PROVE outcome[k] = "other"
      <4>1. Judged(k)
        BY <3>2, <3>3 DEF AllJudged, Candidates
      <4>2. \A w \in Workers : ~Pending(w)
        BY DEF MainFollows, Pending
      <4>3. ~(matched <= k)
        BY <3>2, <3>3 DEF Candidates
      <4> QED
        BY <2>3, <4>1, <4>2, <4>3 DEF Judged
    <3>4. outcome' = outcome /\ failure' = failure /\ cancelled' = cancelled
      OBVIOUS
    <3> QED
      BY <2>3, <3>1, <3>2, <3>3, <3>4 DEF ResultIsRight, LowestMatchWins, StoppedGivesNothing, Found
  <2>4. CASE failure = None /\ ~cancelled /\ matched = None
    BY <2>4 DEF ResultIsRight, LowestMatchWins, StoppedGivesNothing
  <2> QED
    BY <2>1, <2>2, <2>3, <2>4
<1> QED
  BY <1>1, <1>2, <1>3, <1>4, <1>5, <1>6, <1>7

(* Nothing matched, and every candidate was compared.                      *)
LEMMA LastReportStep == ASSUME IInv, LastReport PROVE IInv'
<1> USE CountAssumption, WorkersAssumption, NoneAssumption
      DEF IInv, LastReport, Returns, WorkersKeep
<1>1. TypeOK'
  BY DEF TypeOK, WorkerPlaces, MainPlaces, Busy, Candidates, Results, Found, NotFound, Cancelled, Failed, MainFollows
<1>2. Taken' /\ AllJudged'
  BY DEF Taken, AllJudged, Judged, Pending, TypeOK, Busy, Candidates
<1>3. KeptIsFound'
  BY DEF KeptIsFound, TypeOK, Candidates
<1>4. StopHasReason'
  BY DEF StopHasReason, TypeOK
<1>5. MainFollows'
  BY DEF MainFollows, TypeOK, Candidates, WorkerPlaces
<1>6. Silenced'
  BY DEF Silenced, MainFollows, TypeOK, Candidates
<1>7. ResultIsRight'
  <2>1. ASSUME NEW k \in Candidates PROVE outcome[k] = "other"
    <3>1. PICK w \in Workers : pc[w] = "gone"
      BY DEF MainFollows
    <3>2. next >= Count
      BY <3>1 DEF StopHasReason, MainFollows
    <3>3. Judged(k)
      BY <3>2 DEF AllJudged, Candidates, TypeOK
    <3>4. \A v \in Workers : ~Pending(v)
      BY DEF MainFollows, Pending
    <3> QED
      BY <3>3, <3>4 DEF Judged, MainFollows
  <2>2. PICK r \in {NotFound, Cancelled, Failed(Caller)} : Returns(r)
    OBVIOUS
  <2>3. r.is \in {"notFound", "cancelled", "failed"}
    BY <2>2 DEF NotFound, Cancelled, Failed
  <2> QED
    BY <2>1, <2>2, <2>3 DEF ResultIsRight, LowestMatchWins, StoppedGivesNothing, MainFollows,
       NotFound, Cancelled, Failed
<1> QED
  BY <1>1, <1>2, <1>3, <1>4, <1>5, <1>6, <1>7

(* A candidate is compared in turn.                                        *)
LEMMA ComparesInTurnStep == ASSUME IInv, ComparesInTurn PROVE IInv'
<1> USE CountAssumption, WorkersAssumption, NoneAssumption
      DEF IInv, ComparesInTurn, Returns, shared
<1>1. TypeOK'
  <2>1. begun' \in [Candidates -> Nat]
    BY DEF TypeOK, Begins, Candidates
  <2> QED
    BY <2>1 DEF TypeOK, WorkerPlaces, MainPlaces, Busy, Candidates, Results, Found, NotFound, Cancelled, Failed, MainFollows
<1>2. Taken' /\ AllJudged'
  BY DEF Taken, AllJudged, Judged, Pending, TypeOK, Busy, Candidates
<1>3. KeptIsFound'
  BY DEF KeptIsFound, TypeOK, Candidates
<1>4. StopHasReason'
  BY DEF StopHasReason, TypeOK
<1>5. MainFollows'
  BY DEF MainFollows, TypeOK, Candidates, WorkerPlaces
<1>6. Silenced'
  BY DEF Silenced, MainFollows, TypeOK, Candidates
<1>7. ResultIsRight'
  BY DEF ResultIsRight, LowestMatchWins, StoppedGivesNothing, MainFollows, TypeOK, Candidates, Found, NotFound, Cancelled, Failed, StopHasReason, AllJudged, Judged, Pending, KeptIsFound
<1> QED
  BY <1>1, <1>2, <1>3, <1>4, <1>5, <1>6, <1>7

(* A comparison in turn is reported.                                       *)
LEMMA ReportsInTurnStep == ASSUME IInv, ReportsInTurn PROVE IInv'
<1> USE CountAssumption, WorkersAssumption, NoneAssumption
      DEF IInv, ReportsInTurn, Returns, shared
<1>1. TypeOK'
  <2>1. turn \in Candidates /\ turn' \in Nat /\ shown' \in Nat
    BY DEF TypeOK, MainFollows, Candidates
  <2>2. result' \in Results \cup {Running}
    BY <2>1 DEF TypeOK, Results, Found, NotFound, Cancelled, Failed
  <2>3. main' \in MainPlaces
    BY DEF MainPlaces
  <2> QED
    BY <2>1, <2>2, <2>3 DEF TypeOK, Busy
<1>2. Taken' /\ AllJudged'
  BY DEF Taken, AllJudged, Judged, Pending, TypeOK, Busy, Candidates
<1>3. KeptIsFound'
  BY DEF KeptIsFound, TypeOK, Candidates
<1>4. StopHasReason'
  BY DEF StopHasReason, TypeOK
<1>5. MainFollows'
  BY DEF MainFollows, TypeOK, Candidates, WorkerPlaces
<1>6. Silenced'
  BY DEF Silenced, MainFollows, TypeOK, Candidates
<1>7. ResultIsRight'
  BY DEF ResultIsRight, LowestMatchWins, StoppedGivesNothing, MainFollows, TypeOK, Candidates, Found, NotFound, Cancelled, Failed, StopHasReason, AllJudged, Judged, Pending, KeptIsFound
<1> QED
  BY <1>1, <1>2, <1>3, <1>4, <1>5, <1>6, <1>7

-----------------------------------------------------------------------------
(* IInv is an invariant of the search.                                     *)
THEOREM Invariance == Spec => []IInv
<1>1. ASSUME IInv, [Next]_vars PROVE IInv'
  <2>1. ASSUME NEW w \in Workers, Worker(w) PROVE IInv'
    BY <1>1, <2>1, WorkerLooksStep, WorkerTakesStep, WorkerComparesStep, WorkerKeepsMatchStep, WorkerStopsStep, WorkerFailsStep, WorkerKeepsErrorStep, WorkerAbortsStep, WorkerCountsStep, WorkerLeavesStep
       DEF Worker
  <2>2. ASSUME Main PROVE IInv'
    BY <1>1, <2>2, SpawnStep, SpawnedStep, WaitsStep, WakesStep, AsksCallerStep, CancelsStep, KeepsCallersErrorStep, AbortsStep, StopsStep, ConcludesStep, LastReportStep, ComparesInTurnStep, ReportsInTurnStep
       DEF Main
  <2>3. CASE UNCHANGED vars
    BY <1>1, <2>3 DEF vars, shared, IInv, TypeOK, Taken, AllJudged, Judged, Pending,
       KeptIsFound, StopHasReason, MainFollows, Silenced, ResultIsRight,
       LowestMatchWins, StoppedGivesNothing, Busy
  <2> QED
    BY <1>1, <2>1, <2>2, <2>3 DEF Next
<1> QED
  BY <1>1, InitIInv, PTL DEF Spec

(* Every variable keeps its type.                                          *)
THEOREM TypeCorrect == Spec => []TypeOK
BY Invariance, PTL DEF IInv

(* However the threads run, the answer is the lowest match, or that there  *)
(* is none when there is none.                                             *)
THEOREM LowestMatch == Spec => []LowestMatchWins
<1>1. IInv => LowestMatchWins
  BY DEF IInv, ResultIsRight
<1> QED
  BY <1>1, Invariance, PTL

-----------------------------------------------------------------------------
(* The count of the comparisons.  With threads, or while they are asked    *)
(* for, the candidates whose comparison began are those below `next`, and  *)
(* `done` counts those that are over.  Without threads nothing is taken,   *)
(* and the comparisons in turn began up to `turn`.                         *)
Refused == \A w \in Workers : pc[w] \in {"unasked", "refused"}
BegunBelow(n) == \A i \in Candidates : begun[i] = IF i < n THEN 1 ELSE 0

Counted ==
  /\ \A i \in Candidates : begun[i] <= 1
  /\ Refused => next = 0 /\ done = 0
  /\ (~Refused \/ main = "spawning") => BegunBelow(next) /\ done = Cardinality(Over)
  /\ main = "comparing" => BegunBelow(turn) /\ shown <= turn
  /\ main = "reporting" => BegunBelow(turn + 1) /\ shown <= turn
  /\ shown <= Cardinality(Over)

(* What is over is some of the candidates.                                 *)
LEMMA OverIsFinite == IsFiniteSet(Over) /\ Cardinality(Over) \in Nat
<1>1. IsFiniteSet(0 .. Count - 1)
  BY FS_Interval, CountAssumption
<1>2. Over \subseteq 0 .. Count - 1
  BY DEF Over, Candidates
<1> QED
  BY <1>1, <1>2, FS_Subset, FS_CardinalityType

(* With nobody busy, what began below a number is over.                    *)
LEMMA OverBelow ==
  ASSUME NEW n \in 0 .. Count, BegunBelow(n), \A w \in Workers : ~Busy(w)
  PROVE  Over = 0 .. n - 1 /\ Cardinality(Over) = n
<1>1. Over = 0 .. n - 1
  BY CountAssumption DEF Over, BegunBelow, Candidates
<1> QED
  BY <1>1, FS_Interval, CountAssumption

(* The same candidates are over when the same ones began and the same      *)
(* workers are busy with them.                                             *)
LEMMA OverKept ==
  ASSUME begun' = begun, \A w \in Workers : Busy(w)' <=> Busy(w), index' = index
  PROVE  Over' = Over
BY DEF Over

(* A step that begins and ends no comparison.                              *)
LEMMA QuietStep ==
  ASSUME IInv, Counted, begun' = begun, next' = next, done' = done, shown' = shown,
         index' = index, \A w \in Workers : Busy(w)' <=> Busy(w),
         (~Refused')  => ~Refused \/ main = "spawning",
         main' = "spawning" => main = "spawning",
         Refused' => Refused,
         main' = "comparing" => main = "comparing" /\ turn' = turn,
         main' = "reporting" => main = "reporting" /\ turn' = turn
  PROVE  Counted'
<1>1. Over' = Over
  BY OverKept
<1> QED
  BY <1>1 DEF Counted, BegunBelow, Candidates

(* A candidate is taken: its comparison is the one that begins.            *)
LEMMA TakenCounted ==
  ASSUME IInv, Counted, NEW w \in Workers, WorkerTakes(w) PROVE Counted'
<1> USE CountAssumption, NoneAssumption
<1>1. /\ next' = next + 1 /\ index' = [index EXCEPT ![w] = next]
      /\ pc' = [pc EXCEPT ![w] = IF next >= Count THEN "leaving" ELSE "comparing"]
      /\ done' = done /\ shown' = shown /\ main' = main /\ turn' = turn
      /\ begun' = IF next >= Count THEN begun ELSE [begun EXCEPT ![next] = @ + 1]
  BY DEF WorkerTakes, CallerKeeps, Goes, Begins
<1>2. /\ pc[w] = "taking" /\ ~Refused /\ ~Refused' /\ main \notin {"comparing", "reporting"}
      /\ next \in Nat /\ begun \in [Candidates -> Nat] /\ index \in [Workers -> Nat \cup {None}]
      /\ pc \in [Workers -> WorkerPlaces]
  BY <1>1 DEF WorkerTakes, Refused, IInv, MainFollows, TypeOK
<1>3. BegunBelow(next) /\ done = Cardinality(Over)
  BY <1>2 DEF Counted
<1>4. BegunBelow(next)' /\ \A i \in Candidates : begun'[i] <= 1
  BY <1>1, <1>2, <1>3 DEF BegunBelow, Candidates
<1>5. Over' = Over
  <2>1. \A v \in Workers \ {w} : (Busy(v)' <=> Busy(v)) /\ index'[v] = index[v]
    BY <1>1, <1>2 DEF Busy
  <2>2. ~Busy(w) /\ (Busy(w)' <=> next < Count) /\ index'[w] = next
    BY <1>1, <1>2 DEF Busy
  <2>3. ASSUME NEW i \in Candidates, i # next PROVE i \in Over' <=> i \in Over
    BY <1>1, <1>2, <2>1, <2>2, <2>3 DEF Over, Candidates
  <2>4. next \in Candidates => next \notin Over /\ next \notin Over'
    <3>1. next \in Candidates => begun[next] = 0 /\ next < Count
      BY <1>2, <1>3 DEF BegunBelow, Candidates
    <3> QED
      BY <3>1, <2>2 DEF Over
  <2> QED
    BY <2>3, <2>4 DEF Over, Candidates
<1> QED
  BY <1>1, <1>2, <1>3, <1>4, <1>5 DEF Counted, IInv, MainFollows

(* A comparison is over: it is the one that `done` counts.                 *)
LEMMA DoneCounted ==
  ASSUME IInv, Counted, NEW w \in Workers, WorkerCounts(w) PROVE Counted'
<1> USE CountAssumption, NoneAssumption
<1>1. /\ pc[w] = "counting" /\ done' = done + 1 /\ pc' = [pc EXCEPT ![w] = "loop"]
      /\ next' = next /\ index' = index /\ begun' = begun
      /\ shown' = shown /\ main' = main /\ turn' = turn
  BY DEF WorkerCounts, CallerKeeps, Goes
<1>2. /\ Busy(w) /\ ~Refused /\ ~Refused' /\ main \notin {"comparing", "reporting"}
      /\ pc \in [Workers -> WorkerPlaces] /\ next \in Nat
      /\ begun \in [Candidates -> Nat]
  BY <1>1 DEF Busy, Refused, IInv, MainFollows, TypeOK
<1>3. index[w] \in Candidates /\ index[w] < next
  BY <1>2 DEF IInv, TypeOK, Taken
<1>4. BegunBelow(next) /\ done = Cardinality(Over)
  BY <1>2 DEF Counted
<1>5. ~Busy(w)' /\ \A v \in Workers \ {w} : Busy(v)' <=> Busy(v)
  BY <1>1, <1>2 DEF Busy
<1>6. index[w] \notin Over
  BY <1>2 DEF Over
<1>7. Over' = Over \cup {index[w]}
  <2>1. \A v \in Workers : (v # w /\ Busy(v)) => index[v] # index[w]
    BY <1>2 DEF IInv, Taken
  <2>2. index[w] \in Over'
    BY <1>1, <1>2, <1>3, <1>4, <1>5, <2>1 DEF Over, BegunBelow
  <2>3. ASSUME NEW i \in Candidates, i # index[w] PROVE i \in Over' <=> i \in Over
    BY <1>1, <1>5, <2>3 DEF Over
  <2> QED
    BY <1>3, <2>2, <2>3 DEF Over, Candidates
<1>8. Cardinality(Over') = Cardinality(Over) + 1 /\ Cardinality(Over) \in Nat
  BY <1>6, <1>7, OverIsFinite, FS_AddElement
<1>9. shown' <= Cardinality(Over')
  BY <1>1, <1>8 DEF Counted, IInv, TypeOK
<1> QED
  BY <1>1, <1>2, <1>4, <1>8, <1>9 DEF Counted, BegunBelow

(* Every other step of a worker.                                           *)
LEMMA WorkerCounted ==
  ASSUME IInv, Counted, NEW w \in Workers, Worker(w) PROVE Counted'
<1>1. CASE WorkerTakes(w)
  BY <1>1, TakenCounted
<1>2. CASE WorkerCounts(w)
  BY <1>2, DoneCounted
<1>3. ASSUME \/ WorkerLooks(w) \/ WorkerCompares(w) \/ WorkerKeepsMatch(w) \/ WorkerStops(w)
             \/ WorkerFails(w) \/ WorkerKeepsError(w) \/ WorkerAborts(w) \/ WorkerLeaves(w)
      PROVE  Counted'
  <2>1. /\ begun' = begun /\ next' = next /\ done' = done /\ shown' = shown /\ index' = index
        /\ main' = main /\ turn' = turn
    BY <1>3 DEF WorkerLooks, WorkerCompares, WorkerKeepsMatch, WorkerStops, WorkerFails,
       WorkerKeepsError, WorkerAborts, WorkerLeaves, CallerKeeps, shared
  <2>2. pc \in [Workers -> WorkerPlaces] /\ index \in [Workers -> Nat \cup {None}]
    BY DEF IInv, TypeOK
  <2>3. CASE WorkerLooks(w)
    <3>1. PICK place \in {"leaving", "taking"} : pc' = [pc EXCEPT ![w] = place] /\ pc[w] = "loop"
      BY <2>3 DEF WorkerLooks, Goes
    <3> QED
      BY <2>1, <2>2, <3>1, QuietStep DEF Busy, Refused
  <2>4. CASE WorkerCompares(w)
    <3>1. PICK place \in {"matching", "counting", "failing"} :
            pc' = [pc EXCEPT ![w] = place] /\ pc[w] = "comparing"
      BY <2>4 DEF WorkerCompares, Goes, IInv, TypeOK, Busy
    <3> QED
      BY <2>1, <2>2, <3>1, QuietStep DEF Busy, Refused
  <2>5. CASE WorkerKeepsMatch(w)
    BY <2>1, <2>2, <2>5, QuietStep DEF WorkerKeepsMatch, Goes, Busy, Refused
  <2>6. CASE WorkerStops(w)
    BY <2>1, <2>2, <2>6, QuietStep DEF WorkerStops, Goes, Busy, Refused
  <2>7. CASE WorkerFails(w)
    <3>1. PICK place \in {"keeping", "counting"} : pc' = [pc EXCEPT ![w] = place] /\ pc[w] = "failing"
      BY <2>7 DEF WorkerFails, Goes
    <3> QED
      BY <2>1, <2>2, <3>1, QuietStep DEF Busy, Refused
  <2>8. CASE WorkerKeepsError(w)
    BY <2>1, <2>2, <2>8, QuietStep DEF WorkerKeepsError, Goes, Busy, Refused
  <2>9. CASE WorkerAborts(w)
    BY <2>1, <2>2, <2>9, QuietStep DEF WorkerAborts, Goes, Busy, Refused
  <2>10. CASE WorkerLeaves(w)
    BY <2>1, <2>2, <2>10, QuietStep DEF WorkerLeaves, Goes, Busy, Refused
  <2> QED
    BY <1>3, <2>3, <2>4, <2>5, <2>6, <2>7, <2>8, <2>9, <2>10
<1> QED
  BY <1>1, <1>2, <1>3 DEF Worker

(* The steps of the calling thread.                                        *)
LEMMA MainCounted == ASSUME IInv, Counted, Main PROVE Counted'
<1> USE CountAssumption, NoneAssumption
<1> DEFINE Same == begun' = begun /\ next' = next /\ done' = done /\ index' = index
<1>1. ASSUME NEW w \in Workers, Spawn(w) PROVE Counted'
  <2>1. /\ Same /\ shown' = shown /\ main' = main /\ main = "spawning" /\ pc[w] = "unasked"
    BY <1>1 DEF Spawn, shared
  <2>2. PICK place \in {"loop", "refused"} : pc' = [pc EXCEPT ![w] = place]
    BY <1>1 DEF Spawn, Goes
  <2>3. pc \in [Workers -> WorkerPlaces]
    BY DEF IInv, TypeOK
  <2> QED
    BY <2>1, <2>2, <2>3, QuietStep DEF Busy, Refused
<1>2. ASSUME Spawned PROVE Counted'
  <2>1. /\ Same /\ shown' = shown /\ pc' = pc /\ turn' = turn /\ main = "spawning"
        /\ main' \in {"comparing", "waiting"}
        /\ main' = "comparing" => Refused
    BY <1>2 DEF Spawned, shared, Granted, Refused
  <2>2. CASE main' = "waiting"
    BY <2>1, <2>2, QuietStep DEF Busy, Refused
  <2>3. CASE main' = "comparing"
    <3>1. next = 0 /\ turn = 0 /\ BegunBelow(0) /\ \A w \in Workers : ~Busy(w)
      BY <2>1, <2>3 DEF Counted, IInv, MainFollows, Refused, Busy
    <3>2. Over = 0 .. 0 - 1 /\ Cardinality(Over) = 0
      BY <3>1, OverBelow
    <3>3. Over' = Over
      BY <2>1, OverKept DEF Busy
    <3>4. shown <= 0 /\ shown \in Nat
      BY <3>2 DEF Counted, IInv, TypeOK
    <3>5. Refused' /\ done = 0 /\ BegunBelow(turn)'
      BY <2>1, <2>3, <3>1 DEF Counted, Refused, BegunBelow
    <3> QED
      BY <2>1, <2>3, <3>1, <3>2, <3>3, <3>4, <3>5 DEF Counted
  <2> QED
    BY <2>1, <2>2, <2>3
<1>3. ASSUME Waits \/ Wakes \/ Cancels \/ KeepsCallersError \/ Aborts \/ Stops \/ Concludes
      PROVE  Counted'
  <2>1. Same /\ pc' = pc /\ turn' = turn /\ shown' = shown
    BY <1>3 DEF Waits, Wakes, Cancels, KeepsCallersError, Aborts, Stops, Concludes, WorkersKeep
  <2>2. main' \in {"joined", "slept", "waiting", "asking", "aborting", "ending", "returned", "last"}
    BY <1>3 DEF Waits, Wakes, Cancels, KeepsCallersError, Aborts, Stops, Concludes, Returns
  <2> QED
    BY <2>1, <2>2, QuietStep DEF Busy, Refused
<1>4. ASSUME AsksCaller PROVE Counted'
  <2>1. /\ Same /\ pc' = pc /\ turn' = turn /\ shown' = Progress /\ main = "asking"
        /\ main' \in {"waiting", "cancelling", "blaming"}
    BY <1>4 DEF AsksCaller, WorkersKeep
  <2>2. ~Refused
    <3>1. PICK w \in Workers : pc[w] # "refused"
      BY <2>1 DEF IInv, MainFollows
    <3>2. pc[w] # "unasked"
      BY <2>1 DEF IInv, MainFollows
    <3> QED
      BY <3>1, <3>2 DEF Refused
  <2>3. Over' = Over
    BY <2>1, OverKept DEF Busy
  <2>4. done = Cardinality(Over) /\ BegunBelow(next)
    BY <2>2 DEF Counted
  <2>5. shown' <= Cardinality(Over)
    BY <2>1, <2>4 DEF Progress, IInv, TypeOK
  <2> QED
    BY <2>1, <2>2, <2>3, <2>4, <2>5 DEF Counted, BegunBelow, Refused
<1>5. ASSUME LastReport PROVE Counted'
  <2>1. Same /\ pc' = pc /\ turn' = turn /\ shown' = Count /\ main = "last" /\ main' = "returned"
    BY <1>5 DEF LastReport, WorkersKeep, Returns
  <2>2. ~Refused /\ next >= Count /\ \A w \in Workers : ~Busy(w)
    BY <2>1 DEF IInv, MainFollows, StopHasReason, Busy, Refused
  <2>3. BegunBelow(next) /\ done = Cardinality(Over) /\ next \in Nat
    BY <2>2 DEF Counted, IInv, TypeOK
  <2>4. BegunBelow(Count)
    BY <2>2, <2>3 DEF BegunBelow, Candidates
  <2>5. Cardinality(Over) = Count
    BY <2>2, <2>4, OverBelow
  <2>6. Over' = Over
    BY <2>1, OverKept DEF Busy
  <2> QED
    BY <2>1, <2>2, <2>3, <2>5, <2>6 DEF Counted, BegunBelow, Refused
<1>6. ASSUME ComparesInTurn PROVE Counted'
  <2>1. /\ main = "comparing" /\ next' = next /\ done' = done /\ index' = index
        /\ pc' = pc /\ turn' = turn /\ shown' = shown /\ main' \in {"returned", "reporting"}
        /\ begun' = IF turn >= Count THEN begun ELSE [begun EXCEPT ![turn] = @ + 1]
        /\ turn >= Count => main' = "returned"
    BY <1>6 DEF ComparesInTurn, Returns, shared, Begins
  <2>2. /\ Refused /\ Refused' /\ \A w \in Workers : ~Busy(w) /\ ~Busy(w)'
    BY <2>1 DEF IInv, MainFollows, Busy, Refused
  <2>3. /\ BegunBelow(turn) /\ shown <= turn /\ shown \in Nat /\ turn \in Nat /\ next = 0 /\ done = 0
        /\ begun \in [Candidates -> Nat]
    BY <2>1, <2>2 DEF Counted, IInv, TypeOK
  <2>4. CASE turn >= Count
    <3>1. Over' = Over
      BY <2>1, <2>4, OverKept DEF Busy
    <3> QED
      BY <2>1, <2>2, <2>3, <2>4, <3>1 DEF Counted
  <2>5. CASE turn < Count
    <3>1. turn + 1 \in 0 .. Count /\ BegunBelow(turn + 1)' /\ \A i \in Candidates : begun'[i] <= 1
      BY <2>1, <2>3, <2>5 DEF BegunBelow, Candidates
    <3>2. Over' = 0 .. turn
      BY <2>1, <2>2, <2>3, <2>5, <3>1 DEF Over, BegunBelow, Candidates
    <3>3. Cardinality(Over') = turn + 1
      BY <2>3, <3>2, FS_Interval
    <3> QED
      BY <2>1, <2>2, <2>3, <2>5, <3>1, <3>3 DEF Counted
  <2> QED
    BY <2>3, <2>4, <2>5
<1>7. ASSUME ReportsInTurn PROVE Counted'
  <2>1. /\ main = "reporting" /\ Same /\ pc' = pc /\ shown' = turn + 1
        /\ main' = "returned" \/ (main' = "comparing" /\ turn' = turn + 1)
    BY <1>7 DEF ReportsInTurn, Returns, shared
  <2>2. Refused /\ Refused' /\ (\A w \in Workers : ~Busy(w)) /\ turn \in Nat /\ turn < Count
    BY <2>1 DEF IInv, MainFollows, Busy, Refused, TypeOK
  <2>3. BegunBelow(turn + 1) /\ next = 0 /\ done = 0
    BY <2>1, <2>2 DEF Counted
  <2>4. Cardinality(Over) = turn + 1
    BY <2>2, <2>3, OverBelow
  <2>5. Over' = Over
    BY <2>1, OverKept DEF Busy
  <2> QED
    BY <2>1, <2>2, <2>3, <2>4, <2>5 DEF Counted, BegunBelow
<1> QED
  BY <1>1, <1>2, <1>3, <1>4, <1>5, <1>6, <1>7 DEF Main

(* Counted is an invariant of the search.                                  *)
THEOREM Counting == Spec => []Counted
<1>1. Init => Counted
  <2> SUFFICES ASSUME Init PROVE Counted
    OBVIOUS
  <2>1. next = 0 /\ done = 0 /\ shown = 0 /\ main = "spawning" /\ BegunBelow(0)
    BY CountAssumption DEF Init, BegunBelow, Candidates
  <2>2. \A w \in Workers : ~Busy(w)
    BY DEF Init, Busy
  <2>3. Cardinality(Over) = 0
    BY <2>1, <2>2, OverBelow, CountAssumption
  <2> QED
    BY <2>1, <2>3 DEF Counted, BegunBelow
<1>2. ASSUME IInv, Counted, [Next]_vars PROVE Counted'
  <2>1. ASSUME UNCHANGED vars PROVE Counted'
    BY <1>2, <2>1, QuietStep DEF vars, shared, Busy, Refused
  <2> QED
    BY <1>2, <2>1, WorkerCounted, MainCounted DEF Next
<1> QED
  BY <1>1, <1>2, Invariance, PTL DEF Spec

(* No comparison begins twice, `done` is the number of those that are      *)
(* over, and the progress claims no more.                                  *)
THEOREM ComparedOnce == Spec => []EachCandidateOnce
<1>1. Counted => EachCandidateOnce
  BY DEF Counted, EachCandidateOnce, Refused, Granted
<1> QED
  BY <1>1, Counting, PTL

(* A search that was stopped, or failed, claims nothing.                   *)
THEOREM StopIsKept == Spec => []StoppedGivesNothing
<1>1. IInv => StoppedGivesNothing
  BY DEF IInv, ResultIsRight
<1> QED
  BY <1>1, Invariance, PTL

(* A caller that stopped the search is not asked again.                    *)
THEOREM StaysSilent == Spec => []SilentAfterStop
<1>1. IInv => SilentAfterStop
  BY DEF IInv, Silenced, SilentAfterStop
<1> QED
  BY <1>1, Invariance, PTL

(* A stop is heard by the result and by the caller.                        *)
THEOREM StopHeard == Spec => []StopIsHeard
BY StopIsKept, StaysSilent, PTL DEF StopIsHeard
=============================================================================
