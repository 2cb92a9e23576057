-------------------------- MODULE CandidateSearch --------------------------
(***************************************************************************)
(* The comparison of the candidate containers of a search with the decoy   *)
(* wallet (compare_candidates and compare_in_turn of src/search.rs).  The  *)
(* candidates are shared among worker threads, each taking the next one    *)
(* left, while the calling thread reports how far they have come and may   *)
(* be told to stop.  A system that refuses every thread has the candidates *)
(* compared in turn.                                                       *)
(*                                                                         *)
(* Every access to an atomic or to a mutex is a step of its own.  A store  *)
(* is visible to every thread at once; the code's Relaxed stores may be    *)
(* seen later, which delays a worker's exit by a round of its loop.        *)
(***************************************************************************)
EXTENDS Integers, FiniteSets

CONSTANTS
  Count,    \* how many candidates there are
  Workers,  \* the threads the search asks the system for
  None,     \* no index, no error
  Caller    \* the source of an error that on_progress gave

ASSUME CountAssumption == Count \in Nat
ASSUME WorkersAssumption == IsFiniteSet(Workers) /\ Workers # {}
ASSUME NoneAssumption == None # Caller /\ {None, Caller} \cap Int = {}

Candidates == 0 .. Count - 1

VARIABLES
  outcome,    \* what comparing each candidate finds: "match", "other" or "error"
  next,       \* the next candidate to take
  done,       \* how many comparisons the workers ended
  stop,       \* no further candidate is taken
  abort,      \* the comparisons under way end too
  cancelled,  \* on_progress answered Break
  matched,    \* the lowest index that matched so far
  failure,    \* whose error is kept: a candidate, the Caller or None
  pc,         \* where each worker is
  index,      \* the candidate each worker took last
  main,       \* where the calling thread is
  turn,       \* the candidate under comparison when they are compared in turn
  shown,      \* the progress last reported
  result,     \* what the search gave, Running until then
  begun       \* how often the comparison of each candidate began, which no step reads

shared == <<next, done, stop, abort, cancelled, matched, failure>>
vars == <<outcome, shared, pc, index, main, turn, shown, result, begun>>

WorkerPlaces ==
  {"unasked", "refused", "loop", "taking", "comparing", "matching", "stopping",
   "failing", "keeping", "aborting", "ending", "counting", "leaving", "gone"}
MainPlaces ==
  {"spawning", "waiting", "slept", "asking", "cancelling", "blaming", "aborting",
   "ending", "joined", "last", "comparing", "reporting", "returned"}

Running == [is |-> "running", at |-> None]
Found(i) == [is |-> "found", at |-> i]
NotFound == [is |-> "notFound", at |-> None]
Cancelled == [is |-> "cancelled", at |-> None]
Failed(by) == [is |-> "failed", at |-> by]
Results == {Found(i) : i \in Candidates} \cup {NotFound, Cancelled}
             \cup {Failed(by) : by \in Candidates \cup {Caller}}

Init ==
  /\ outcome \in [Candidates -> {"match", "other", "error"}]
  /\ next = 0 /\ done = 0
  /\ stop = FALSE /\ abort = FALSE /\ cancelled = FALSE
  /\ matched = None /\ failure = None
  /\ pc = [w \in Workers |-> "unasked"]
  /\ index = [w \in Workers |-> None]
  /\ main = "spawning" /\ turn = 0 /\ shown = 0 /\ result = Running
  /\ begun = [i \in Candidates |-> 0]

\* compare is called for a candidate.
Begins(i) == begun' = [begun EXCEPT ![i] = @ + 1]

Granted == {w \in Workers : pc[w] \notin {"unasked", "refused"}}

(***************************************************************************)
(* A worker: `while !stop { index = next++; compare; done++ }`.            *)
(***************************************************************************)
Goes(w, place) == pc' = [pc EXCEPT ![w] = place]
CallerKeeps == UNCHANGED <<outcome, main, turn, shown, result>>

WorkerLooks(w) ==
  /\ pc[w] = "loop"
  /\ Goes(w, IF stop THEN "leaving" ELSE "taking")
  /\ UNCHANGED <<shared, begun, index>> /\ CallerKeeps

\* A slip of WorkerTakes: a load and a store instead of the fetch_add, whose
\* update another worker may overwrite.
WorkerTakesLost(w) ==
  /\ pc[w] = "taking"
  /\ next' \in {next, next + 1}
  /\ index' = [index EXCEPT ![w] = next]
  /\ Goes(w, IF next >= Count THEN "leaving" ELSE "comparing")
  /\ IF next >= Count THEN UNCHANGED begun ELSE Begins(next)
  /\ UNCHANGED <<done, stop, abort, cancelled, matched, failure>> /\ CallerKeeps

WorkerTakes(w) ==
  /\ pc[w] = "taking"
  /\ next' = next + 1
  /\ index' = [index EXCEPT ![w] = next]
  /\ Goes(w, IF next >= Count THEN "leaving" ELSE "comparing")
  /\ IF next >= Count THEN UNCHANGED begun ELSE Begins(next)
  /\ UNCHANGED <<done, stop, abort, cancelled, matched, failure>> /\ CallerKeeps

\* A comparison that finds abort set may end without an outcome.
WorkerCompares(w) ==
  /\ pc[w] = "comparing"
  /\ \/ Goes(w, CASE outcome[index[w]] = "match" -> "matching"
                  [] outcome[index[w]] = "other" -> "counting"
                  [] outcome[index[w]] = "error" -> "failing")
     \/ abort /\ Goes(w, "counting")
  /\ UNCHANGED <<shared, begun, index>> /\ CallerKeeps

\* Better with the last match kept.
BetterSlip(w) == index[w]
\* The match is kept under the lock, which is held until stop is set.
Better(w) == IF matched = None \/ index[w] < matched THEN index[w] ELSE matched
WorkerKeepsMatch(w) ==
  /\ pc[w] = "matching"
  /\ \A v \in Workers : pc[v] # "stopping"
  /\ matched' = Better(w)
  /\ Goes(w, "stopping")
  /\ UNCHANGED <<next, done, stop, abort, cancelled, failure, index, begun>> /\ CallerKeeps

WorkerStops(w) ==
  /\ pc[w] \in {"stopping", "ending"}
  /\ stop' = TRUE
  /\ Goes(w, "counting")
  /\ UNCHANGED <<next, done, abort, cancelled, matched, failure, index, begun>> /\ CallerKeeps

\* An error after an abort is the abort's own; another one is kept.
WorkerFails(w) ==
  /\ pc[w] = "failing"
  /\ Goes(w, IF abort THEN "counting" ELSE "keeping")
  /\ UNCHANGED <<shared, begun, index>> /\ CallerKeeps

WorkerKeepsError(w) ==
  /\ pc[w] = "keeping"
  /\ failure' = index[w]
  /\ Goes(w, "aborting")
  /\ UNCHANGED <<next, done, stop, abort, cancelled, matched, index, begun>> /\ CallerKeeps

WorkerAborts(w) ==
  /\ pc[w] = "aborting"
  /\ abort' = TRUE
  /\ Goes(w, "ending")
  /\ UNCHANGED <<next, done, stop, cancelled, matched, failure, index, begun>> /\ CallerKeeps

\* A slip of WorkerCounts: a load and a store instead of the fetch_add.
WorkerCountsSlip(w) ==
  /\ pc[w] = "counting"
  /\ done' \in {done, done + 1}
  /\ Goes(w, "loop")
  /\ UNCHANGED <<next, stop, abort, cancelled, matched, failure, index, begun>> /\ CallerKeeps

WorkerCounts(w) ==
  /\ pc[w] = "counting"
  /\ done' = done + 1
  /\ Goes(w, "loop")
  /\ UNCHANGED <<next, stop, abort, cancelled, matched, failure, index, begun>> /\ CallerKeeps

WorkerLeaves(w) ==
  /\ pc[w] = "leaving"
  /\ Goes(w, "gone")
  /\ UNCHANGED <<shared, begun, index>> /\ CallerKeeps

Worker(w) ==
  \/ WorkerLooks(w) \/ WorkerTakes(w) \/ WorkerCompares(w)
  \/ WorkerKeepsMatch(w) \/ WorkerStops(w)
  \/ WorkerFails(w) \/ WorkerKeepsError(w) \/ WorkerAborts(w)
  \/ WorkerCounts(w) \/ WorkerLeaves(w)

(***************************************************************************)
(* The calling thread: it asks for the threads, reports the progress until *)
(* they are gone, and gives the result.                                    *)
(***************************************************************************)
Asked == {w \in Workers : pc[w] # "unasked"}
Gone == {w \in Workers : pc[w] = "gone"}

Spawn(w) ==
  /\ main = "spawning" /\ pc[w] = "unasked"
  /\ \/ Goes(w, "loop")
     \/ Goes(w, "refused")
  /\ UNCHANGED <<outcome, shared, begun, index, main, turn, shown, result>>

\* With every thread refused the scope ends at once and the candidates are
\* compared in turn.
Spawned ==
  /\ main = "spawning" /\ Asked = Workers
  /\ main' = IF Granted = {} THEN "comparing" ELSE "waiting"
  /\ UNCHANGED <<outcome, shared, begun, pc, index, turn, shown, result>>

WorkersKeep == UNCHANGED <<outcome, next, done, matched, begun, pc, index, turn>>

\* Waits for every thread that was asked for, refused ones too.
WaitsSlip ==
  /\ main = "waiting"
  /\ main' = IF Gone = Workers THEN "joined" ELSE "slept"
  /\ UNCHANGED <<stop, abort, cancelled, failure, shown, result>> /\ WorkersKeep

Waits ==
  /\ main = "waiting"
  /\ main' = IF Gone = Granted THEN "joined" ELSE "slept"
  /\ UNCHANGED <<stop, abort, cancelled, failure, shown, result>> /\ WorkersKeep

\* Wakes that asks the caller again after an abort.
Wakes ==
  /\ main = "slept"
  /\ main' = IF abort THEN "waiting" ELSE "asking"
  /\ UNCHANGED <<stop, abort, cancelled, failure, shown, result>> /\ WorkersKeep

\* done.min(count)
Progress == IF done < Count THEN done ELSE Count

AsksCaller ==
  /\ main = "asking"
  /\ shown' = Progress
  /\ main' \in {"waiting", "cancelling", "blaming"}
  /\ UNCHANGED <<stop, abort, cancelled, failure, result>> /\ WorkersKeep

Cancels ==
  /\ main = "cancelling"
  /\ cancelled' = TRUE
  /\ main' = "aborting"
  /\ UNCHANGED <<stop, abort, failure, shown, result>> /\ WorkersKeep

KeepsCallersError ==
  /\ main = "blaming"
  /\ failure' = Caller
  /\ main' = "aborting"
  /\ UNCHANGED <<stop, abort, cancelled, shown, result>> /\ WorkersKeep

Aborts ==
  /\ main = "aborting"
  /\ abort' = TRUE
  /\ main' = "ending"
  /\ UNCHANGED <<stop, cancelled, failure, shown, result>> /\ WorkersKeep

Stops ==
  /\ main = "ending"
  /\ stop' = TRUE
  /\ main' = "waiting"
  /\ UNCHANGED <<abort, cancelled, failure, shown, result>> /\ WorkersKeep

Returns(r) == main' = "returned" /\ result' = r

\* Concludes with the match before the error and the cancel.
ConcludesSlip ==
  /\ main = "joined"
  /\ IF matched # None THEN Returns(Found(matched))
     ELSE IF failure # None THEN Returns(Failed(failure))
     ELSE IF cancelled THEN Returns(Cancelled)
     ELSE main' = "last" /\ UNCHANGED result
  /\ UNCHANGED <<stop, abort, cancelled, failure, shown>> /\ WorkersKeep

\* The order after the threads are joined: an error, the cancel, the match.
Concludes ==
  /\ main = "joined"
  /\ IF failure # None THEN Returns(Failed(failure))
     ELSE IF cancelled THEN Returns(Cancelled)
     ELSE IF matched # None THEN Returns(Found(matched))
     ELSE main' = "last" /\ UNCHANGED result
  /\ UNCHANGED <<stop, abort, cancelled, failure, shown>> /\ WorkersKeep

\* The last report, `on_progress(count, count)`, may stop the search too.
LastReport ==
  /\ main = "last"
  /\ shown' = Count
  /\ \E r \in {NotFound, Cancelled, Failed(Caller)} : Returns(r)
  /\ UNCHANGED <<stop, abort, cancelled, failure>> /\ WorkersKeep

(***************************************************************************)
(* compare_in_turn: each candidate on this thread, a report after each.    *)
(***************************************************************************)
ComparesInTurn ==
  /\ main = "comparing"
  /\ IF turn >= Count THEN Returns(NotFound)
     ELSE IF outcome[turn] = "error" THEN Returns(Failed(turn))
     ELSE main' = "reporting" /\ UNCHANGED result
  /\ IF turn >= Count THEN UNCHANGED begun ELSE Begins(turn)
  /\ UNCHANGED <<outcome, shared, pc, index, turn, shown>>

ReportsInTurn ==
  /\ main = "reporting"
  /\ shown' = turn + 1
  /\ \/ Returns(Cancelled) /\ UNCHANGED turn
     \/ Returns(Failed(Caller)) /\ UNCHANGED turn
     \/ outcome[turn] = "match" /\ Returns(Found(turn)) /\ UNCHANGED turn
     \/ /\ outcome[turn] # "match"
        /\ turn' = turn + 1 /\ main' = "comparing" /\ UNCHANGED result
  /\ UNCHANGED <<outcome, shared, begun, pc, index>>

Main ==
  \/ \E w \in Workers : Spawn(w)
  \/ Spawned \/ Waits \/ Wakes \/ AsksCaller
  \/ Cancels \/ KeepsCallersError \/ Aborts \/ Stops
  \/ Concludes \/ LastReport \/ ComparesInTurn \/ ReportsInTurn

Next == Main \/ \E w \in Workers : Worker(w)

Spec == Init /\ [][Next]_vars
FairSpec == Spec /\ WF_vars(Main) /\ \A w \in Workers : WF_vars(Worker(w))

(***************************************************************************)
(* Properties.                                                             *)
(***************************************************************************)
Busy(w) ==
  pc[w] \in {"comparing", "matching", "stopping", "failing", "keeping",
             "aborting", "ending", "counting"}

\* Every variable has a value of the program.
TypeOK ==
  /\ outcome \in [Candidates -> {"match", "other", "error"}]
  /\ next \in Nat /\ done \in Nat
  /\ stop \in BOOLEAN /\ abort \in BOOLEAN /\ cancelled \in BOOLEAN
  /\ matched \in Candidates \cup {None}
  /\ failure \in Candidates \cup {Caller, None}
  /\ pc \in [Workers -> WorkerPlaces]
  /\ index \in [Workers -> Nat \cup {None}]
  /\ \A w \in Workers : Busy(w) => index[w] \in Candidates
  /\ main \in MainPlaces
  /\ turn \in Nat /\ shown \in Nat
  /\ result \in Results \cup {Running}
  /\ begun \in [Candidates -> Nat]

\* However the threads run, a search that names a candidate names the lowest
\* one that matches, as the comparison in turn would, with every candidate
\* before it compared and found wrong; and one that says that none matches
\* compared them all (`matched` keeps the lowest index, "so that the result
\* does not depend on the threads' order").
LowestMatchWins ==
  /\ result.is = "found" =>
       /\ outcome[result.at] = "match"
       /\ \A k \in Candidates : k < result.at => outcome[k] = "other"
  /\ result.is = "notFound" => \A k \in Candidates : outcome[k] = "other"
  /\ (result.is = "failed" /\ result.at # Caller) => outcome[result.at] = "error"

\* The candidates whose comparison began and ended, with an outcome, an error
\* or an abort: those that no worker is busy with.
Over == {i \in Candidates : begun[i] > 0 /\ \A w \in Workers : Busy(w) => index[w] # i}

\* However the threads run, the comparison of a candidate begins at most once
\* in the whole search; with threads, `done` is at every moment the number of
\* candidates that were taken and that no worker is busy with any more (both
\* are fetch_add); and the progress reported never claims a comparison that is
\* not over, also in turn and in the last report, which claims them all.
EachCandidateOnce ==
  /\ \A i \in Candidates : begun[i] <= 1
  /\ Granted # {} => done = Cardinality(Over)
  /\ shown <= Cardinality(Over)

\* A search that was stopped, or in which an error was kept, ends with neither
\* a match nor the word that there is none, whichever thread came last.
StoppedGivesNothing ==
  (cancelled \/ failure # None) => result.is \notin {"found", "notFound"}

\* Once on_progress answered Break or gave an error, it is not called again
\* ("After an abort it is not asked again while the workers end").
SilentAfterStop ==
  (cancelled \/ failure = Caller) => main \notin {"asking", "last"}

\* A stop is heard to the end, by the caller and by the result.
StopIsHeard == StoppedGivesNothing /\ SilentAfterStop

\* The search ends, with threads or without: no worker waits for a stop that
\* another one took, and the calling thread never waits for a refused one.
SearchEnds == <>(main = "returned")
=============================================================================
