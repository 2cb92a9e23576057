----------------------------- MODULE WorkerJob -----------------------------
(***************************************************************************)
(* One operation of the browser package in a worker of its own: the class  *)
(* WorkerJob of web/runtime.js on the page, serveOperations of             *)
(* web/worker-runtime.js in the worker, and the messages and the error     *)
(* event between them.  Page and worker interleave freely, cancel() may    *)
(* come at any moment, and timers, callbacks and answers of the page       *)
(* settle when they like.  A definition named ...Slip is a plausible bug   *)
(* in the definition after it, kept to show which property notices it.     *)
(***************************************************************************)
EXTENDS Naturals, Sequences

CONSTANTS MaxNews,       \* bound: news one operation posts
          MaxAsks        \* bound: questions one operation asks

ASSUME BoundsAssumption == MaxNews \in Nat /\ MaxAsks \in Nat

VARIABLES
  compile, build,  \* the page's one compilation; is the worker script of this runtime's build
  start,           \* where the async function of run() stands
  requestSecrets,  \* where the bytes of the request's secrets are
  ended, promise, onEnds, timer, worker, \* what stop() changes: #ended, the promise of run(),
                   \* calls of onEnd (which free the slot), #startTimer and the worker
  loaded,          \* #loaded
  answering, answerSecrets, \* the page's handler of a question; where its answer's secrets are
  callbacks,       \* promises of page callbacks that are still pending
  replies, failure, \* messages and an error event on their way to the page
  news, asks       \* how many of each the worker has posted

job    == <<ended, promise, onEnds, timer, worker>>
run    == <<compile, build, start, requestSecrets>>
page   == <<answering, answerSecrets, callbacks>>
queue  == <<replies, failure>>
posted == <<news, asks>>
vars   == <<run, job, loaded, page, queue, posted>>

Reasons  == {"CANCELLED", "WORKER_FAILED", "PACKAGE_MISMATCH", "CALLBACK_FAILED",
             "OPERATION_FAILED"}
Outcomes == Reasons \cup {"result"}
Replies  == {"ready", "news", "ask", "unreadable", "result", "error"}
Places   == {"none", "page", "worker", "wiped"}

(* A worker made and not terminated: the page's #worker is null in every   *)
(* other state.  "empty" has no request, "loading" loads the WebAssembly,  *)
(* "waiting" waits for an answer, "idle" has given its last reply and      *)
(* "broken" has failed.                                                    *)
Alive == {"empty", "loading", "running", "waiting", "idle", "broken"}

TypeOK ==
  /\ compile \in {"pending", "ready", "failed"} /\ build \in {"same", "other"}
  /\ start \in {"awaiting", "settling", "finished"}
  /\ requestSecrets \in Places /\ answerSecrets \in Places
  /\ ended \in BOOLEAN /\ loaded \in BOOLEAN /\ failure \in BOOLEAN
  /\ promise \in Outcomes \cup {"pending"}
  /\ timer \in {"off", "start", "grace"}
  /\ worker \in Alive \cup {"none", "terminated"}
  /\ answering \in {"no", "handler", "answered"}
  /\ onEnds \in Nat /\ callbacks \in Nat /\ news \in Nat /\ asks \in Nat
  /\ replies \in Seq(Replies)

(* run() has just been called on a new job; the class may have compiled    *)
(* its module for an earlier operation.                                    *)
Init ==
  /\ compile \in {"pending", "ready"} /\ build \in {"same", "other"}
  /\ start = "awaiting" /\ requestSecrets = "page"
  /\ ended = FALSE /\ promise = "pending" /\ onEnds = 0 /\ timer = "off" /\ worker = "none"
  /\ loaded = FALSE
  /\ answering = "no" /\ answerSecrets = "none" /\ callbacks = 0
  /\ replies = <<>> /\ failure = FALSE /\ news = 0 /\ asks = 0

-----------------------------------------------------------------------------
(* The job's end.                                                          *)

(* #terminate() of the worker w: the timer is cleared, the worker stopped. *)
Terminate(w) == timer' = "off" /\ worker' = IF w \in Alive THEN "terminated" ELSE w

(* Whether a worker w can be stopped at once: it is not loading any more.  *)
StopsNowSlip(l, w) == TRUE
StopsNow(l, w) == l \/ w \notin Alive

(* stop(reason) on a job whose worker is now w and whose #loaded is l; a   *)
(* second call does nothing.                                               *)
Stop(reason, l, w) ==
  IF ended
  THEN worker' = w /\ UNCHANGED <<ended, promise, onEnds, timer>>
  ELSE /\ ended' = TRUE /\ promise' = reason /\ onEnds' = onEnds + 1
       /\ IF StopsNow(l, w) THEN Terminate(w) ELSE timer' = "grace" /\ worker' = w

(* cancel() of the slot, or close() of a session during an open.           *)
Cancel ==
  /\ ~ended
  /\ Stop("CANCELLED", loaded, worker)
  /\ UNCHANGED <<run, loaded, page, queue, posted>>

(* The limit on the start ends the job and stops the worker whatever it    *)
(* does; the grace limit stops a worker whose job has ended already.       *)
TimerFires ==
  /\ timer # "off"
  /\ Terminate(worker)
  /\ IF ended
     THEN UNCHANGED <<ended, promise, onEnds>>
     ELSE ended' = TRUE /\ promise' = "WORKER_FAILED" /\ onEnds' = onEnds + 1
  /\ UNCHANGED <<run, loaded, page, queue, posted>>

-----------------------------------------------------------------------------
(* run(): the compilation, the worker, the request.                        *)

Compiles ==
  /\ compile = "pending"
  /\ compile' \in {"ready", "failed"}
  /\ UNCHANGED <<build, start, requestSecrets, job, loaded, page, queue, posted>>

MayLaunchSlip == compile = "ready"
MayLaunch == compile = "ready" /\ ~ended

StartLimit == "start"

(* After the compilation: it failed; the job has ended meanwhile; the      *)
(* browser refuses the Blob, its URL or the worker; the worker is made and *)
(* the request transferred; or it is made but postMessage throws, and the  *)
(* worker that never got a request is left to the grace limit.             *)
Starts ==
  /\ start = "awaiting" /\ start' = "settling"
  /\ \/ compile = "failed" /\ Stop("WORKER_FAILED", loaded, worker) /\ UNCHANGED requestSecrets
     \/ compile = "ready" /\ ended /\ UNCHANGED <<job, requestSecrets>>
     \/ MayLaunch /\ Stop("WORKER_FAILED", loaded, worker) /\ UNCHANGED requestSecrets
     \/ /\ MayLaunch
        /\ worker' = "loading" /\ timer' = StartLimit /\ requestSecrets' = "worker"
        /\ UNCHANGED <<ended, promise, onEnds>>
     \/ MayLaunch /\ Stop("WORKER_FAILED", loaded, "empty") /\ requestSecrets' = "wiped"
  /\ UNCHANGED <<compile, build, loaded, page, queue, posted>>

WipedSlip(place) == place
(* wipeSecrets(): bytes the worker owns are left alone.                    *)
Wiped(place) == IF place = "page" THEN "wiped" ELSE place

(* finally: the request of an ended job is wiped.                          *)
StartSettles ==
  /\ start = "settling" /\ start' = "finished"
  /\ requestSecrets' = IF ended THEN Wiped(requestSecrets) ELSE requestSecrets
  /\ UNCHANGED <<compile, build, job, loaded, page, queue, posted>>

-----------------------------------------------------------------------------
(* The worker (serveOperations).                                           *)

WorkerPosts(from, to, reply) ==
  /\ worker = from /\ worker' = to
  /\ replies' = Append(replies, reply)
  /\ UNCHANGED <<run, ended, promise, onEnds, timer, loaded, page, failure>>

(* The WebAssembly is loaded: "ready" with the build of the worker script, *)
(* which one of another build may say in a way this page cannot read.      *)
WorkerLoads ==
  /\ \/ WorkerPosts("loading", "running", "ready")
     \/ build = "other" /\ WorkerPosts("loading", "running", "unreadable")
  /\ UNCHANGED posted

(* It is of another build than the script, or does not initialize.         *)
WorkerRefuses == WorkerPosts("loading", "idle", "error") /\ UNCHANGED posted

(* Progress and other news of the operation (host.post).                   *)
WorkerNews ==
  /\ news < MaxNews /\ news' = news + 1
  /\ WorkerPosts("running", "running", "news")
  /\ UNCHANGED asks

(* The operation asks the page and waits for the answer (host.ask).        *)
WorkerAsks ==
  /\ asks < MaxAsks /\ asks' = asks + 1
  /\ WorkerPosts("running", "waiting", "ask")
  /\ UNCHANGED news

(* The operation resolves or rejects.                                      *)
WorkerReplies ==
  /\ \E reply \in {"result", "error"} : WorkerPosts("running", "idle", reply)
  /\ UNCHANGED posted

(* An error outside the message handler, such as a script that the browser *)
(* does not run.                                                           *)
WorkerBreaks ==
  /\ worker \in {"empty", "loading", "running"} /\ worker' = "broken"
  /\ failure' = TRUE
  /\ UNCHANGED <<run, ended, promise, onEnds, timer, loaded, page, replies, posted>>

-----------------------------------------------------------------------------
(* The page's handlers (#receive, #started, callPage, #answer).            *)

Receive(reply) ==
  /\ replies # <<>> /\ Head(replies) = reply /\ replies' = Tail(replies)
  /\ loaded' = TRUE
  /\ UNCHANGED <<run, failure, posted>>

(* A message after the end is ignored; a worker left to load stops now.    *)
ReceiveAfterEnd ==
  /\ ended /\ \E reply \in Replies : Receive(reply)
  /\ Terminate(worker)
  /\ UNCHANGED <<ended, promise, onEnds, page>>

TimerAfterReadySlip == timer
TimerAfterReady == "off"

BuildsAgreeSlip == TRUE
BuildsAgree == build = "same"

(* The first message: the start limit is over, and the builds must agree.  *)
ReceiveReady ==
  /\ ~ended /\ Receive("ready")
  /\ IF BuildsAgree
     THEN timer' = TimerAfterReady /\ UNCHANGED <<ended, promise, onEnds, worker>>
     ELSE Stop("PACKAGE_MISMATCH", TRUE, worker)
  /\ UNCHANGED page

(* The last message settles the job; a message it cannot read ends it.     *)
ReceiveLast(reply, reason) ==
  /\ ~ended /\ Receive(reply)
  /\ Stop(reason, TRUE, worker)
  /\ UNCHANGED page

(* News goes to the page's callback, which returns, returns a promise that *)
(* nobody waits for, or throws.                                            *)
ReceiveNews ==
  /\ ~ended /\ Receive("news")
  /\ \/ callbacks' \in {callbacks, callbacks + 1} /\ UNCHANGED job
     \/ Stop("CALLBACK_FAILED", TRUE, worker) /\ UNCHANGED callbacks
  /\ UNCHANGED <<answering, answerSecrets>>

(* A question goes to the page's handler; one without a handler is a fault *)
(* of the package.                                                         *)
ReceiveAsk ==
  /\ ~ended /\ Receive("ask")
  /\ \/ answering' = "handler" /\ UNCHANGED job
     \/ Stop("PACKAGE_MISMATCH", TRUE, worker) /\ UNCHANGED answering
  /\ UNCHANGED <<callbacks, answerSecrets>>

(* The error event: a failed worker loads nothing more and stops at once.  *)
ReceiveFailure ==
  /\ failure /\ failure' = FALSE
  /\ loaded' = TRUE
  /\ IF ended
     THEN Terminate(worker) /\ UNCHANGED <<ended, promise, onEnds>>
     ELSE Stop("WORKER_FAILED", TRUE, worker)
  /\ UNCHANGED <<run, page, replies, posted>>

(* A terminated worker's messages may also never arrive.                   *)
Lost ==
  /\ worker = "terminated" /\ (replies # <<>> \/ failure)
  /\ replies' = <<>> /\ failure' = FALSE
  /\ UNCHANGED <<run, job, loaded, page, posted>>

(* A page callback's promise settles; a rejection stops the running job.   *)
CallbackSettles ==
  /\ callbacks > 0 /\ callbacks' = callbacks - 1
  /\ UNCHANGED job \/ Stop("CALLBACK_FAILED", loaded, worker)
  /\ UNCHANGED <<run, loaded, answering, answerSecrets, queue, posted>>

HandlerAnswersSlip ==
  /\ answering = "handler"
  /\ \/ answering' = "answered" /\ answerSecrets' = "page"
     \/ answering' = "no" /\ UNCHANGED answerSecrets
  /\ UNCHANGED <<run, job, loaded, callbacks, queue, posted>>

(* The page's handler resolves to its answer, whose secrets it has encoded *)
(* into bytes, or fails.                                                   *)
HandlerAnswers ==
  /\ answering = "handler"
  /\ \/ answering' = "answered" /\ answerSecrets' = "page" /\ UNCHANGED job
     \/ /\ answering' = "no" /\ UNCHANGED answerSecrets
        /\ Stop("CALLBACK_FAILED", loaded, worker)
  /\ UNCHANGED <<run, loaded, callbacks, queue, posted>>

(* #answer goes on after its await (send): the answer is transferred to a  *)
(* worker that still runs, or wiped because the job has ended or because   *)
(* postMessage throws.                                                     *)
AnswerSent ==
  /\ answering = "answered" /\ answering' = "no"
  /\ \/ /\ ~ended /\ worker \in Alive
        /\ answerSecrets' = "worker"
        /\ worker' = IF worker = "waiting" THEN "running" ELSE worker
        /\ UNCHANGED <<ended, promise, onEnds, timer>>
     \/ /\ ended \/ worker \notin Alive
        /\ answerSecrets' = Wiped(answerSecrets) /\ UNCHANGED job
     \/ /\ ~ended /\ worker \in Alive
        /\ answerSecrets' = Wiped(answerSecrets)
        /\ Stop("WORKER_FAILED", loaded, worker)
  /\ UNCHANGED <<run, loaded, callbacks, queue, posted>>

-----------------------------------------------------------------------------
WorkerSteps == WorkerLoads \/ WorkerRefuses \/ WorkerNews \/ WorkerAsks \/ WorkerReplies
               \/ WorkerBreaks

Receives ==
  \/ ReceiveAfterEnd \/ ReceiveReady \/ ReceiveNews \/ ReceiveAsk
  \/ ReceiveLast("result", "result")
  \/ ReceiveLast("error", "OPERATION_FAILED")
  \/ ReceiveLast("unreadable", "PACKAGE_MISMATCH")

Next ==
  \/ Cancel \/ TimerFires
  \/ Compiles \/ Starts \/ StartSettles
  \/ WorkerSteps
  \/ Receives \/ ReceiveFailure \/ Lost
  \/ CallbackSettles \/ HandlerAnswers \/ AnswerSent

Spec == Init /\ [][Next]_vars

(* The page's event loop runs what is due: continuations, timers, messages *)
(* and events; a compilation ends.  Nothing is assumed of the worker, of   *)
(* cancel() or of the page's own handlers.                                 *)
PageFairness ==
  /\ WF_vars(Compiles) /\ WF_vars(Starts) /\ WF_vars(StartSettles)
  /\ WF_vars(TimerFires) /\ WF_vars(Receives) /\ WF_vars(ReceiveFailure)
  /\ WF_vars(AnswerSent)

(* The operation itself ends (its loops are bounded) and the page answers. *)
OperationFairness == WF_vars(WorkerSteps) /\ WF_vars(HandlerAnswers)

FairSpec == Spec /\ PageFairness

-----------------------------------------------------------------------------
(* Properties.                                                             *)

(* The start limit runs exactly while a worker may still be loading for a  *)
(* job that goes on, the grace limit while one may be loading for a job    *)
(* that has ended: so no operation has a time limit once its worker has    *)
(* replied, a browser that never runs the worker cannot hold the job, and  *)
(* no worker outlives its job without a limit on that.                     *)
TimerDiscipline ==
  timer = IF worker \notin Alive \/ (loaded /\ ~ended) THEN "off"
          ELSE IF ended THEN "grace" ELSE "start"

(* A job settles its promise and frees its slot together, and once,        *)
(* whichever of a result, an error, a cancel, a limit and a failing        *)
(* callback comes first and whatever comes after it.                       *)
SettlesOnce ==
  /\ onEnds = IF ended THEN 1 ELSE 0
  /\ (promise # "pending") <=> ended

(* "its result is never used": a worker of another build has the request   *)
(* and may finish it, but its result never becomes the job's (#started).   *)
NoForeignResult == promise = "result" => build = "same"

(* No copy of a request's secrets stays in the page once run() is through  *)
(* with an ended job, and none of an answer's once #answer is.             *)
SecretsLeaveThePage ==
  /\ ended /\ start = "finished" => requestSecrets # "page"
  /\ answering = "no" => answerSecrets # "page"

(* Firefox crashes the page when a worker is terminated while it loads the *)
(* WebAssembly: only a limit of a minute may do that (stop, #terminate).   *)
NeverKilledWhileLoading ==
  [][worker = "loading" /\ worker' = "terminated" => TimerFires]_vars

(* An ended job calls no callback and asks no handler of the page.         *)
SilentAfterEnd ==
  [][ended => callbacks' <= callbacks /\ ~(answering = "no" /\ answering' = "handler")]_vars

(* An operation that ends, with a page that answers, settles its promise.  *)
Settles == OperationFairness => <>ended

(* The job keeps the contract of Job: it settles once, launches nothing    *)
(* after that and leaves no worker behind.                                 *)
Contract == INSTANCE Job
  WITH outcome <- promise,
       life <- IF worker = "none" THEN "none"
               ELSE IF worker = "terminated" THEN "gone" ELSE "live"

KeepsContract == Contract!Spec
=============================================================================
