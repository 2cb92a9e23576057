-------------------------- MODULE WorkerJobProofs --------------------------
(***************************************************************************)
(* Proofs about WorkerJob, for every bound on its news and questions: the  *)
(* safety invariants its run checks, and that every step is one of the     *)
(* contract Job or changes nothing the contract speaks of.                 *)
(***************************************************************************)
EXTENDS WorkerJob, TLAPS

(* What a worker that has loaded says first, and so what #loaded rests on. *)
FirstReplies == {"ready", "unreadable", "error"}

(* Before the page has heard of the worker, the first message waits in the *)
(* queue of every worker that got past loading.                            *)
FirstComesFirst ==
  /\ worker \in {"running", "waiting", "idle"} /\ ~loaded => replies # <<>>
  /\ ~loaded /\ replies # <<>> => Head(replies) \in FirstReplies

(* Nothing comes from a worker before run() makes one and it has loaded.   *)
NothingBeforeTheWorker ==
  /\ start = "awaiting" => worker = "none"
  /\ worker \in {"none", "empty", "loading"} => ~loaded /\ replies = <<>> /\ ~failure

(* A job whose worker is of another build has ended once it is heard of.   *)
ForeignEnds == build = "other" /\ loaded => ended

(* The worker asks one question at a time: it waits for the answer to its  *)
(* last message, and a waiting worker can only be terminated.              *)
OneQuestion ==
  /\ \A i \in 1..Len(replies) :
       replies[i] = "ask" => /\ i = Len(replies) /\ answering = "no"
                             /\ worker \in {"waiting", "terminated"}
  /\ answering # "no" => worker \in {"waiting", "terminated"}

(* Where the secrets are while the job goes on.                            *)
SecretsHeld ==
  /\ start = "finished" => requestSecrets # "page"
  /\ start = "settling" /\ ~ended => requestSecrets = "worker"
  /\ answering # "answered" => answerSecrets # "page"

IInv ==
  /\ TypeOK /\ TimerDiscipline /\ SettlesOnce /\ NoForeignResult
  /\ FirstComesFirst /\ NothingBeforeTheWorker /\ ForeignEnds /\ OneQuestion /\ SecretsHeld

-----------------------------------------------------------------------------
LEMMA InitIInv == Init => IInv
<1> SUFFICES ASSUME Init PROVE IInv
  OBVIOUS
<1>1. TypeOK
  <2>1. replies \in Seq(Replies)
    BY DEF Init
  <2>2. QED
    BY <2>1 DEF Init, TypeOK, Places
<1>2. QED
  BY <1>1 DEF Init, IInv, TimerDiscipline, SettlesOnce, NoForeignResult, FirstComesFirst,
              NothingBeforeTheWorker, ForeignEnds, OneQuestion, SecretsHeld, Alive

(* What stop() does to a job, from the page's side.                        *)
LEMMA StopType ==
  ASSUME TypeOK, NEW reason \in Outcomes, NEW l \in BOOLEAN,
         NEW w \in Alive \cup {"none", "terminated"}, Stop(reason, l, w)
  PROVE  /\ ended' = TRUE /\ promise' \in Outcomes \cup {"pending"} /\ onEnds' \in Nat
         /\ timer' \in {"off", "start", "grace"}
         /\ worker' \in Alive \cup {"none", "terminated"}
  BY DEF TypeOK, Stop, StopsNow, Terminate, Alive

LEMMA TypeStep == TypeOK /\ [Next]_vars => TypeOK'
<1> SUFFICES ASSUME TypeOK, [Next]_vars PROVE TypeOK'
  OBVIOUS
<1>1. CASE Cancel
  BY <1>1, StopType DEF Cancel, TypeOK, Outcomes, Reasons, run, page, queue, posted
<1>2. CASE TimerFires
  <2>1. /\ ended' \in BOOLEAN /\ promise' \in Outcomes \cup {"pending"} /\ onEnds' \in Nat
        /\ timer' = "off" /\ worker' \in Alive \cup {"none", "terminated"}
    <3>1. timer' = "off" /\ worker' \in Alive \cup {"none", "terminated"}
      BY <1>2 DEF TimerFires, Terminate, TypeOK
    <3>2. CASE ended
      BY <1>2, <3>1, <3>2 DEF TimerFires, TypeOK
    <3>3. CASE ~ended
      BY <1>2, <3>1, <3>3 DEF TimerFires, TypeOK, Outcomes, Reasons
    <3>4. QED
      BY <3>2, <3>3
  <2>2. QED
    BY <1>2, <2>1 DEF TimerFires, TypeOK, run, page, queue, posted
<1>3. CASE Compiles
  BY <1>3 DEF Compiles, TypeOK, job, page, queue, posted
<1>4. CASE Starts
  <2>1. start' \in {"awaiting", "settling", "finished"} /\ requestSecrets' \in Places
    BY <1>4 DEF Starts, TypeOK, Places, job
  <2>2. /\ ended' \in BOOLEAN /\ promise' \in Outcomes \cup {"pending"} /\ onEnds' \in Nat
        /\ timer' \in {"off", "start", "grace"}
        /\ worker' \in Alive \cup {"none", "terminated"}
    BY <1>4, StopType DEF Starts, TypeOK, StartLimit, Outcomes, Reasons, Alive, job
  <2>3. QED
    BY <1>4, <2>1, <2>2 DEF Starts, TypeOK, page, queue, posted
<1>5. CASE StartSettles
  BY <1>5 DEF StartSettles, Wiped, TypeOK, Places, job, page, queue, posted
<1>6. CASE WorkerSteps
  <2>1. ASSUME NEW from, NEW to \in Alive, NEW reply \in Replies, WorkerPosts(from, to, reply)
        PROVE  worker' \in Alive /\ replies' \in Seq(Replies)
    BY <2>1 DEF WorkerPosts, TypeOK
  <2>2. CASE WorkerLoads \/ WorkerRefuses \/ WorkerNews \/ WorkerAsks \/ WorkerReplies
    <3>1. worker' \in Alive /\ replies' \in Seq(Replies)
      BY <2>1, <2>2 DEF WorkerLoads, WorkerRefuses, WorkerNews, WorkerAsks, WorkerReplies,
                        Replies, Alive
    <3>2. UNCHANGED <<run, ended, promise, onEnds, timer, loaded, page, failure>>
          /\ news' \in Nat /\ asks' \in Nat
      BY <2>2 DEF WorkerLoads, WorkerRefuses, WorkerNews, WorkerAsks, WorkerReplies,
                  WorkerPosts, TypeOK, posted
    <3>3. QED
      BY <3>1, <3>2 DEF TypeOK, run, page
  <2>3. CASE WorkerBreaks
    BY <2>3 DEF WorkerBreaks, TypeOK, Alive, run, page, posted
  <2>4. QED
    BY <1>6, <2>2, <2>3 DEF WorkerSteps
<1>7. CASE Receives
  <2>1. ASSUME NEW reply, Receive(reply)
        PROVE  /\ replies' \in Seq(Replies) /\ loaded' = TRUE
               /\ UNCHANGED <<run, failure, posted>>
    BY <2>1 DEF Receive, TypeOK
  <2>2. /\ replies' \in Seq(Replies) /\ loaded' = TRUE
        /\ UNCHANGED <<run, failure, posted>>
    BY <1>7, <2>1 DEF Receives, ReceiveAfterEnd, ReceiveReady, ReceiveNews, ReceiveAsk,
                      ReceiveLast
  <2>3. answering' \in {"no", "handler", "answered"} /\ callbacks' \in Nat
        /\ answerSecrets' = answerSecrets
    <3>1. CASE ReceiveNews
      <4>1. callbacks' = callbacks \/ callbacks' = callbacks + 1
        BY <3>1 DEF ReceiveNews
      <4>2. answering' = answering /\ answerSecrets' = answerSecrets
        BY <3>1 DEF ReceiveNews
      <4>3. QED
        BY <4>1, <4>2 DEF TypeOK
    <3>2. CASE ReceiveAsk
      BY <3>2 DEF ReceiveAsk, TypeOK
    <3>3. CASE UNCHANGED page
      BY <3>3 DEF TypeOK, page
    <3>4. QED
      BY <1>7, <3>1, <3>2, <3>3 DEF Receives, ReceiveAfterEnd, ReceiveReady, ReceiveLast
  <2>4. /\ ended' \in BOOLEAN /\ promise' \in Outcomes \cup {"pending"} /\ onEnds' \in Nat
        /\ timer' \in {"off", "start", "grace"}
        /\ worker' \in Alive \cup {"none", "terminated"}
    <3>1. CASE ReceiveAfterEnd
      BY <3>1 DEF ReceiveAfterEnd, Terminate, TypeOK
    <3>2. CASE UNCHANGED job
      BY <3>2 DEF job, TypeOK
    <3>3. CASE ReceiveReady
      BY <3>3, StopType DEF ReceiveReady, TimerAfterReady, TypeOK, Outcomes, Reasons
    <3>4. CASE \E reason \in Outcomes : Stop(reason, TRUE, worker)
      BY <3>4, StopType DEF TypeOK
    <3>5. QED
      BY <1>7, <3>1, <3>2, <3>3, <3>4 DEF Receives, ReceiveNews, ReceiveAsk, ReceiveLast,
                                          Outcomes, Reasons
  <2>5. QED
    BY <2>2, <2>3, <2>4 DEF TypeOK, run, posted
<1>8. CASE ReceiveFailure
  <2>1. /\ ended' \in BOOLEAN /\ promise' \in Outcomes \cup {"pending"} /\ onEnds' \in Nat
        /\ timer' \in {"off", "start", "grace"}
        /\ worker' \in Alive \cup {"none", "terminated"}
    BY <1>8, StopType DEF ReceiveFailure, Terminate, TypeOK, Outcomes, Reasons
  <2>2. QED
    BY <1>8, <2>1 DEF ReceiveFailure, TypeOK, run, page, posted
<1>9. CASE Lost
  <2>1. replies' \in Seq(Replies)
    BY <1>9 DEF Lost
  <2>2. QED
    BY <1>9, <2>1 DEF Lost, TypeOK, run, job, page, posted
<1>10. CASE CallbackSettles
  <2>1. /\ ended' \in BOOLEAN /\ promise' \in Outcomes \cup {"pending"} /\ onEnds' \in Nat
        /\ timer' \in {"off", "start", "grace"}
        /\ worker' \in Alive \cup {"none", "terminated"}
    BY <1>10, StopType DEF CallbackSettles, TypeOK, Outcomes, Reasons, job
  <2>2. QED
    BY <1>10, <2>1 DEF CallbackSettles, TypeOK, run, queue, posted
<1>11. CASE HandlerAnswers
  <2>1. /\ ended' \in BOOLEAN /\ promise' \in Outcomes \cup {"pending"} /\ onEnds' \in Nat
        /\ timer' \in {"off", "start", "grace"}
        /\ worker' \in Alive \cup {"none", "terminated"}
    BY <1>11, StopType DEF HandlerAnswers, TypeOK, Outcomes, Reasons, job
  <2>2. QED
    BY <1>11, <2>1 DEF HandlerAnswers, TypeOK, Places, run, queue, posted
<1>12. CASE AnswerSent
  <2>1. /\ ended' \in BOOLEAN /\ promise' \in Outcomes \cup {"pending"} /\ onEnds' \in Nat
        /\ timer' \in {"off", "start", "grace"}
        /\ worker' \in Alive \cup {"none", "terminated"}
    BY <1>12, StopType DEF AnswerSent, TypeOK, Outcomes, Reasons, Alive, job
  <2>2. QED
    BY <1>12, <2>1 DEF AnswerSent, Wiped, TypeOK, Places, run, queue, posted
<1>13. CASE UNCHANGED vars
  BY <1>13 DEF vars, run, job, page, queue, posted, TypeOK
<1>14. QED
  BY <1>1, <1>2, <1>3, <1>4, <1>5, <1>6, <1>7, <1>8, <1>9, <1>10, <1>11, <1>12, <1>13 DEF Next

(* stop() leaves a waiting worker waiting or terminates it.                *)
LEMMA StopKeepsWaiting ==
  ASSUME NEW reason, NEW l, NEW w \in {"waiting", "terminated"}, Stop(reason, l, w)
  PROVE  worker' \in {"waiting", "terminated"}
  BY DEF Stop, StopsNow, Terminate

LEMMA OneQuestionStep ==
  TypeOK /\ NothingBeforeTheWorker /\ OneQuestion /\ [Next]_vars => OneQuestion'
<1> SUFFICES ASSUME TypeOK, NothingBeforeTheWorker, OneQuestion, [Next]_vars PROVE OneQuestion'
  OBVIOUS
<1> DEFINE Held(w) == w \in {"waiting", "terminated"}
<1>1. ASSUME UNCHANGED <<replies, answering>>, Held(worker) => Held(worker') PROVE OneQuestion'
  BY <1>1 DEF OneQuestion
<1>2. CASE Cancel
  BY <1>1, <1>2, StopKeepsWaiting DEF Cancel, page, queue
<1>3. CASE TimerFires
  BY <1>1, <1>3 DEF TimerFires, Terminate, page, queue
<1>4. CASE Compiles \/ StartSettles
  BY <1>1, <1>4 DEF Compiles, StartSettles, job, page, queue
<1>5. CASE Starts
  <2>1. replies' = <<>> /\ answering' = "no"
    BY <1>5 DEF Starts, NothingBeforeTheWorker, OneQuestion, page, queue
  <2>2. QED
    BY <2>1 DEF OneQuestion
<1>6. CASE WorkerSteps
  <2>1. CASE WorkerBreaks
    BY <2>1 DEF WorkerBreaks, OneQuestion, page
  <2>2. ASSUME NEW from \in {"loading", "running"}, NEW to, NEW reply \in Replies,
               reply = "ask" => to = "waiting", WorkerPosts(from, to, reply)
        PROVE  OneQuestion'
    <3>1. /\ worker = from /\ worker' = to /\ replies' = Append(replies, reply)
          /\ UNCHANGED answering
      BY <2>2 DEF WorkerPosts, page
    <3>2. answering = "no" /\ \A i \in 1..Len(replies) : replies[i] # "ask"
      BY <2>2, <3>1 DEF OneQuestion
    <3>3. /\ Len(replies') = Len(replies) + 1 /\ replies'[Len(replies) + 1] = reply
          /\ Len(replies) \in Nat
          /\ \A i \in 1..Len(replies) : replies'[i] = replies[i]
      BY <2>2, <3>1 DEF TypeOK
    <3>4. QED
      BY <2>2, <3>1, <3>2, <3>3 DEF OneQuestion
  <2>3. CASE WorkerLoads \/ WorkerRefuses
    BY <2>2, <2>3 DEF WorkerLoads, WorkerRefuses, Replies
  <2>4. CASE WorkerNews
    <3>1. WorkerPosts("running", "running", "news")
      BY <2>4 DEF WorkerNews
    <3>2. QED
      BY <2>2, <3>1 DEF Replies
  <2>5. CASE WorkerAsks
    <3>1. WorkerPosts("running", "waiting", "ask")
      BY <2>5 DEF WorkerAsks
    <3>2. QED
      BY <2>2, <3>1 DEF Replies
  <2>6. CASE WorkerReplies
    <3>1. WorkerPosts("running", "idle", "result") \/ WorkerPosts("running", "idle", "error")
      BY <2>6 DEF WorkerReplies
    <3>2. QED
      BY <2>2, <3>1 DEF Replies
  <2>7. QED
    BY <1>6, <2>1, <2>3, <2>4, <2>5, <2>6 DEF WorkerSteps
<1>7. CASE Receives
  <2>1. ASSUME NEW reply, Receive(reply)
        PROVE  /\ replies # <<>> /\ reply = replies[1]
               /\ Len(replies) \in Nat /\ Len(replies') = Len(replies) - 1
               /\ \A i \in 1..Len(replies') : replies'[i] = replies[i + 1]
    BY <2>1 DEF Receive, TypeOK
  <2>2. ASSUME NEW reply, Receive(reply), UNCHANGED answering, Held(worker) => Held(worker')
        PROVE  OneQuestion'
    BY <2>1, <2>2 DEF OneQuestion
  <2>3. CASE ReceiveAfterEnd
    BY <2>2, <2>3 DEF ReceiveAfterEnd, Terminate, page
  <2>4. CASE ReceiveReady
    BY <2>2, <2>4, StopKeepsWaiting DEF ReceiveReady, page
  <2>5. CASE ReceiveNews
    BY <2>2, <2>5, StopKeepsWaiting DEF ReceiveNews, job
  <2>6. CASE ReceiveAsk
    <3>1. Receive("ask")
      BY <2>6 DEF ReceiveAsk
    <3>2. Held(worker) /\ Len(replies') = 0
      BY <2>1, <3>1 DEF OneQuestion
    <3>3. Held(worker')
      BY <2>6, <3>2, StopKeepsWaiting DEF ReceiveAsk, job
    <3>4. QED
      BY <3>2, <3>3 DEF OneQuestion
  <2>7. ASSUME NEW reply, NEW reason, ReceiveLast(reply, reason) PROVE OneQuestion'
    BY <2>2, <2>7, StopKeepsWaiting DEF ReceiveLast, page
  <2>8. QED
    BY <1>7, <2>3, <2>4, <2>5, <2>6, <2>7 DEF Receives
<1>8. CASE ReceiveFailure
  BY <1>1, <1>8, StopKeepsWaiting DEF ReceiveFailure, Terminate, page
<1>9. CASE Lost
  BY <1>9 DEF Lost, OneQuestion, job, page
<1>10. CASE CallbackSettles
  BY <1>1, <1>10, StopKeepsWaiting DEF CallbackSettles, job, queue
<1>11. CASE HandlerAnswers
  <2>1. answering # "no" /\ Held(worker) /\ UNCHANGED replies
    BY <1>11 DEF HandlerAnswers, OneQuestion, queue
  <2>2. Held(worker')
    BY <1>11, <2>1, StopKeepsWaiting DEF HandlerAnswers, job
  <2>3. QED
    BY <2>1, <2>2 DEF OneQuestion
<1>12. CASE AnswerSent
  BY <1>12 DEF AnswerSent, OneQuestion, queue
<1>13. CASE UNCHANGED vars
  BY <1>1, <1>13 DEF vars, job, page, queue
<1>14. QED
  BY <1>2, <1>3, <1>4, <1>5, <1>6, <1>7, <1>8, <1>9, <1>10, <1>11, <1>12, <1>13 DEF Next

(* A reply taken from the queue is its head, and the rest stays.           *)
LEMMA ReceiveFacts ==
  ASSUME IInv, NEW reply, Receive(reply)
  PROVE  /\ reply = Head(replies) /\ worker \notin {"none", "empty", "loading"} /\ start # "awaiting"
         /\ ~loaded => reply \in FirstReplies
         /\ loaded' = TRUE
         /\ UNCHANGED <<compile, build, start, requestSecrets, failure>>
  BY DEF IInv, Receive, FirstComesFirst, NothingBeforeTheWorker, run

LEMMA InvStep == IInv /\ [Next]_vars => IInv'
<1> SUFFICES ASSUME IInv, [Next]_vars PROVE IInv'
  OBVIOUS
<1> USE DEF Alive, Places, TimerDiscipline, SettlesOnce, NoForeignResult, FirstComesFirst,
            NothingBeforeTheWorker, ForeignEnds, SecretsHeld
<1>0. TypeOK /\ TypeOK' /\ OneQuestion /\ OneQuestion'
  BY TypeStep, OneQuestionStep DEF IInv, NothingBeforeTheWorker
<1>1. CASE Cancel
  BY <1>0, <1>1 DEF Cancel, Stop, StopsNow, Terminate, run, page, queue, posted, IInv, TypeOK
<1>2. CASE TimerFires
  BY <1>0, <1>2 DEF TimerFires, Terminate, run, page, queue, posted, IInv, TypeOK
<1>3. CASE Compiles
  BY <1>0, <1>3 DEF Compiles, job, page, queue, posted, IInv, TypeOK
<1>4. CASE Starts
  BY <1>0, <1>4 DEF Starts, Stop, StopsNow, Terminate, MayLaunch, StartLimit, job, page, queue,
     posted, IInv, TypeOK
<1>5. CASE StartSettles
  BY <1>0, <1>5 DEF StartSettles, Wiped, job, page, queue, posted, IInv, TypeOK
<1>6. CASE WorkerSteps
  <2>1. CASE WorkerBreaks
    BY <1>0, <1>6, <2>1 DEF WorkerBreaks, run, page, posted, IInv, TypeOK
  <2>2. ASSUME NEW from \in {"loading", "running"}, NEW to \in {"running", "waiting", "idle"},
               NEW reply \in Replies, WorkerPosts(from, to, reply),
               from = "loading" => reply \in FirstReplies
        PROVE  IInv'
    <3>1. /\ replies' # <<>>
          /\ Head(replies') = IF replies = <<>> THEN reply ELSE Head(replies)
      BY <1>0, <2>2 DEF WorkerPosts, TypeOK
    <3>2. QED
      BY <1>0, <2>2, <3>1 DEF WorkerPosts, run, page, IInv, TypeOK, FirstReplies
  <2>3. CASE WorkerLoads
    BY <2>2, <2>3 DEF WorkerLoads, Replies, FirstReplies
  <2>4. CASE WorkerRefuses
    BY <2>2, <2>4 DEF WorkerRefuses, Replies, FirstReplies
  <2>5. CASE WorkerNews
    <3>1. WorkerPosts("running", "running", "news")
      BY <2>5 DEF WorkerNews
    <3>2. QED
      BY <2>2, <3>1 DEF Replies, FirstReplies
  <2>6. CASE WorkerAsks
    <3>1. WorkerPosts("running", "waiting", "ask")
      BY <2>6 DEF WorkerAsks
    <3>2. QED
      BY <2>2, <3>1 DEF Replies, FirstReplies
  <2>7. CASE WorkerReplies
    <3>1. WorkerPosts("running", "idle", "result") \/ WorkerPosts("running", "idle", "error")
      BY <2>7 DEF WorkerReplies
    <3>2. QED
      BY <2>2, <3>1 DEF Replies, FirstReplies
  <2>8. QED
    BY <1>6, <2>1, <2>3, <2>4, <2>5, <2>6, <2>7 DEF WorkerSteps
<1>7. CASE Receives
  <2> DEFINE Taken == /\ worker \notin {"none", "empty", "loading"}
                      /\ start # "awaiting" /\ loaded' = TRUE
                      /\ UNCHANGED <<compile, build, start, requestSecrets, failure>>
  <2>1. CASE ReceiveAfterEnd
    <3>1. Taken
      BY <2>1, ReceiveFacts DEF ReceiveAfterEnd
    <3>2. QED
      BY <1>0, <2>1, <3>1 DEF ReceiveAfterEnd, Terminate, page, IInv, TypeOK
  <2>2. CASE ReceiveReady
    <3>1. Taken
      BY <2>2, ReceiveFacts DEF ReceiveReady
    <3>2. CASE build = "same"
      BY <1>0, <2>2, <3>1, <3>2 DEF ReceiveReady, BuildsAgree, TimerAfterReady, page, IInv, TypeOK
    <3>3. CASE build # "same"
      BY <1>0, <2>2, <3>1, <3>3 DEF ReceiveReady, BuildsAgree, Stop, StopsNow, Terminate, page,
         IInv, TypeOK
    <3>4. QED
      BY <3>2, <3>3
  <2>3. CASE ReceiveNews
    <3>a. Receive("news")
      BY <2>3 DEF ReceiveNews
    <3>b. Taken /\ loaded \in BOOLEAN
      BY <1>0, <3>a, ReceiveFacts DEF TypeOK
    <3>c. loaded
      BY <3>a, <3>b, ReceiveFacts DEF FirstReplies
    <3>1. Taken /\ loaded
      BY <3>b, <3>c
    <3>2. QED
      BY <1>0, <2>3, <3>1 DEF ReceiveNews, Stop, StopsNow, Terminate, job, IInv, TypeOK
  <2>4. CASE ReceiveAsk
    <3>a. Receive("ask")
      BY <2>4 DEF ReceiveAsk
    <3>b. Taken /\ loaded \in BOOLEAN
      BY <1>0, <3>a, ReceiveFacts DEF TypeOK
    <3>c. loaded
      BY <3>a, <3>b, ReceiveFacts DEF FirstReplies
    <3>1. Taken /\ loaded
      BY <3>b, <3>c
    <3>d. answering = "no"
      BY <1>0, <3>a DEF Receive, OneQuestion, TypeOK
    <3>2. QED
      BY <1>0, <2>4, <3>1, <3>d DEF ReceiveAsk, Stop, StopsNow, Terminate, job, IInv, TypeOK
  <2>5. CASE ReceiveLast("result", "result")
    <3>a. Receive("result")
      BY <2>5 DEF ReceiveLast
    <3>b. Taken /\ loaded \in BOOLEAN
      BY <1>0, <3>a, ReceiveFacts DEF TypeOK
    <3>c. loaded
      BY <3>a, <3>b, ReceiveFacts DEF FirstReplies
    <3>1. Taken /\ loaded
      BY <3>b, <3>c
    <3>2. build = "same"
      BY <1>0, <2>5, <3>1 DEF ReceiveLast, IInv, TypeOK
    <3>3. QED
      BY <1>0, <2>5, <3>1, <3>2 DEF ReceiveLast, Stop, StopsNow, Terminate, page, IInv, TypeOK
  <2>6. ASSUME NEW reply, NEW reason \in Reasons, ReceiveLast(reply, reason)
        PROVE  IInv'
    <3>1. Taken
      BY <2>6, ReceiveFacts DEF ReceiveLast
    <3>2. reason # "pending" /\ reason # "result"
      BY <2>6 DEF Reasons
    <3>3. QED
      BY <1>0, <2>6, <3>1, <3>2 DEF ReceiveLast, Stop, StopsNow, Terminate, page, IInv, TypeOK
  <2>7. QED
    BY <1>7, <2>1, <2>2, <2>3, <2>4, <2>5, <2>6 DEF Receives, Reasons
<1>8. CASE ReceiveFailure
  BY <1>0, <1>8 DEF ReceiveFailure, Stop, StopsNow, Terminate, run, page, posted, IInv, TypeOK
<1>9. CASE Lost
  BY <1>0, <1>9 DEF Lost, run, job, page, posted, IInv, TypeOK
<1>10. CASE CallbackSettles
  BY <1>0, <1>10 DEF CallbackSettles, Stop, StopsNow, Terminate, run, job, queue, posted, IInv,
     TypeOK
<1>11. CASE HandlerAnswers
  BY <1>0, <1>11 DEF HandlerAnswers, Stop, StopsNow, Terminate, run, job, queue, posted, IInv,
     TypeOK
<1>12. CASE AnswerSent
  BY <1>0, <1>12 DEF AnswerSent, Wiped, Stop, StopsNow, Terminate, run, job, queue, posted,
     IInv, TypeOK
<1>13. CASE UNCHANGED vars
  BY <1>0, <1>13 DEF vars, run, job, page, queue, posted, IInv, TypeOK
<1>14. QED
  BY <1>1, <1>2, <1>3, <1>4, <1>5, <1>6, <1>7, <1>8, <1>9, <1>10, <1>11, <1>12, <1>13 DEF Next

-----------------------------------------------------------------------------
(* In every reachable state of a job, whatever the bounds, the inductive   *)
(* invariant holds.                                                        *)
THEOREM Invariance == Spec => []IInv
<1>1. Init => IInv
  BY InitIInv
<1>2. IInv /\ [Next]_vars => IInv'
  BY InvStep
<1>3. QED
  BY <1>1, <1>2, PTL DEF Spec

(* Every variable of the job keeps its type.                               *)
THEOREM TypeCorrect == Spec => []TypeOK
<1>1. IInv => TypeOK
  BY DEF IInv
<1>2. QED
  BY <1>1, Invariance, PTL

(* A time limit runs exactly while a worker may still be loading: the      *)
(* start limit for a job that goes on, the grace limit for one that ended. *)
THEOREM TimersAreExact == Spec => []TimerDiscipline
<1>1. IInv => TimerDiscipline
  BY DEF IInv
<1>2. QED
  BY <1>1, Invariance, PTL

(* The promise settles and onEnd frees the slot together and only once.    *)
THEOREM EndsOnce == Spec => []SettlesOnce
<1>1. IInv => SettlesOnce
  BY DEF IInv
<1>2. QED
  BY <1>1, Invariance, PTL

(* The result of a worker of another build never becomes the job's.        *)
THEOREM ForeignResultsUnused == Spec => []NoForeignResult
<1>1. IInv => NoForeignResult
  BY DEF IInv
<1>2. QED
  BY <1>1, Invariance, PTL

(* After an ended run() and after an answer no secret bytes stay readable  *)
(* in the page.                                                            *)
THEOREM SecretsGone == Spec => []SecretsLeaveThePage
<1>1. IInv => SecretsLeaveThePage
  BY DEF IInv, SecretsHeld, SecretsLeaveThePage, TypeOK
<1>2. QED
  BY <1>1, Invariance, PTL

(* Only a limit terminates a worker that loads the WebAssembly: stop()     *)
(* leaves it to the grace limit, and messages and errors come later.       *)
THEOREM LoadingWorkersAreLeft == Spec => NeverKilledWhileLoading
<1>1. IInv /\ [Next]_vars =>
        [worker = "loading" /\ worker' = "terminated" => TimerFires]_vars
  <2> SUFFICES ASSUME IInv, Next, worker = "loading", worker' = "terminated"
               PROVE  TimerFires
    OBVIOUS
  <2>1. ~loaded /\ replies = <<>> /\ ~failure /\ start # "awaiting"
    BY DEF IInv, NothingBeforeTheWorker
  <2>2. \A reason : ~Stop(reason, loaded, worker)
    BY <2>1 DEF Stop, StopsNow, Alive
  <2>3. ~Receives /\ ~ReceiveFailure /\ ~Starts /\ ~WorkerSteps /\ ~AnswerSent
    <3>1. ~Receives
      BY <2>1 DEF Receives, ReceiveAfterEnd, ReceiveReady, ReceiveNews, ReceiveAsk, ReceiveLast,
                  Receive
    <3>2. ~WorkerSteps
      BY DEF WorkerSteps, WorkerLoads, WorkerRefuses, WorkerNews, WorkerAsks, WorkerReplies,
             WorkerBreaks, WorkerPosts
    <3>3. ~AnswerSent
      BY <2>2 DEF AnswerSent, IInv, OneQuestion
    <3>4. QED
      BY <2>1, <3>1, <3>2, <3>3 DEF ReceiveFailure, Starts
  <2>4. QED
    BY <2>2, <2>3 DEF Next, Cancel, Compiles, StartSettles, Lost, CallbackSettles,
                      HandlerAnswers, job
<1>2. QED
  BY <1>1, Invariance, PTL DEF Spec, NeverKilledWhileLoading

(* An ended job calls no callback and asks no handler of the page.         *)
THEOREM EndedJobsAreSilent == Spec => SilentAfterEnd
<1>1. IInv /\ [Next]_vars =>
        [ended => callbacks' <= callbacks /\ ~(answering = "no" /\ answering' = "handler")]_vars
  <2> SUFFICES ASSUME IInv, Next, ended
               PROVE  callbacks' <= callbacks /\ ~(answering = "no" /\ answering' = "handler")
    OBVIOUS
  <2>1. callbacks \in Nat
    BY DEF IInv, TypeOK
  <2>2. CASE CallbackSettles \/ HandlerAnswers \/ AnswerSent
    BY <2>1, <2>2 DEF CallbackSettles, HandlerAnswers, AnswerSent
  <2>3. CASE UNCHANGED page
    BY <2>1, <2>3 DEF page
  <2>4. CASE WorkerSteps
    BY <2>3, <2>4 DEF WorkerSteps, WorkerLoads, WorkerRefuses, WorkerNews, WorkerAsks,
                      WorkerReplies, WorkerBreaks, WorkerPosts
  <2>5. CASE Receives
    BY <2>3, <2>5 DEF Receives, ReceiveAfterEnd, ReceiveReady, ReceiveNews, ReceiveAsk,
                      ReceiveLast
  <2>6. QED
    BY <2>2, <2>3, <2>4, <2>5 DEF Next, Cancel, TimerFires, Compiles, Starts, StartSettles,
                                  ReceiveFailure, Lost
<1>2. QED
  BY <1>1, Invariance, PTL DEF Spec, SilentAfterEnd

(* Each step of a job is a step of the contract Job or one it does not     *)
(* see: an outcome is final, no worker starts after it, none comes back.   *)
THEOREM StepsKeepContract == Spec => Contract!Init /\ [][Contract!Next]_(Contract!jobVars)
<1>1. Init => Contract!Init
  BY DEF Init, Contract!Init
<1>2. IInv /\ [Next]_vars => [Contract!Next]_(Contract!jobVars)
  <2> SUFFICES ASSUME IInv, [Next]_vars PROVE [Contract!Next]_(Contract!jobVars)
    OBVIOUS
  <2> DEFINE Life(w) == IF w = "none" THEN "none"
                        ELSE IF w = "terminated" THEN "gone" ELSE "live"
             Step == [Contract!Next]_(Contract!jobVars)
  <2>1. TypeOK /\ (promise # "pending" <=> ended)
    BY DEF IInv, SettlesOnce
  <2>2. ASSUME promise' = promise, worker' = worker PROVE Step
    BY <2>2 DEF Contract!jobVars
  <2>3. ASSUME promise' = promise, Life(worker') = Life(worker) PROVE Step
    BY <2>3 DEF Contract!jobVars
  <2>4. ASSUME ended, promise' = promise, worker' \in {worker, "terminated"}, worker # "none"
        PROVE  Step
    BY <2>1, <2>2, <2>4 DEF Contract!jobVars, Contract!Next, Contract!Reap
  <2>5. ASSUME ~ended, promise' \in Outcomes,
               \/ worker' = worker
               \/ worker = "none" /\ worker' \in Alive
               \/ worker \in Alive /\ worker' = "terminated"
        PROVE  Step
    BY <2>1, <2>5 DEF Contract!Next, Contract!Settle, Alive
  <2>6. ASSUME NEW reason \in Outcomes, NEW l, Stop(reason, l, worker) PROVE Step
    <3>1. CASE ended
      BY <2>2, <2>6, <3>1 DEF Stop
    <3>2. CASE ~ended
      <4>1. promise' = reason /\ (worker' = worker \/ (worker \in Alive /\ worker' = "terminated"))
        BY <2>6, <3>2 DEF Stop, Terminate
      <4>2. QED
        BY <2>5, <3>2, <4>1
    <3>3. QED
      BY <3>1, <3>2
  <2>7. CASE TimerFires
    <3>1. worker \in Alive /\ worker' = "terminated"
      BY <2>1, <2>7 DEF TimerFires, Terminate, IInv, TimerDiscipline
    <3>2. QED
      BY <2>1, <2>4, <2>5, <2>7, <3>1 DEF TimerFires, Outcomes, Reasons, Alive
  <2>8. CASE Starts
    <3>1. worker = "none"
      BY <2>8 DEF Starts, IInv, NothingBeforeTheWorker
    <3>2. CASE UNCHANGED job \/ \E reason \in Reasons : Stop(reason, loaded, worker)
      BY <2>2, <2>6, <3>2 DEF job, Outcomes
    <3>3. CASE ~ended /\ worker' = "loading" /\ UNCHANGED promise
      BY <2>1, <3>1, <3>3 DEF Contract!Next, Contract!Launch
    <3>4. CASE ~ended /\ Stop("WORKER_FAILED", loaded, "empty")
      <4>1. promise' = "WORKER_FAILED" /\ worker' \in {"empty", "terminated"}
        BY <3>4 DEF Stop, Terminate, Alive
      <4>2. loaded = FALSE
        BY <2>1, <3>1 DEF IInv, NothingBeforeTheWorker, TypeOK
      <4>3. worker' = "empty"
        BY <3>4, <4>2 DEF Stop, StopsNow, Alive
      <4>4. worker' \in Alive /\ promise' \in Outcomes
        BY <4>1, <4>3 DEF Outcomes, Reasons, Alive
      <4>5. QED
        BY <2>5, <3>1, <3>4, <4>4
    <3>5. QED
      BY <2>8, <3>2, <3>3, <3>4 DEF Starts, MayLaunch, Reasons
  <2>9. CASE WorkerSteps
    <3>1. promise' = promise /\ worker \in Alive /\ worker' \in Alive
      BY <2>9 DEF WorkerSteps, WorkerLoads, WorkerRefuses, WorkerNews, WorkerAsks, WorkerReplies,
                  WorkerBreaks, WorkerPosts, Alive
    <3>2. QED
      BY <2>3, <3>1 DEF Alive
  <2>10. CASE Receives
    <3>1. CASE ReceiveAfterEnd
      BY <2>1, <2>2, <2>4, <3>1, ReceiveFacts DEF ReceiveAfterEnd, Terminate
    <3>2. CASE \E reason \in Outcomes : Stop(reason, TRUE, worker)
      BY <2>6, <3>2
    <3>3. CASE UNCHANGED <<promise, worker>>
      BY <2>2, <3>3
    <3>4. QED
      BY <2>10, <3>1, <3>2, <3>3 DEF Receives, ReceiveReady, ReceiveNews, ReceiveAsk,
                                     ReceiveLast, Outcomes, Reasons, job
  <2>11. CASE ReceiveFailure
    <3>1. worker # "none"
      BY <2>11 DEF ReceiveFailure, IInv, NothingBeforeTheWorker
    <3>2. QED
      BY <2>4, <2>6, <2>11, <3>1 DEF ReceiveFailure, Terminate, Outcomes, Reasons
  <2>12. CASE Cancel \/ CallbackSettles \/ HandlerAnswers
    BY <2>2, <2>6, <2>12 DEF Cancel, CallbackSettles, HandlerAnswers, Outcomes, Reasons, job
  <2>13. CASE AnswerSent
    <3>1. CASE UNCHANGED job \/ Stop("WORKER_FAILED", loaded, worker)
      BY <2>2, <2>6, <3>1 DEF job, Outcomes, Reasons
    <3>2. CASE /\ worker \in Alive /\ promise' = promise
               /\ worker' = IF worker = "waiting" THEN "running" ELSE worker
      BY <2>3, <3>2 DEF Alive
    <3>3. QED
      BY <2>13, <3>1, <3>2 DEF AnswerSent
  <2>14. CASE Compiles \/ StartSettles \/ Lost \/ UNCHANGED vars
    BY <2>2, <2>14 DEF Compiles, StartSettles, Lost, job, vars
  <2>15. QED
    BY <2>7, <2>8, <2>9, <2>10, <2>11, <2>12, <2>13, <2>14 DEF Next
<1>3. QED
  BY <1>1, <1>2, Invariance, PTL DEF Spec
=============================================================================
