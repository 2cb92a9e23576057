--------------------------- MODULE HiddenSession ----------------------------
(***************************************************************************)
(* A session of hidden wallets: openHiddenWallets and its handle in        *)
(* web/client.js, hiddenWallets of web/core-worker.js and HiddenWallets of *)
(* src/hidden.rs behind it.  The page opens one wallet after another and   *)
(* closes or cancels at any moment, while the worker asks for the next     *)
(* request with each answer.  The job of the session is that of WorkerJob, *)
(* reduced to its end.  A definition named ...Slip is a plausible bug in   *)
(* the definition after it.                                                *)
(***************************************************************************)
EXTENDS Naturals, Sequences, FiniteSets

CONSTANTS Opens,         \* calls of the handle's open()
          Passwords,     \* what they may type
          None           \* no open, no request

ASSUME NoneAssumption == None \notin Opens

VARIABLES
  passesCheck, \* the passwords whose wallet would pass a check (rule I29)
  job,         \* the job's end: "running" or how its promise `done` settles
  told,        \* whether the continuation of `done` has run
  started,     \* the promise of openHiddenWallets
  nextRequest, \* whether the page holds the resolver of the worker's question
  pendingOpen, \* the open that waits for its wallet
  closing,     \* the promise of close()
  typed,       \* what each open has typed
  open,        \* how each open settled, with the open its wallet was made for
  request,     \* a request on its way to the worker
  worker,      \* what the worker does
  used,        \* the passwords that opened a wallet (HiddenWallets.used)
  replies      \* messages on their way to the page

page    == <<started, nextRequest, pendingOpen, closing, typed, open>>
session == <<worker, used>>
vars    == <<passesCheck, job, told, page, request, session, replies>>

Close      == [kind |-> "close", for |-> None]
Open(o)    == [kind |-> "open", for |-> o]
NoRequest  == [kind |-> "none", for |-> None]
Requests   == {Close, NoRequest} \cup {Open(o) : o \in Opens}
NotSettled == {"idle", "pending"}
Nothing    == [how |-> "idle", wallet |-> None]

TypeOK ==
  /\ passesCheck \subseteq Passwords /\ used \subseteq Passwords
  /\ job \in {"running", "closed", "CANCELLED", "failed"} /\ told \in BOOLEAN
  /\ started \in {"pending", "ready", "CANCELLED", "failed"}
  /\ nextRequest \in BOOLEAN /\ pendingOpen \in Opens \cup {None}
  /\ closing \in {"no", "waiting", "resolved"}
  /\ typed \in [Opens -> Passwords \cup {"nothing", "unacceptable"}]
  /\ open \in [Opens -> [how : NotSettled \cup {"opened", "refused", "CANCELLED", "failed",
                                                 "SESSION_CLOSED", "BUSY"},
                         wallet : Opens \cup {None}]]
  /\ request \in Requests
  /\ worker \in [does : {"starting", "asking", "opening", "over"}, for : Opens \cup {None}]
  /\ replies \in Seq([kind : {"ready", "opened", "refused", "result", "error"},
                      for : Opens \cup {None}])

Init ==
  /\ passesCheck \in SUBSET Passwords /\ used = {}
  /\ job = "running" /\ told = FALSE
  /\ started = "pending" /\ nextRequest = FALSE /\ pendingOpen = None /\ closing = "no"
  /\ typed = [o \in Opens |-> "nothing"] /\ open = [o \in Opens |-> Nothing]
  /\ request = NoRequest
  /\ worker = [does |-> "starting", for |-> None] /\ replies = <<>>

-----------------------------------------------------------------------------
(* The worker (hiddenWallets) and the Rust session (HiddenWallets.open).   *)

WorkerPosts(does, kind, o) ==
  /\ worker' = [does |-> does, for |-> None]
  /\ replies' = Append(replies, [kind |-> kind, for |-> o])
  /\ UNCHANGED <<passesCheck, job, told, page, request>>

(* The session is made, its work area reserved, and the worker asks for    *)
(* the first request; or it is refused.                                    *)
WorkerStarts ==
  /\ worker.does = "starting"
  /\ \/ WorkerPosts("asking", "ready", None)
     \/ WorkerPosts("over", "error", None)
  /\ UNCHANGED used

(* The answer to the worker's question arrives.                            *)
WorkerTakes ==
  /\ worker.does = "asking" /\ request # NoRequest
  /\ request' = NoRequest
  /\ \/ /\ request = Close
        /\ worker' = [does |-> "over", for |-> None]
        /\ replies' = Append(replies, [kind |-> "result", for |-> None])
     \/ /\ request # Close
        /\ worker' = [does |-> "opening", for |-> request.for]
        /\ UNCHANGED replies
  /\ UNCHANGED <<passesCheck, job, told, page, used>>

RefusedSlip(password) == password \in passesCheck \cup {"unacceptable"}
(* Refused with the session kept open: a password used already or not      *)
(* acceptable, before any work, and one whose wallet passes a check after  *)
(* it.                                                                     *)
Refused(password) == password \in used \cup passesCheck \cup {"unacceptable"}

(* Twelve rounds, after which the password counts as used.                 *)
OpensWallet(o) == WorkerPosts("asking", "opened", o) /\ used' = used \cup {typed[o]}

(* The open ends: a wallet, a refusal, or a fault such as a known answer   *)
(* that differs, also after the password was recorded (verified).          *)
WorkerOpens ==
  /\ worker.does = "opening"
  /\ LET o == worker.for IN
     \/ ~Refused(typed[o]) /\ OpensWallet(o)
     \/ Refused(typed[o]) /\ WorkerPosts("asking", "refused", o) /\ UNCHANGED used
     \/ WorkerPosts("over", "error", o) /\ used' \in {used, used \cup ({typed[o]} \cap Passwords)}

-----------------------------------------------------------------------------
(* The page's job.                                                         *)

(* The job's promise settles; the worker stops, and its messages are not   *)
(* read any more.                                                          *)
Ends(outcome) == job' = outcome /\ UNCHANGED <<passesCheck, told, request, session>>

(* cancel() of the class.                                                  *)
Cancel ==
  /\ job = "running" /\ Ends("CANCELLED")
  /\ UNCHANGED <<page, replies>>

(* The worker fails, or a page's callback does while a wallet is opened.   *)
JobFails ==
  /\ job = "running" /\ Ends("failed")
  /\ UNCHANGED <<page, replies>>

Receive(kind) ==
  /\ job = "running" /\ replies # <<>> /\ Head(replies).kind = kind
  /\ replies' = Tail(replies)

(* ready: the caller gets its handle.                                      *)
ReceiveReady ==
  /\ Receive("ready")
  /\ started' = "ready" /\ nextRequest' = TRUE
  /\ UNCHANGED <<passesCheck, job, told, pendingOpen, closing, typed, open, request, session>>

SettleOpen(o, how, wallet) ==
  open' = IF o = None THEN open ELSE [open EXCEPT ![o] = [how |-> how, wallet |-> wallet]]

AnswerOpenSlip(kind) ==
  /\ SettleOpen(pendingOpen, kind, Head(replies).for)
  /\ nextRequest' = TRUE /\ UNCHANGED pendingOpen
(* answerOpen: the open that waits settles, and the worker waits for the   *)
(* page again.                                                             *)
AnswerOpen(kind) ==
  /\ SettleOpen(pendingOpen, kind, Head(replies).for)
  /\ pendingOpen' = None /\ nextRequest' = TRUE

ReceiveAnswer(kind) ==
  /\ Receive(kind)
  /\ AnswerOpen(kind)
  /\ UNCHANGED <<passesCheck, job, told, started, closing, typed, request, session>>

(* The last message of the worker.                                         *)
ReceiveLast(kind, outcome) ==
  /\ Receive(kind) /\ Ends(outcome)
  /\ UNCHANGED page

DoneThenSlip ==
  /\ job # "running" /\ ~told /\ told' = TRUE
  /\ started' = IF started = "pending" THEN job ELSE started
  /\ UNCHANGED <<passesCheck, job, nextRequest, pendingOpen, closing, typed, open, request,
                 session, replies>>

(* The continuation of `done`: a job that was cancelled or failed settles  *)
(* the caller and the open that waits.                                     *)
DoneThen ==
  /\ job # "running" /\ ~told /\ told' = TRUE
  /\ \/ job = "closed" /\ UNCHANGED <<started, pendingOpen, open>>
     \/ /\ job # "closed"
        /\ started' = IF started = "pending" THEN job ELSE started
        /\ SettleOpen(pendingOpen, job, None)
        /\ pendingOpen' = None
  /\ UNCHANGED <<passesCheck, job, nextRequest, closing, typed, request, session, replies>>

-----------------------------------------------------------------------------
(* The handle, which the page has once `started` has resolved to it.       *)

(* sendRequest: the resolver is used up; #answer then sends the request to *)
(* a job that still runs.                                                  *)
SendRequest(next) ==
  /\ nextRequest' = FALSE
  /\ request' = IF job = "running" THEN next ELSE request

MayOpenSlip == job = "running" /\ pendingOpen = None
MayOpen == job = "running" /\ closing = "no" /\ pendingOpen = None

(* open() with a password, acceptable or not.                              *)
HandleOpens(o, password) ==
  /\ started = "ready" /\ open[o].how = "idle" /\ MayOpen
  /\ typed' = [typed EXCEPT ![o] = password]
  /\ open' = [open EXCEPT ![o].how = "pending"] /\ pendingOpen' = o
  /\ SendRequest(Open(o))
  /\ UNCHANGED <<passesCheck, job, told, started, closing, session, replies>>

(* open() of a closed session, or while another wallet is opened.          *)
HandleRefuses(o) ==
  /\ started = "ready" /\ open[o].how = "idle" /\ ~MayOpen
  /\ SettleOpen(o, IF job # "running" \/ closing # "no" THEN "SESSION_CLOSED" ELSE "BUSY", None)
  /\ UNCHANGED <<passesCheck, job, told, started, nextRequest, pendingOpen, closing, typed,
                 request, session, replies>>

StopsOpenSlip == UNCHANGED <<open, pendingOpen, job>>
(* An open runs: its worker stops at once, and it resolves to CANCELLED.   *)
StopsOpen == SettleOpen(pendingOpen, "CANCELLED", None) /\ pendingOpen' = None /\ job' = "CANCELLED"

(* close(): a worker that waits is told to free the session and end.       *)
HandleCloses ==
  /\ started = "ready" /\ closing = "no" /\ closing' = "waiting"
  /\ \/ nextRequest /\ SendRequest(Close) /\ UNCHANGED <<open, pendingOpen, job>>
     \/ ~nextRequest /\ job = "running" /\ StopsOpen /\ UNCHANGED <<nextRequest, request>>
     \/ ~nextRequest /\ job # "running"
        /\ UNCHANGED <<open, pendingOpen, job, nextRequest, request>>
  /\ UNCHANGED <<passesCheck, told, started, typed, session, replies>>

(* close() resolves once the session has ended, however it did.            *)
CloseResolves ==
  /\ closing = "waiting" /\ job # "running" /\ closing' = "resolved"
  /\ UNCHANGED <<passesCheck, job, told, started, nextRequest, pendingOpen, typed, open, request,
                 session, replies>>

-----------------------------------------------------------------------------
Receives ==
  \/ ReceiveReady \/ ReceiveAnswer("opened") \/ ReceiveAnswer("refused")
  \/ ReceiveLast("result", "closed") \/ ReceiveLast("error", "failed")

Next ==
  \/ WorkerStarts \/ WorkerTakes \/ WorkerOpens
  \/ Cancel \/ JobFails \/ Receives \/ DoneThen
  \/ \E o \in Opens : \/ \E password \in Passwords \cup {"unacceptable"} : HandleOpens(o, password)
                      \/ HandleRefuses(o)
  \/ HandleCloses \/ CloseResolves

Spec == Init /\ [][Next]_vars

(* The page runs its continuations and reads its messages, and a waiting   *)
(* worker its next request; nothing is assumed of the twelve rounds.       *)
PageFairness ==
  WF_vars(Receives) /\ WF_vars(DoneThen) /\ WF_vars(CloseResolves) /\ WF_vars(WorkerTakes)

FairSpec == Spec /\ PageFairness

-----------------------------------------------------------------------------
(* Properties.                                                             *)

(* While a session is open, the page holds the worker's question exactly   *)
(* when no wallet is being opened: an open never finds no resolver to send *)
(* to, and a close never takes a session that waits for one that works.    *)
OneTurnAtATime ==
  job = "running" /\ closing = "no" /\ started = "ready"
    => (nextRequest <=> pendingOpen = None)

(* A wallet goes to the open that typed its password, whatever was called  *)
(* in between, and no password opens a wallet twice in a session.          *)
WalletsMatchTheirOpens ==
  /\ \A o \in Opens : open[o].how = "opened" =>
       /\ open[o].wallet = o
       /\ typed[o] \in used \ (passesCheck \cup {"unacceptable"})
  /\ \A o, p \in Opens :
       open[o].how = "opened" /\ open[p].how = "opened" /\ o # p => typed[o] # typed[p]

(* A session that was told to close gives no wallet any more, also not for *)
(* a request that was on its way.                                          *)
NothingOpensAfterClose ==
  [][\A o \in Opens : closing # "no" /\ open'[o].how = "opened" => open[o].how = "opened"]_vars

(* close() resolves and every open settles after it, also when the rounds  *)
(* never end.                                                              *)
CloseEnds ==
  (closing = "waiting") ~> (closing = "resolved" /\ \A o \in Opens : open[o].how # "pending")

(* With rounds that end, every open settles.                               *)
OpensSettle ==
  WF_vars(WorkerOpens) => \A o \in Opens : (open[o].how = "pending") ~> (open[o].how # "pending")

(* A wallet opens for the open that asked, in its turn.                    *)
OpensInTurn == OneTurnAtATime /\ WalletsMatchTheirOpens

(* A session that is closed opens nothing more and ends, and every open    *)
(* settles.                                                                *)
SessionEnds == NothingOpensAfterClose /\ CloseEnds /\ OpensSettle
=============================================================================
