------------------------ MODULE HiddenSessionProofs -------------------------
(***************************************************************************)
(* Proofs about HiddenSession, for every set of opens and passwords: page  *)
(* and worker take turns, and a wallet goes to the open that asked for it. *)
(***************************************************************************)
EXTENDS HiddenSession, TLAPS

Messages == [kind : {"ready", "opened", "refused", "result", "error"}, for : Opens \cup {None}]
Answered == replies # <<>>

(* One of the page, a request, the worker and a message has the turn.      *)
Alternates ==
  /\ Answered => \E m \in Messages : replies = <<m>>
  /\ worker.does \in {"starting", "opening"} \/ nextRequest => request = NoRequest /\ ~Answered
  /\ worker.does # "asking" => ~nextRequest /\ request = NoRequest
  /\ Answered => request = NoRequest
  /\ Answered /\ Head(replies).kind \in {"ready", "opened", "refused"} => worker.does = "asking"

(* The page has no handle before the worker is ready.                      *)
BeginsReady ==
  /\ worker.does = "starting" => started # "ready"
  /\ Answered /\ Head(replies).kind = "ready" => started # "ready"
  /\ started # "ready" => pendingOpen = None /\ closing = "no"

(* Where an open is: its request, its rounds or its answer.                *)
Under(o) == \/ request = Open(o)
            \/ worker.does = "opening" /\ worker.for = o
            \/ Answered /\ Head(replies).kind \in {"opened", "refused"} /\ Head(replies).for = o

(* The open under way is the one that waits, and nothing else is answered. *)
WaitsForIt ==
  /\ \A o \in Opens : Under(o) => /\ typed[o] \in Passwords \cup {"unacceptable"}
                                  /\ open[o].how # "idle"
                                  /\ job = "running" => pendingOpen = o /\ closing = "no"
  /\ worker.does = "opening" => worker.for \in Opens
  /\ Answered /\ Head(replies).kind \in {"opened", "refused"} => Head(replies).for \in Opens

(* A wallet on its way to the page has a password of its own.              *)
WalletIsEarned ==
  Answered /\ Head(replies).kind = "opened" =>
    LET o == Head(replies).for IN
    /\ typed[o] \in used \ (passesCheck \cup {"unacceptable"})
    /\ \A p \in Opens : p # o /\ open[p].how = "opened" => typed[p] # typed[o]

IInv == /\ TypeOK /\ Alternates /\ BeginsReady /\ WaitsForIt /\ WalletIsEarned
        /\ OneTurnAtATime /\ WalletsMatchTheirOpens

-----------------------------------------------------------------------------
(* A message that is sent is the only one.                                 *)
LEMMA Sent ==
  ASSUME IInv, NEW does \in {"asking", "over"},
         NEW kind \in {"ready", "opened", "refused", "error"},
         NEW for \in Opens \cup {None},
         worker.does \in {"starting", "opening"}, WorkerPosts(does, kind, for)
  PROVE  \E m \in Messages :
           /\ m.kind = kind /\ m.for = for
           /\ replies' = <<m>> /\ Answered' /\ Head(replies') = m /\ ~Answered
           /\ worker' = [does |-> does, for |-> None] /\ request = NoRequest /\ ~nextRequest
           /\ replies' \in Seq(Messages)
           /\ UNCHANGED <<passesCheck, job, told, page, request>>
<1> DEFINE m == [kind |-> kind, for |-> for]
<1>1. m \in Messages /\ m.kind = kind /\ m.for = for
  BY DEF Messages
<1>2. replies = <<>> /\ request = NoRequest /\ ~nextRequest
  BY DEF IInv, Alternates, Answered
<1>3. replies' = <<m>>
  BY <1>2 DEF WorkerPosts
<1>4. worker' = [does |-> does, for |-> None] /\ UNCHANGED <<passesCheck, job, told, page, request>>
  BY DEF WorkerPosts
<1> HIDE DEF m
<1>5. Answered' /\ Head(replies') = m /\ ~Answered /\ replies' \in Seq(Messages)
  BY <1>1, <1>2, <1>3 DEF Answered
<1> QED
  BY <1>1, <1>2, <1>3, <1>4, <1>5

(* A message that is read leaves none.                                     *)
LEMMA Read ==
  ASSUME IInv, NEW kind, Receive(kind)
  PROVE  /\ replies' = <<>> /\ ~Answered' /\ Answered /\ Head(replies).kind = kind
         /\ request = NoRequest /\ ~nextRequest /\ job = "running"
         /\ Head(replies) \in Messages /\ worker.does \notin {"starting", "opening"}
<1>1. PICK m \in Messages : replies = <<m>>
  BY DEF IInv, Alternates, Receive, Answered
<1> QED
  BY <1>1 DEF IInv, Alternates, Answered, Receive

LEMMA InitIInv == Init => IInv
<1> SUFFICES ASSUME Init PROVE IInv
  OBVIOUS
<1>1. TypeOK
  <2>1. /\ request \in Requests
        /\ open \in [Opens -> [how : NotSettled \cup {"opened", "refused", "CANCELLED", "failed",
                                                "SESSION_CLOSED", "BUSY"},
                         wallet : Opens \cup {None}]]
        /\ typed \in [Opens -> Passwords \cup {"nothing", "unacceptable"}]
    BY DEF Init, Requests, Nothing, NotSettled
  <2>2. /\ worker \in [does : {"starting", "asking", "opening", "over"}, for : Opens \cup {None}]
        /\ replies = <<>>
    BY DEF Init
  <2>3. replies \in Seq(Messages)
    BY <2>2
  <2> QED
    BY <2>1, <2>2, <2>3 DEF Init, TypeOK, Messages
<1>2. request.kind = "none" /\ \A o \in Opens : open[o].how = "idle" /\ ~Under(o)
  BY DEF Init, NoRequest, Nothing, Under, Open, Answered
<1> QED
  BY <1>1, <1>2
     DEF Init, IInv, Alternates, BeginsReady, WaitsForIt, WalletIsEarned, OneTurnAtATime,
         WalletsMatchTheirOpens, Answered

LEMMA WorkerTakesStep == IInv /\ WorkerTakes => IInv'
<1> SUFFICES ASSUME IInv, WorkerTakes PROVE IInv'
  OBVIOUS
<1>a. /\ worker.does = "asking" /\ request # NoRequest /\ ~Answered /\ ~nextRequest
      /\ request' = NoRequest /\ UNCHANGED <<passesCheck, job, told, page, used>>
  BY DEF IInv, Alternates, Answered, WorkerTakes
<1>b. CASE request = Close
  <2>1. /\ replies' = <<[kind |-> "result", for |-> None]>> /\ Answered'
        /\ Head(replies').kind = "result"
        /\ [kind |-> "result", for |-> None] \in Messages
        /\ worker' = [does |-> "over", for |-> None]
    BY <1>a, <1>b DEF WorkerTakes, Answered, Messages, IInv, Alternates
  <2>2. Alternates' /\ NoRequest \in Requests
    BY <1>a, <2>1 DEF Alternates, Answered, Requests, page
  <2>7. replies' \in Seq(Messages)
    BY <2>1
  <2>8. TypeOK'
    BY <1>a, <2>1, <2>2, <2>7 DEF IInv, TypeOK, Messages, page
  <2>3. BeginsReady' /\ WaitsForIt' /\ WalletIsEarned' /\ OneTurnAtATime' /\ WalletsMatchTheirOpens'
    BY <1>a, <2>1 DEF IInv, BeginsReady, WaitsForIt, WalletIsEarned, OneTurnAtATime,
                      WalletsMatchTheirOpens, Under, page, NoRequest, Open
  <2> QED
    BY <2>2, <2>3, <2>8 DEF IInv
<1>c. CASE request # Close
  <2>1. PICK o \in Opens : request = Open(o)
    BY <1>a, <1>c DEF IInv, TypeOK, Requests
  <2>2. worker' = [does |-> "opening", for |-> o] /\ UNCHANGED replies
    BY <1>c, <2>1 DEF WorkerTakes, Open
  <2>3. TypeOK' /\ Alternates'
    BY <1>a, <2>2 DEF IInv, TypeOK, Alternates, Answered, Requests, page
  <2>4. \A p \in Opens : Under(p)' => p = o
    BY <1>a, <2>2 DEF Under, Answered, NoRequest, Open
  <2>5. WaitsForIt'
    BY <1>a, <2>1, <2>2, <2>4 DEF IInv, WaitsForIt, Under, Answered, page
  <2>6. BeginsReady' /\ WalletIsEarned' /\ OneTurnAtATime' /\ WalletsMatchTheirOpens'
    BY <1>a, <2>2 DEF IInv, BeginsReady, WalletIsEarned, OneTurnAtATime, WalletsMatchTheirOpens,
                      Answered, page
  <2> QED
    BY <2>3, <2>5, <2>6 DEF IInv
<1> QED
  BY <1>b, <1>c

LEMMA EndOrCloseStep == IInv /\ (Cancel \/ JobFails \/ CloseResolves) => IInv'
<1> SUFFICES ASSUME IInv, Cancel \/ JobFails \/ CloseResolves PROVE IInv'
  OBVIOUS
<1>1. UNCHANGED <<passesCheck, told, started, nextRequest, pendingOpen, typed, open, request,
                  worker, used, replies>>
  BY DEF Cancel, JobFails, CloseResolves, Ends, page, session
<1>2. /\ job' \in {"running", "closed", "CANCELLED", "failed"}
      /\ job' = "running" => job = "running"
      /\ closing' \in {"no", "waiting", "resolved"} /\ (closing = "no" <=> closing' = "no")
  BY DEF IInv, TypeOK, Cancel, JobFails, CloseResolves, Ends, page
<1>3. TypeOK' /\ Alternates'
  BY <1>1, <1>2 DEF IInv, TypeOK, Alternates, Answered
<1>4. BeginsReady' /\ WaitsForIt' /\ WalletIsEarned' /\ OneTurnAtATime' /\ WalletsMatchTheirOpens'
  BY <1>1, <1>2 DEF IInv, BeginsReady, WaitsForIt, WalletIsEarned, OneTurnAtATime,
                    WalletsMatchTheirOpens, Answered, Under
<1> QED
  BY <1>3, <1>4 DEF IInv

LEMMA DoneThenStep == IInv /\ DoneThen => IInv'
<1> SUFFICES ASSUME IInv, DoneThen PROVE IInv'
  OBVIOUS
<1>1. TypeOK'
  BY NoneAssumption DEF IInv, TypeOK, DoneThen, SettleOpen, NotSettled, NoRequest, Close, Open,
                        Requests, session
<1>2. Alternates'
  BY NoneAssumption DEF IInv, Alternates, TypeOK, Answered, DoneThen, SettleOpen, NotSettled,
                        NoRequest, Close, Open, Requests, session
<1>3. BeginsReady'
  BY NoneAssumption DEF IInv, BeginsReady, Alternates, TypeOK, Answered, DoneThen, SettleOpen,
                        NotSettled, NoRequest, Close, Open, Requests, session
<1>4. WaitsForIt'
  BY NoneAssumption DEF IInv, WaitsForIt, Under, Alternates, OneTurnAtATime, TypeOK, Answered,
                        DoneThen, SettleOpen, NotSettled, NoRequest, Close, Open, Requests,
                        session
<1>5. WalletIsEarned'
  BY NoneAssumption DEF IInv, WalletIsEarned, WalletsMatchTheirOpens, WaitsForIt, Alternates,
                        TypeOK, Answered, DoneThen, SettleOpen, NotSettled, NoRequest, Close,
                        Open, Requests, session, Under
<1>6. OneTurnAtATime'
  BY NoneAssumption DEF IInv, OneTurnAtATime, Alternates, BeginsReady, WaitsForIt, TypeOK,
                        Answered, DoneThen, SettleOpen, NotSettled, NoRequest, Close, Open,
                        Requests, session, Under
<1>7. WalletsMatchTheirOpens'
  <2>1. \A o \in Opens : open'[o].how = "opened" => open'[o] = open[o]
    BY DEF IInv, TypeOK, DoneThen, SettleOpen
  <2> QED
    BY <2>1 DEF IInv, WalletsMatchTheirOpens, DoneThen, session
<1> QED
  BY <1>1, <1>2, <1>3, <1>4, <1>5, <1>6, <1>7 DEF IInv

LEMMA HandleClosesStep == IInv /\ HandleCloses => IInv'
<1> SUFFICES ASSUME IInv, HandleCloses PROVE IInv'
  OBVIOUS
<1>1. TypeOK'
  <2>1. request' \in Requests
    BY DEF IInv, TypeOK, HandleCloses, SendRequest, Requests
  <2>2. open' \in [Opens -> [how : NotSettled \cup {"opened", "refused", "CANCELLED", "failed",
                                                 "SESSION_CLOSED", "BUSY"},
                         wallet : Opens \cup {None}]]
    BY DEF IInv, TypeOK, HandleCloses, StopsOpen, SettleOpen
  <2> QED
    BY <2>1, <2>2 DEF IInv, TypeOK, HandleCloses, StopsOpen, SendRequest, session
<1>2. Alternates'
  BY NoneAssumption DEF IInv, Alternates, TypeOK, Answered, HandleCloses, SendRequest, StopsOpen,
                        SettleOpen, NotSettled, NoRequest, Close, Open, Requests, session
<1>3. BeginsReady'
  BY NoneAssumption DEF IInv, BeginsReady, Alternates, TypeOK, Answered, HandleCloses,
                        SendRequest, StopsOpen, SettleOpen, NotSettled, NoRequest, Close, Open,
                        Requests, session
<1>4. WaitsForIt'
  BY NoneAssumption DEF IInv, WaitsForIt, Under, Alternates, OneTurnAtATime, TypeOK, Answered,
                        HandleCloses, SendRequest, StopsOpen, SettleOpen, NotSettled, NoRequest,
                        Close, Open, Requests, session
<1>5. WalletIsEarned'
  BY NoneAssumption DEF IInv, WalletIsEarned, WalletsMatchTheirOpens, WaitsForIt, Alternates,
                        TypeOK, Answered, HandleCloses, SendRequest, StopsOpen, SettleOpen,
                        NotSettled, NoRequest, Close, Open, Requests, session, Under
<1>6. OneTurnAtATime'
  BY NoneAssumption DEF IInv, OneTurnAtATime, Alternates, BeginsReady, WaitsForIt, TypeOK,
                        Answered, HandleCloses, SendRequest, StopsOpen, SettleOpen, NotSettled,
                        NoRequest, Close, Open, Requests, session, Under
<1>7. WalletsMatchTheirOpens'
  BY NoneAssumption DEF IInv, WalletsMatchTheirOpens, WalletIsEarned, WaitsForIt, TypeOK,
                        Answered, HandleCloses, SendRequest, StopsOpen, SettleOpen, NotSettled,
                        NoRequest, Close, Open, Requests, session, Under
<1> QED
  BY <1>1, <1>2, <1>3, <1>4, <1>5, <1>6, <1>7 DEF IInv

LEMMA WorkerStartsStep == IInv /\ WorkerStarts => IInv'
<1> SUFFICES ASSUME IInv, WorkerStarts PROVE IInv'
  OBVIOUS
<1> SUFFICES ASSUME NEW does \in {"asking", "over"}, NEW kind \in {"ready", "error"},
                    WorkerPosts(does, kind, None), kind = "ready" => does = "asking"
             PROVE  IInv'
  BY DEF WorkerStarts
<1>1. worker.does = "starting" /\ UNCHANGED used
  BY DEF WorkerStarts
<1>2. PICK m \in Messages :
        /\ m.kind = kind /\ m.for = None
        /\ replies' = <<m>> /\ Answered' /\ Head(replies') = m /\ ~Answered
        /\ worker' = [does |-> does, for |-> None] /\ request = NoRequest /\ ~nextRequest
        /\ replies' \in Seq(Messages)
        /\ UNCHANGED <<passesCheck, job, told, page, request>>
  BY <1>1, Sent
<1> USE <1>1
<1>3. TypeOK'
  BY <1>2 DEF IInv, TypeOK, Messages, page
<1>4. Alternates'
  BY <1>2 DEF Alternates, page
<1>5. BeginsReady'
  BY <1>2 DEF IInv, BeginsReady, page
<1>6. WaitsForIt' /\ WalletIsEarned'
  BY <1>2 DEF WaitsForIt, WalletIsEarned, Under, NoRequest, Open
<1>7. OneTurnAtATime' /\ WalletsMatchTheirOpens'
  BY <1>2 DEF IInv, OneTurnAtATime, WalletsMatchTheirOpens, page
<1> QED
  BY <1>3, <1>4, <1>5, <1>6, <1>7 DEF IInv

LEMMA WorkerOpensStep == IInv /\ WorkerOpens => IInv'
<1> SUFFICES ASSUME IInv, WorkerOpens PROVE IInv'
  OBVIOUS
<1> DEFINE o == worker.for
<1>1. /\ worker.does = "opening" /\ o \in Opens /\ Under(o)
      /\ typed[o] \in Passwords \cup {"unacceptable"} /\ open[o].how # "idle"
      /\ job = "running" => pendingOpen = o /\ closing = "no"
  BY DEF IInv, WaitsForIt, Under, WorkerOpens
<1>2. SUFFICES ASSUME NEW does \in {"asking", "over"}, NEW kind \in {"opened", "refused", "error"},
                      WorkerPosts(does, kind, o), kind = "error" \/ does = "asking",
                      used \subseteq used', used' \subseteq Passwords,
                      kind = "opened" => ~Refused(typed[o]) /\ typed[o] \in used'
               PROVE  IInv'
  <2>1. CASE ~Refused(typed[o]) /\ OpensWallet(o)
    <3>1. used' = used \cup {typed[o]} /\ typed[o] \in Passwords /\ used \subseteq Passwords
      BY <1>1, <2>1 DEF OpensWallet, Refused, IInv, TypeOK
    <3> QED
      BY <1>2, <2>1, <3>1 DEF OpensWallet
  <2>2. CASE Refused(typed[o]) /\ WorkerPosts("asking", "refused", o) /\ UNCHANGED used
    BY <1>2, <2>2 DEF IInv, TypeOK
  <2>3. CASE /\ WorkerPosts("over", "error", o)
             /\ used' \in {used, used \cup ({typed[o]} \cap Passwords)}
    BY <1>2, <2>3 DEF IInv, TypeOK
  <2> QED
    BY <2>1, <2>2, <2>3 DEF WorkerOpens
<1>3. PICK m \in Messages :
        /\ m.kind = kind /\ m.for = o
        /\ replies' = <<m>> /\ Answered' /\ Head(replies') = m /\ ~Answered
        /\ worker' = [does |-> does, for |-> None] /\ request = NoRequest /\ ~nextRequest
        /\ replies' \in Seq(Messages)
        /\ UNCHANGED <<passesCheck, job, told, page, request>>
  BY <1>1, <1>2, Sent
<1>4. TypeOK'
  BY <1>2, <1>3 DEF IInv, TypeOK, Messages, page
<1>5. Alternates'
  BY <1>2, <1>3 DEF Alternates, page
<1>6. BeginsReady'
  BY <1>2, <1>3 DEF IInv, BeginsReady, page
<1>7. WaitsForIt'
  BY <1>1, <1>2, <1>3 DEF WaitsForIt, Under, NoRequest, Open, page
<1>8. WalletIsEarned'
  BY <1>1, <1>2, <1>3 DEF IInv, WalletIsEarned, WalletsMatchTheirOpens, Refused, page
<1>9. OneTurnAtATime' /\ WalletsMatchTheirOpens'
  BY <1>2, <1>3 DEF IInv, OneTurnAtATime, WalletsMatchTheirOpens, page
<1> QED
  BY <1>4, <1>5, <1>6, <1>7, <1>8, <1>9 DEF IInv

LEMMA ReceiveReadyStep == IInv /\ ReceiveReady => IInv'
<1> SUFFICES ASSUME IInv, ReceiveReady PROVE IInv'
  OBVIOUS
<1>a. replies' = <<>> /\ ~Answered' /\ Answered /\ Head(replies).kind = "ready"
     /\ request = NoRequest /\ ~nextRequest /\ job = "running"
     /\ Head(replies) \in Messages /\ worker.does \notin {"starting", "opening"}
  BY Read DEF ReceiveReady
<1>1. TypeOK'
  BY <1>a, NoneAssumption DEF IInv, TypeOK, ReceiveReady, NoRequest, Close, Open, Requests,
                              session
<1>2. Alternates'
  BY <1>a, NoneAssumption DEF IInv, Alternates, TypeOK, Answered, ReceiveReady, NoRequest, Close,
                              Open, Requests, session
<1>3. BeginsReady'
  BY <1>a, NoneAssumption DEF IInv, BeginsReady, Alternates, TypeOK, Answered, ReceiveReady,
                              NoRequest, Close, Open, Requests, session
<1>4. WaitsForIt'
  BY <1>a, NoneAssumption DEF IInv, WaitsForIt, Under, Alternates, OneTurnAtATime, TypeOK,
                              Answered, ReceiveReady, NoRequest, Close, Open, Requests, session
<1>5. WalletIsEarned'
  BY <1>a, NoneAssumption DEF IInv, WalletIsEarned, WalletsMatchTheirOpens, WaitsForIt,
                              Alternates, TypeOK, Answered, ReceiveReady, NoRequest, Close, Open,
                              Requests, session, Under
<1>6. OneTurnAtATime'
  BY <1>a, NoneAssumption DEF IInv, OneTurnAtATime, Alternates, BeginsReady, WaitsForIt, TypeOK,
                              Answered, ReceiveReady, NoRequest, Close, Open, Requests, session,
                              Under
<1>7. WalletsMatchTheirOpens'
  BY <1>a, NoneAssumption DEF IInv, WalletsMatchTheirOpens, WalletIsEarned, WaitsForIt, TypeOK,
                              Answered, ReceiveReady, NoRequest, Close, Open, Requests, session,
                              Under
<1> QED
  BY <1>1, <1>2, <1>3, <1>4, <1>5, <1>6, <1>7 DEF IInv

LEMMA ReceiveAnswerStep ==
  ASSUME IInv, NEW kind \in {"opened", "refused"}, ReceiveAnswer(kind)
  PROVE  IInv'
<1>a. replies' = <<>> /\ ~Answered' /\ Answered /\ Head(replies).kind = kind
     /\ request = NoRequest /\ ~nextRequest /\ job = "running"
     /\ Head(replies) \in Messages /\ worker.does \notin {"starting", "opening"}
  BY Read DEF ReceiveAnswer
<1>1. TypeOK'
  BY <1>a DEF IInv, TypeOK, ReceiveAnswer, AnswerOpen, SettleOpen, Messages, session
<1>2. Alternates'
  BY <1>a, NoneAssumption DEF IInv, Alternates, TypeOK, Answered, ReceiveAnswer, AnswerOpen,
                              SettleOpen, NotSettled, NoRequest, Close, Open, Requests, session
<1>3. BeginsReady'
  BY <1>a, NoneAssumption DEF IInv, BeginsReady, Alternates, TypeOK, Answered, ReceiveAnswer,
                              AnswerOpen, SettleOpen, NotSettled, NoRequest, Close, Open,
                              Requests, session
<1>4. WaitsForIt'
  BY <1>a, NoneAssumption DEF IInv, WaitsForIt, Under, Alternates, OneTurnAtATime, TypeOK,
                              Answered, ReceiveAnswer, AnswerOpen, SettleOpen, NotSettled,
                              NoRequest, Close, Open, Requests, session
<1>5. WalletIsEarned'
  BY <1>a, NoneAssumption DEF IInv, WalletIsEarned, WalletsMatchTheirOpens, WaitsForIt,
                              Alternates, TypeOK, Answered, ReceiveAnswer, AnswerOpen,
                              SettleOpen, NotSettled, NoRequest, Close, Open, Requests, session,
                              Under
<1>6. OneTurnAtATime'
  BY <1>a, NoneAssumption DEF IInv, OneTurnAtATime, Alternates, BeginsReady, WaitsForIt, TypeOK,
                              Answered, ReceiveAnswer, AnswerOpen, SettleOpen, NotSettled,
                              NoRequest, Close, Open, Requests, session, Under
<1>7. WalletsMatchTheirOpens'
  <2>1. pendingOpen = Head(replies).for /\ pendingOpen \in Opens
    BY <1>a DEF IInv, WaitsForIt, Under
  <2>2. /\ \A o \in Opens : o # pendingOpen => open'[o] = open[o]
        /\ open'[pendingOpen] = [how |-> kind, wallet |-> pendingOpen]
    BY <2>1, NoneAssumption DEF IInv, TypeOK, ReceiveAnswer, AnswerOpen, SettleOpen
  <2>3. UNCHANGED <<typed, used, passesCheck>>
    BY DEF ReceiveAnswer, session
  <2>4. kind = "opened" => /\ typed[pendingOpen] \in used \ (passesCheck \cup {"unacceptable"})
                           /\ \A p \in Opens : p # pendingOpen /\ open[p].how = "opened"
                                => typed[p] # typed[pendingOpen]
    BY <1>a, <2>1 DEF IInv, WalletIsEarned
  <2> QED
    BY <2>1, <2>2, <2>3, <2>4 DEF IInv, WalletsMatchTheirOpens
<1> QED
  BY <1>1, <1>2, <1>3, <1>4, <1>5, <1>6, <1>7 DEF IInv

LEMMA ReceiveLastStep ==
  ASSUME IInv, NEW kind, NEW outcome \in {"closed", "failed"}, ReceiveLast(kind, outcome)
  PROVE  IInv'
<1>a. replies' = <<>> /\ ~Answered' /\ Answered /\ Head(replies).kind = kind
     /\ request = NoRequest /\ ~nextRequest /\ job = "running"
     /\ Head(replies) \in Messages /\ worker.does \notin {"starting", "opening"}
  BY Read DEF ReceiveLast
<1>1. TypeOK'
  BY <1>a, NoneAssumption DEF IInv, TypeOK, ReceiveLast, Ends, NoRequest, Close, Open, Requests,
                              page, session
<1>2. Alternates'
  BY <1>a, NoneAssumption DEF IInv, Alternates, TypeOK, Answered, ReceiveLast, Ends, NoRequest,
                              Close, Open, Requests, page, session
<1>3. BeginsReady'
  BY <1>a, NoneAssumption DEF IInv, BeginsReady, Alternates, TypeOK, Answered, ReceiveLast, Ends,
                              NoRequest, Close, Open, Requests, page, session
<1>4. WaitsForIt'
  BY <1>a, NoneAssumption DEF IInv, WaitsForIt, Under, Alternates, OneTurnAtATime, TypeOK,
                              Answered, ReceiveLast, Ends, NoRequest, Close, Open, Requests,
                              page, session
<1>5. WalletIsEarned'
  BY <1>a, NoneAssumption DEF IInv, WalletIsEarned, WalletsMatchTheirOpens, WaitsForIt,
                              Alternates, TypeOK, Answered, ReceiveLast, Ends, NoRequest, Close,
                              Open, Requests, page, session, Under
<1>6. OneTurnAtATime'
  BY <1>a, NoneAssumption DEF IInv, OneTurnAtATime, Alternates, BeginsReady, WaitsForIt, TypeOK,
                              Answered, ReceiveLast, Ends, NoRequest, Close, Open, Requests,
                              page, session, Under
<1>7. WalletsMatchTheirOpens'
  BY <1>a, NoneAssumption DEF IInv, WalletsMatchTheirOpens, WalletIsEarned, WaitsForIt, TypeOK,
                              Answered, ReceiveLast, Ends, NoRequest, Close, Open, Requests,
                              page, session, Under
<1> QED
  BY <1>1, <1>2, <1>3, <1>4, <1>5, <1>6, <1>7 DEF IInv

LEMMA HandleOpensStep ==
  ASSUME IInv, NEW o \in Opens, NEW password \in Passwords \cup {"unacceptable"},
         HandleOpens(o, password)
  PROVE  IInv'
<1>1. TypeOK'
  BY NoneAssumption DEF IInv, TypeOK, HandleOpens, MayOpen, SendRequest, NotSettled, NoRequest,
                        Close, Open, Requests, session
<1>2. Alternates'
  BY DEF IInv, Alternates, OneTurnAtATime, Answered, HandleOpens, MayOpen, SendRequest, session
<1>3. BeginsReady'
  BY NoneAssumption DEF IInv, BeginsReady, Alternates, TypeOK, Answered, HandleOpens, MayOpen,
                        SendRequest, NotSettled, NoRequest, Close, Open, Requests, session
<1>4. WaitsForIt'
  BY NoneAssumption DEF IInv, WaitsForIt, Under, Alternates, OneTurnAtATime, TypeOK, Answered,
                        HandleOpens, MayOpen, SendRequest, NotSettled, NoRequest, Close, Open,
                        Requests, session
<1>5. WalletIsEarned'
  BY NoneAssumption DEF IInv, WalletIsEarned, WalletsMatchTheirOpens, WaitsForIt, Alternates,
                        TypeOK, Answered, HandleOpens, MayOpen, SendRequest, NotSettled,
                        NoRequest, Close, Open, Requests, session, Under
<1>6. OneTurnAtATime'
  BY NoneAssumption DEF IInv, OneTurnAtATime, Alternates, BeginsReady, WaitsForIt, TypeOK,
                        Answered, HandleOpens, MayOpen, SendRequest, NotSettled, NoRequest,
                        Close, Open, Requests, session, Under
<1>7. WalletsMatchTheirOpens'
  BY NoneAssumption DEF IInv, WalletsMatchTheirOpens, WalletIsEarned, WaitsForIt, TypeOK,
                        Answered, HandleOpens, MayOpen, SendRequest, NotSettled, NoRequest,
                        Close, Open, Requests, session, Under
<1> QED
  BY <1>1, <1>2, <1>3, <1>4, <1>5, <1>6, <1>7 DEF IInv

LEMMA HandleRefusesStep ==
  ASSUME IInv, NEW o \in Opens, HandleRefuses(o)
  PROVE  IInv'
<1>1. TypeOK'
  BY NoneAssumption DEF IInv, TypeOK, HandleRefuses, MayOpen, SettleOpen, NotSettled, NoRequest,
                        Close, Open, Requests, session
<1>2. Alternates'
  BY NoneAssumption DEF IInv, Alternates, TypeOK, Answered, HandleRefuses, MayOpen, SettleOpen,
                        NotSettled, NoRequest, Close, Open, Requests, session
<1>3. BeginsReady'
  BY NoneAssumption DEF IInv, BeginsReady, Alternates, TypeOK, Answered, HandleRefuses, MayOpen,
                        SettleOpen, NotSettled, NoRequest, Close, Open, Requests, session
<1>4. WaitsForIt'
  BY NoneAssumption DEF IInv, WaitsForIt, Under, Alternates, OneTurnAtATime, TypeOK, Answered,
                        HandleRefuses, MayOpen, SettleOpen, NotSettled, NoRequest, Close, Open,
                        Requests, session
<1>5. WalletIsEarned'
  BY NoneAssumption DEF IInv, WalletIsEarned, WalletsMatchTheirOpens, WaitsForIt, Alternates,
                        TypeOK, Answered, HandleRefuses, MayOpen, SettleOpen, NotSettled,
                        NoRequest, Close, Open, Requests, session, Under
<1>6. OneTurnAtATime'
  BY NoneAssumption DEF IInv, OneTurnAtATime, Alternates, BeginsReady, WaitsForIt, TypeOK,
                        Answered, HandleRefuses, MayOpen, SettleOpen, NotSettled, NoRequest,
                        Close, Open, Requests, session, Under
<1>7. WalletsMatchTheirOpens'
  BY NoneAssumption DEF IInv, WalletsMatchTheirOpens, WalletIsEarned, WaitsForIt, TypeOK,
                        Answered, HandleRefuses, MayOpen, SettleOpen, NotSettled, NoRequest,
                        Close, Open, Requests, session, Under
<1> QED
  BY <1>1, <1>2, <1>3, <1>4, <1>5, <1>6, <1>7 DEF IInv

LEMMA StepIInv == IInv /\ [Next]_vars => IInv'
<1>1. CASE UNCHANGED vars
  BY <1>1 DEF IInv, TypeOK, Alternates, BeginsReady, WaitsForIt, WalletIsEarned, OneTurnAtATime,
              WalletsMatchTheirOpens, Answered, Under, vars, page, session
<1>2. CASE Next
  BY <1>2, WorkerStartsStep, WorkerTakesStep, WorkerOpensStep, EndOrCloseStep,
     ReceiveReadyStep, ReceiveAnswerStep, ReceiveLastStep, DoneThenStep, HandleOpensStep,
     HandleRefusesStep, HandleClosesStep
     DEF Next, Receives
<1> QED
  BY <1>1, <1>2

(* The state keeps its types.                                              *)
THEOREM TypeCorrect == Spec => []TypeOK
<1>1. IInv => TypeOK
  BY DEF IInv
<1> QED
  BY InitIInv, StepIInv, <1>1, PTL DEF Spec

(* client.js and core-worker.js: page and worker agree whose turn it is,   *)
(* and a wallet goes to the open that typed its password, once.            *)
THEOREM OpensKeepTurns == Spec => []OpensInTurn
<1>1. IInv => OpensInTurn
  BY DEF IInv, OpensInTurn
<1> QED
  BY InitIInv, StepIInv, <1>1, PTL DEF Spec

(* client.js, close(): no wallet comes once a session was told to close.   *)
THEOREM ClosedStaysClosed == Spec => NothingOpensAfterClose
<1> DEFINE Silent == \A o \in Opens :
                      closing # "no" /\ open'[o].how = "opened" => open[o].how = "opened"
<1>1. IInv /\ [Next]_vars => Silent
  <2> SUFFICES ASSUME IInv, [Next]_vars, NEW o \in Opens, closing # "no", open'[o].how = "opened"
               PROVE  open[o].how = "opened"
    OBVIOUS
  <2>1. ASSUME NEW kind \in {"opened", "refused"}, ReceiveAnswer(kind) PROVE FALSE
    <3>1. /\ Answered /\ Head(replies).kind = kind /\ job = "running"
      BY <2>1, Read DEF ReceiveAnswer
    <3> QED
      BY <3>1 DEF IInv, WaitsForIt, Under
  <2>2. CASE DoneThen
    BY <2>2 DEF DoneThen, SettleOpen, IInv, TypeOK
  <2>3. CASE HandleCloses
    BY <2>3 DEF HandleCloses
  <2>4. ASSUME NEW p \in Opens, HandleRefuses(p) PROVE open[o].how = "opened"
    BY <2>4 DEF HandleRefuses, SettleOpen, IInv, TypeOK
  <2>5. ASSUME NEW p \in Opens, NEW password, HandleOpens(p, password) PROVE FALSE
    BY <2>5 DEF HandleOpens, MayOpen
  <2>6. CASE \/ WorkerStarts \/ WorkerTakes \/ WorkerOpens \/ Cancel \/ JobFails \/ ReceiveReady
             \/ ReceiveLast("result", "closed") \/ ReceiveLast("error", "failed") \/ CloseResolves
             \/ UNCHANGED vars
    BY <2>6 DEF WorkerStarts, WorkerTakes, WorkerOpens, WorkerPosts, OpensWallet, Cancel,
                JobFails,
                ReceiveReady, ReceiveLast, CloseResolves, page, vars
  <2> QED
    BY <2>1, <2>2, <2>3, <2>4, <2>5, <2>6 DEF Next, Receives
<1>2. NothingOpensAfterClose <=> [][Silent]_vars
  BY DEF NothingOpensAfterClose
<1> QED
  BY InitIInv, StepIInv, <1>1, <1>2, PTL DEF Spec
=============================================================================
