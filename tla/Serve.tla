-------------------------------- MODULE Serve --------------------------------
(***************************************************************************)
(* mhfe serve (src/bin/mhfe/serve.rs): one page, checked against its       *)
(* checksum file, served on this computer to at most MaxConnections        *)
(* clients at a time, each by a thread with a deadline.                    *)
(*                                                                         *)
(* The accepting thread's accesses to `active` are steps of their own, as  *)
(* the threads count down between them.                                    *)
(***************************************************************************)
EXTENDS Naturals, FiniteSets

CONSTANTS Clients,          \* connections of browsers and others
          MaxConnections

VARIABLES
  serve,      \* the accepting thread: "begin", "checking", "listening", then "taken" and
              \* "placed" for a connection accepted and counted, "over" for one too many,
              \* "unspawned"
  disk,       \* the checksum file: "none" or the page it names by its digest; the page there
  page,       \* the page read, and the digest expected of it
  active,     \* the count of connections
  client,     \* where each connection is
  request,    \* what each client sent, of Requests
  answer,     \* what each got, "none" before
  exit

vars == <<serve, disk, page, active, client, request, answer, exit>>

Pages == {"released", "other"}

(* A request for the page; one with another Host, none or two, as from a   *)
(* page elsewhere whose name leads here; another target or method; no      *)
(* request; and one that never ends.                                       *)
Requests == {"get", "head", "other host", "not found", "malformed", "slow"}

Init ==
  /\ serve = "begin" /\ disk = [digest |-> "none", page |-> "released"]
  /\ page = [bytes |-> "none", expected |-> "none"] /\ active = 0
  /\ client = [c \in Clients |-> "away"] /\ request = [c \in Clients |-> "none"]
  /\ answer = [c \in Clients |-> "none"] /\ exit = "none"

network == <<active, client, request, answer>>

-----------------------------------------------------------------------------
(* load_checked_page.  The files may be written between the two reads.     *)

ReadChecksumFile ==
  /\ serve = "begin"
  /\ disk' \in [digest : Pages \cup {"none"}, page : Pages]
  /\ page' = [page EXCEPT !.expected = disk'.digest]
  /\ IF disk'.digest = "none" THEN exit' = "failure" /\ UNCHANGED serve
     ELSE serve' = "checking" /\ UNCHANGED exit
  /\ UNCHANGED network

(* Whatever writes the page, also while it is served.                      *)
FilesChange ==
  /\ serve # "begin"
  /\ \E bytes \in Pages : bytes # disk.page /\ disk' = [disk EXCEPT !.page = bytes]
  /\ UNCHANGED <<serve, page, network, exit>>

(* The page is read once, and these bytes are checked and served.  Before  *)
(* the listener is bound nobody can connect.                               *)
LoadCheckedPageSlip ==
  /\ serve = "checking" /\ page' = [page EXCEPT !.bytes = disk.page]
  /\ IF disk.digest = page.expected THEN serve' = "listening" /\ UNCHANGED exit
     ELSE exit' = "failure" /\ UNCHANGED serve
  /\ UNCHANGED <<disk, network>>
LoadCheckedPage ==
  /\ serve = "checking" /\ page' = [page EXCEPT !.bytes = disk.page]
  /\ IF disk.page = page.expected THEN serve' = "listening" /\ UNCHANGED exit
     ELSE exit' = "failure" /\ UNCHANGED serve
  /\ UNCHANGED <<disk, network>>

-----------------------------------------------------------------------------
(* serve: the loop that accepts.                                           *)

files == <<disk, page, exit>>

Connects(c) ==
  /\ serve \notin {"begin", "checking"} /\ client[c] = "away"
  /\ client' = [client EXCEPT ![c] = "waiting"]
  /\ UNCHANGED <<serve, files, active, request, answer>>

Accept(c) ==
  /\ serve = "listening" /\ client[c] = "waiting" /\ serve' = "taken"
  /\ client' = [client EXCEPT ![c] = "taken"]
  /\ UNCHANGED <<files, active, request, answer>>

CountUp ==
  /\ serve = "taken" /\ active' = active + 1
  /\ serve' = IF active >= MaxConnections THEN "over" ELSE "placed"
  /\ UNCHANGED <<files, client, request, answer>>

Taken == {c \in Clients : client[c] = "taken"}
Close(c) == client' = [client EXCEPT ![c] = "closed"]

(* One too many: counted down, and the stream dropped.                     *)
TurnAway ==
  /\ serve = "over" /\ active' = active - 1 /\ serve' = "listening"
  /\ \E c \in Taken : Close(c)
  /\ UNCHANGED <<files, request, answer>>

(* The system starts the thread, or refuses it, which closes the stream.   *)
Spawn ==
  /\ serve = "placed"
  /\ \E c \in Taken :
       \/ client' = [client EXCEPT ![c] = "reading"] /\ serve' = "listening"
       \/ Close(c) /\ serve' = "unspawned"
  /\ UNCHANGED <<files, active, request, answer>>

UnspawnedSlip ==
  /\ serve = "unspawned" /\ serve' = "listening"
  /\ UNCHANGED <<files, active, client, request, answer>>
Unspawned ==
  /\ serve = "unspawned" /\ active' = active - 1 /\ serve' = "listening"
  /\ UNCHANGED <<files, client, request, answer>>

-----------------------------------------------------------------------------
(* The thread of a connection.                                             *)

(* respond: the order of the refusals, and the page.                       *)
Respond(sent) ==
  CASE sent \in {"malformed", "slow"} -> "400"
    [] sent = "other host"   -> "403"
    [] sent = "not found"    -> "404 or 405"
    [] sent = "get"          -> page.bytes
    [] sent = "head"         -> "head"

(* read_request_head: a head that ends, or the deadline.                   *)
ReadsHeadSlip(c) ==
  /\ client[c] = "reading" /\ request[c] = "none"
  /\ \E sent \in Requests :
       /\ request' = [request EXCEPT ![c] = sent]
       /\ client' = [client EXCEPT ![c] = IF sent = "slow" THEN @ ELSE "answering"]
  /\ UNCHANGED <<serve, files, active, answer>>
ReadsHead(c) ==
  /\ client[c] = "reading" /\ client' = [client EXCEPT ![c] = "answering"]
  /\ request' \in {[request EXCEPT ![c] = sent] : sent \in Requests}
  /\ UNCHANGED <<serve, files, active, answer>>

(* write_until: all of it, or the deadline or a client that went away.     *)
Answers(c) ==
  /\ client[c] = "answering" /\ client' = [client EXCEPT ![c] = "answered"]
  /\ answer' \in {answer, [answer EXCEPT ![c] = Respond(request[c])]}
  /\ UNCHANGED <<serve, files, active, request>>

(* The stream is closed as `answer` returns, before the count goes down.   *)
CountDown(c) ==
  /\ client[c] = "answered" /\ active' = active - 1 /\ Close(c)
  /\ UNCHANGED <<serve, files, request, answer>>

-----------------------------------------------------------------------------
Answering(c) == ReadsHead(c) \/ Answers(c) \/ CountDown(c)
Accepting == (\E c \in Clients : Accept(c)) \/ CountUp \/ TurnAway \/ Spawn \/ Unspawned

Next ==
  /\ exit = "none"
  /\ \/ ReadChecksumFile \/ FilesChange \/ LoadCheckedPage \/ Accepting
     \/ \E c \in Clients : Connects(c) \/ Answering(c)

(* The deadlines end a read and a write whatever the client does, and the  *)
(* system runs the threads.                                                *)
Fairness ==
  /\ WF_vars(exit = "none" /\ Accepting)
  /\ \A c \in Clients : WF_vars(exit = "none" /\ Answering(c))

Spec == Init /\ [][Next]_vars /\ Fairness

-----------------------------------------------------------------------------
(* Properties.                                                             *)

Held == {c \in Clients : client[c] \in {"reading", "answering", "answered"}}

(* The count is that of the threads, and of the connection that the        *)
(* accepting thread is about to place or to take back: no refused thread,  *)
(* deadline or end leaks a place, and never do more than the limit run.    *)
PlacesAreCounted ==
  /\ active = Cardinality(Held) + (IF serve \in {"over", "placed", "unspawned"} THEN 1 ELSE 0)
  /\ Cardinality(Held) <= MaxConnections

(* What a client gets is the page that the checksum file named when it was *)
(* read, whatever the files are now, and only for a request of this page   *)
(* by this computer's own address.                                         *)
OnlyTheCheckedPage ==
  \A c \in Clients : answer[c] \in Pages =>
    answer[c] = page.expected /\ request[c] = "get"

(* A connection ends, also of a client that sends nothing or reads nothing.*)
ConnectionsEnd ==
  \A c \in Clients : client[c] # "away" ~> client[c] = "closed"

(* The limit holds, and the page checked is the one that is given out.     *)
ServesTheChecked == PlacesAreCounted /\ OnlyTheCheckedPage
=============================================================================
