--------------------------- MODULE PageOperations ---------------------------
(***************************************************************************)
(* The long operations of the core module that end with one answer         *)
(* (web/core-worker.js over src/wasm_api/core.rs, src/mhfe.rs,             *)
(* src/search.rs and src/engine/browser.rs): encryption, recovery, the     *)
(* rehearsal check with the length asked after it, both searches for       *)
(* missing words and the self-test.                                        *)
(*                                                                         *)
(* Each runs through the page's Argon2 build, in code that the browser     *)
(* optimizes meanwhile: from some round on it may compute something else.  *)
(* 2 rounds stand for 12, and a search has 2 candidates, whose 64 between  *)
(* two reports are one.                                                    *)
(***************************************************************************)
EXTENDS Readings

VARIABLES
  operation,   \* the next step
  request,     \* its kind, the reference and the length stated, whether the page asks for one
  truth,       \* what the rounds give with the right build
  fault,       \* the round from which the build is wrong, and whether only with much memory
  done,        \* rounds
  given,     \* what the library gives, kept until the build is trusted with it
  posted,      \* the news posted: the unverified container, the candidates
  told         \* the answer of the worker, or its question

vars == <<operation, request, truth, fault, done, given, posted, told>>

Rounds     == 2
Count      == 2
Candidates == 1 .. Count
Never      == 100

(* Argon2 calls of an operation: an encryption recovers its container      *)
(* again, and a search recovers each candidate.                            *)
Calls(kind) == CASE kind \in {"encrypt", "selfTest", "searchWallet"} -> 2 * Rounds
                 [] kind \in {"decrypt", "check"} -> Rounds
                 [] OTHER -> 0

Kinds == {"encrypt", "decrypt", "check", "searchDecoy", "searchWallet", "selfTest"}

Asks(kind, reference, stated, asks) ==
  [kind |-> kind, reference |-> reference, stated |-> stated, asks |-> asks]

(* What is told: a word for it, the lengths, candidates or rounds it names,*)
(* and the lengths named beside them.                                      *)
Says(word, names, beside) == [word |-> word, names |-> names, beside |-> beside]
Nothing == Says("nothing", {}, {})

Init ==
  /\ operation = "begin" /\ request = Asks("decrypt", "detect", Detect, FALSE)
  /\ truth = [container |-> Full, passing |-> {}, own |-> 0, sixteen |-> FALSE]
  /\ fault = [from |-> Never, large |-> FALSE] /\ done = 0
  /\ given = Nothing /\ posted = {} /\ told = Nothing

-----------------------------------------------------------------------------
(* A request, and what is true of it: of a container its length, the       *)
(* lengths whose check passes, the length of its owner's phrase, 0 with a  *)
(* wrong password, and the 16-bit check.  Of a search, `passing` are the   *)
(* candidates that match.                                                  *)
ByLength(kind) == {Asks(kind, "detect", Detect, FALSE)}
                    \cup {Asks(kind, "length", words, FALSE) : words \in Lengths}

(* A check compares with a length, a wallet reference of the owner's or    *)
(* the 16-bit check; only with a length detected may the page be asked.    *)
Requests ==
  ByLength("decrypt") \cup ByLength("check")
    \cup {Asks("check", reference, Detect, FALSE) : reference \in {"wallet", "sixteen"}}
    \cup {Asks("check", "detect", Detect, TRUE)}
    \cup {Asks(kind, "none", Detect, FALSE) : kind \in Kinds \ {"decrypt", "check"}}

Truths(kind) ==
  IF kind \in {"decrypt", "check"}
  THEN {[container |-> container, passing |-> passing, own |-> own, sixteen |-> sixteen] :
          container \in Lengths, passing \in SUBSET Shorts,
          own \in Lengths \cup {0}, sixteen \in BOOLEAN}
  ELSE {[container |-> Full, passing |-> matching, own |-> 0, sixteen |-> FALSE] :
          matching \in IF kind \in {"searchDecoy", "searchWallet"}
                       THEN SUBSET Candidates ELSE {{}}}

Possible(true) ==
  /\ true.passing \subseteq BuiltInCheckLengths(true.container)
  /\ true.own \in EveryReading(true.container, true.passing) \cup {0}

Begins ==
  /\ operation = "begin"
  /\ request' \in Requests
  /\ LET kind == request'.kind IN
       /\ truth' \in Truths(kind)
       /\ kind \in {"decrypt", "check"} => Possible(truth')
       /\ \E from \in 0 .. Calls(kind) + 1 \cup {Never}, large \in BOOLEAN :
            /\ Calls(kind) = 0 => from = Never
            /\ large => from \in 1 .. Calls(kind)
            /\ fault' = [from |-> from, large |-> large]
       /\ operation' = IF kind = "searchDecoy" THEN "searching" ELSE "starting"
  /\ UNCHANGED <<done, given, posted, told>>

Ends(answer) == told' = answer /\ operation' = "ended" /\ UNCHANGED <<request, truth, fault>>
Refusal(code) == Says(code, {}, {})

(* argon2For and the reading of the arguments, each refused before any     *)
(* Argon2 call.                                                            *)
Refuses ==
  /\ operation \in {"starting", "searching"} /\ done = 0 /\ posted = {}
  /\ Ends(Refusal("INVALID_REQUEST")) /\ UNCHANGED <<done, given, posted>>

(* The build at a moment: in a round, or after so many of them.            *)
WrongIn(round) == fault.from <= round

(* verify_known_answer at 1 MiB.                                           *)
KnownAnswerSlip(now) == TRUE
KnownAnswer(now) == fault.large \/ ~WrongIn(now)

(* engine_with: before the first round.                                    *)
TakesMemory ==
  /\ operation = "starting"
  /\ IF KnownAnswer(0)
     THEN operation' = "rounds" /\ UNCHANGED <<request, truth, fault, told>>
     ELSE Ends(Refusal("SELF_CHECK_FAILED"))
  /\ UNCHANGED <<done, given, posted>>

-----------------------------------------------------------------------------
(* What the library gives.                                                 *)

(* require_length of a container, refuse_impossible of a check.            *)
Impossible(reference, stated) ==
  IF request.kind = "decrypt" THEN ~LengthApplies(truth.container, stated)
  ELSE \/ reference \in {"length", "detect"} /\ BuiltInCheckLengths(truth.container) = {}
       \/ reference = "length" /\ stated \notin Shorts
       \/ reference = "sixteen" /\ truth.container # Full

DecryptedSlip(passing) ==
  LET readings == ReadingsOf(truth.container, passing, request.stated) IN
  IF readings = {} THEN Refusal("VERIFIER_MISMATCH") ELSE Says("recovered", readings, {})
(* mhfe.rs, decrypt: the readings of a recovered state with their lengths, *)
(* and for each RecoveredPhrase::new's other lengths.                      *)
Decrypted(passing) ==
  LET readings == ReadingsOf(truth.container, passing, request.stated) IN
  IF readings = {} THEN Refusal("VERIFIER_MISMATCH")
  ELSE Says("recovered", readings,
            UNION {passing \ {words} : words \in readings})

(* compare_state and evidence_of.                                          *)
Compared(passing, own, reference) ==
  Says(IF reference = "wallet"
       THEN IF own \in EveryReading(truth.container, passing) THEN "matches" ELSE "does not match"
       ELSE IF passing # {} THEN "matches"
       ELSE IF reference = "length" THEN "does not match" ELSE "not verified",
       {}, passing)

(* Encryption::run compares what it recovers: the same build gives the     *)
(* phrase back, also a wrong one.                                          *)
Sealed == IF WrongIn(1) \/ ~WrongIn(2 * Rounds) THEN Says("sealed", {}, {})
          ELSE Refusal("VERIFICATION_FAILED")

(* SelfTest::run, whose witness sees the first wrong key.                  *)
Tested == IF WrongIn(2 * Rounds) THEN Says("wrong", {fault.from}, {}) ELSE Says("passed", {}, {})

(* A candidate of search_wallet whose rounds are done: whether it matches, *)
(* by chance or not where the build was wrong.                             *)
Matches(candidate) ==
  IF WrongIn(done + 1) THEN BOOLEAN ELSE {candidate \in truth.passing}

(* A recovered state: what passes is chance where the build was wrong.     *)
Recovered ==
  IF WrongIn(done + 1)
  THEN {Says("state", {0}, passing) : passing \in SUBSET BuiltInCheckLengths(truth.container)}
  ELSE {Says("state", {truth.own}, truth.passing)}

Concludes(what) == given' = what /\ operation' = "verifying"

(* A refusal of the library itself, before its first round.                *)
IsImpossible == Impossible(request.reference, request.stated)

LibraryRefuses ==
  /\ operation = "rounds" /\ done = 0 /\ IsImpossible
  /\ Concludes(Refusal("IMPOSSIBLE")) /\ UNCHANGED <<request, truth, fault, done, posted, told>>

(* A round fails, for memory or in the page's code.                        *)
RoundFails ==
  /\ operation = "rounds" /\ ~IsImpossible
  /\ Concludes(Refusal("ROUND_FAILED")) /\ UNCHANGED <<request, truth, fault, done, posted, told>>

(* A round, and what follows the last one of a stage.  A search takes the  *)
(* first candidate that matches.                                           *)
Round ==
  /\ operation = "rounds" /\ ~IsImpossible /\ done' = done + 1
  /\ LET kind == request.kind
         candidate == done' \div Rounds
         last == done' = Calls(kind) IN
     CASE kind = "encrypt" ->
            /\ posted' = IF done' = Rounds THEN {"unverified"} ELSE posted
            /\ IF last THEN Concludes(Sealed) ELSE UNCHANGED <<operation, given>>
       [] kind = "searchWallet" ->
            /\ posted' = posted \cup {1 + done \div Rounds}
            /\ IF done' % Rounds # 0 THEN UNCHANGED <<operation, given>>
               ELSE \E match \in Matches(candidate) :
                      IF match THEN Concludes(Says("found", {candidate}, {}))
                      ELSE IF last THEN Concludes(Says("not found", {}, {}))
                      ELSE UNCHANGED <<operation, given>>
       [] OTHER ->
            /\ UNCHANGED posted
            /\ IF ~last THEN UNCHANGED <<operation, given>>
               ELSE IF kind = "selfTest" THEN Concludes(Tested)
               ELSE \E state \in Recovered :
                      Concludes(IF kind = "decrypt" THEN Decrypted(state.beside) ELSE state)
  /\ UNCHANGED <<request, truth, fault, told>>

(* verified: the outcome, a failed one too, is told only after the known   *)
(* answer.  A check compares then.                                         *)
Verifies ==
  /\ operation = "verifying"
  /\ IF ~KnownAnswer(done + 1) THEN Ends(Refusal("SELF_CHECK_FAILED"))
     ELSE IF given.word = "state"
     THEN operation' = "comparing" /\ UNCHANGED <<request, truth, fault, told>>
     ELSE Ends(given)
  /\ UNCHANGED <<done, given, posted>>

(* The 16-bit check of the 24-word reading, where that comes out.          *)
Sixteen(passing) == truth.sixteen /\ ~Single(passing)

(* core-worker.js, check: a match and a 16-bit pass end it.                *)
EndsCheckSlip(result) == result.word = "matches" \/ ~request.asks
EndsCheck(result) == result.word = "matches" \/ Sixteen(result.beside) \/ ~request.asks

Compares ==
  /\ operation = "comparing" /\ UNCHANGED <<request, truth, fault, done, given, posted>>
  /\ \E own \in given.names :
       LET result == Compared(given.beside, own, request.reference) IN
       IF EndsCheck(result) THEN told' = result /\ operation' = "ended"
       ELSE told' = Says("noLength", {}, given.beside) /\ operation' = "asking"

(* The page keeps the result, or gives a length, its wallet's reference or *)
(* the 16-bit check, compared with the same recovery.                      *)
Answers ==
  /\ operation = "asking" /\ UNCHANGED <<request, truth, fault, done, given, posted>>
  /\ operation' = "ended"
  /\ \E reference \in {"detect", "length", "wallet", "sixteen"}, own \in given.names :
       told' = Compared(given.beside, own, reference)

(* search_decoy on one thread: a candidate, its report, then the answer.   *)
Searches ==
  /\ operation = "searching"
  /\ done' = done + 1 /\ posted' = posted \cup {done'}
  /\ IF done' \in truth.passing THEN Ends(Says("found", {done'}, {}))
     ELSE IF done' = Count THEN Ends(Says("not found", {}, {}))
     ELSE UNCHANGED <<operation, request, truth, fault, told>>
  /\ UNCHANGED given

Next == \/ Begins \/ Refuses \/ TakesMemory \/ LibraryRefuses \/ RoundFails \/ Round \/ Verifies
        \/ Compares \/ Answers \/ Searches

Spec == Init /\ [][Next]_vars

-----------------------------------------------------------------------------
(* Properties.                                                             *)

OfThePhrase == {"sealed", "recovered", "matches", "does not match", "not verified", "noLength",
                "found", "not found", "VERIFIER_MISMATCH", "VERIFICATION_FAILED"}
Trusted == told.word \in OfThePhrase /\ ~fault.large

(* Nothing that is told of a phrase, a password or a container rests on a  *)
(* round that a wrong build computed, in an answer, a question or a        *)
(* refusal; a build that is wrong only with much memory is left to the     *)
(* self-test, which never passes it and names its first wrong round.       *)
RoundsWereRight ==
  /\ Trusted => ~WrongIn(done)
  /\ told.word = "passed" => ~WrongIn(done)
  /\ told.word = "wrong" => fault.large /\ told.names = {fault.from}

(* A recovery with the right password names the length of the owner's      *)
(* phrase, among the readings or beside them; only a 24-word phrase may be *)
(* left out, where 24 words were not stated and another length's check     *)
(* passes by chance, or refused, where a wrong length was stated.          *)
LengthIsNamed ==
  Trusted /\ request.kind = "decrypt" /\ truth.own # 0 =>
    \/ truth.own \in told.names \cup told.beside
    \/ /\ truth.own = Full /\ request.stated # Full
       /\ IF told.word = "recovered" THEN told.names \subseteq truth.passing
          ELSE request.stated \in Shorts

(* A page is asked for the length only where nothing else told the phrase, *)
(* and a match is one of the true recovery.                                *)
ChecksAreTrue ==
  Trusted /\ request.kind = "check" =>
    /\ told.word = "noLength" => truth.passing = {} /\ ~truth.sixteen
    /\ told.word = "matches" => truth.passing # {} \/ truth.own # 0

(* A search names the first candidate that matches, or none where none     *)
(* does, and the page has heard of each candidate compared before.         *)
SearchesAreTrue ==
  Trusted /\ request.kind \in {"searchDecoy", "searchWallet"} =>
    IF told.word = "found"
    THEN \E first \in truth.passing :
           /\ told.names = {first} /\ \A other \in truth.passing : first <= other
           /\ posted = 1 .. first
    ELSE truth.passing = {} /\ posted = Candidates

(* What a page is told of its phrase is true.                              *)
ToldIsEarned == RoundsWereRight /\ LengthIsNamed /\ ChecksAreTrue /\ SearchesAreTrue
=============================================================================
