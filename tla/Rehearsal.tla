----------------------------- MODULE Rehearsal -----------------------------
(***************************************************************************)
(* mhfe check (src/bin/mhfe/check.rs) and what it compares and reports of  *)
(* a recovery (src/rehearsal.rs).  The phrase stays hidden, so a person    *)
(* knows of it only what the result says.                                  *)
(*                                                                         *)
(* An address and the fingerprint are one kind of reference here, that of  *)
(* a wallet: of one reading of the recovery or of none (a wrong password), *)
(* and of its owner's BIP39 passphrase, which may be none.                 *)
(***************************************************************************)
EXTENDS Readings

VARIABLES
  rehearsal,   \* the next step; where the command ended it stays
  script,      \* input.is_script()
  recovery,    \* the container's length, the lengths whose built-in check passes, and
               \* whether the 24-word reading passes the 16-bit check with what is typed
  wallet,      \* the words of the reference's reading, 0 for none, and the wallet's passphrase
  choice,      \* the kind of comparison, and the length stated for the built-in check
  typed,       \* the BIP39 passphrase typed
  evidence,    \* CheckEvidence
  result,      \* its lines
  exit         \* "none", "success", "no match", "failure" or "cancelled"

vars == <<rehearsal, script, recovery, wallet, choice, typed, evidence, result, exit>>

Passphrases == {"", "hers", "other"}
Choice(kind, words) == [kind |-> kind, words |-> words]

Init ==
  /\ rehearsal = "begin" /\ script = FALSE
  /\ recovery = [container |-> Full, passing |-> {}, sixteen |-> FALSE]
  /\ wallet = [words |-> 0, passphrase |-> ""] /\ choice = Choice("wallet", 0) /\ typed = ""
  /\ evidence = [outcome |-> "none", found |-> 0, others |-> {}, sixteen |-> FALSE,
                 without |-> FALSE]
  /\ result = {} /\ exit = "none"

-----------------------------------------------------------------------------
(* What is asked.                                                          *)

Begins ==
  /\ rehearsal = "begin" /\ rehearsal' = "choosing" /\ script' \in BOOLEAN
  /\ \E container \in Lengths, sixteen \in BOOLEAN :
       \E passing \in SUBSET BuiltInCheckLengths(container) :
         /\ recovery' = [container |-> container, passing |-> passing, sixteen |-> sixteen]
         /\ \E words \in EveryReading(container, passing) \cup {0}, hers \in {"", "hers"} :
              wallet' = [words |-> words, passphrase |-> hers]
  /\ UNCHANGED <<choice, typed, evidence, result, exit>>

(* The 16-bit check has no option: it is offered after its passphrase.     *)
Offered(passphrase) ==
  {Choice("wallet", 0), Choice("ownChecks", 0)}
    \cup {Choice("builtInCheck", words) : words \in Lengths}
    \cup (IF ~script /\ recovery.container = Full /\ passphrase # ""
          THEN {Choice("walletCheck", 0)} ELSE {})

(* refuse_impossible, before the password and again before each comparison.*)
Impossible(chosen) ==
  \/ chosen.kind = "builtInCheck" /\ chosen.words \notin BuiltInCheckLengths(recovery.container)
  \/ chosen.kind = "ownChecks" /\ BuiltInCheckLengths(recovery.container) = {}

Chooses ==
  /\ rehearsal = "choosing"
  /\ typed' \in Passphrases /\ choice' \in Offered(typed')
  /\ IF Impossible(choice') THEN exit' = "failure" /\ UNCHANGED rehearsal
     ELSE rehearsal' = "comparing" /\ UNCHANGED exit
  /\ UNCHANGED <<script, recovery, wallet, evidence, result>>

-----------------------------------------------------------------------------
(* compare_state and evidence_of.                                          *)

(* The reference compared with every reading, with a passphrase.           *)
Matches(passphrase) ==
  /\ wallet.words \in EveryReading(recovery.container, recovery.passing)
  /\ wallet.passphrase = passphrase

Compared(outcome, matched, without) ==
  [outcome |-> outcome, matched |-> matched, without |-> without]
Found(outcome) == Compared(outcome, 0, FALSE)

CompareStateSlip(chosen) ==
  IF chosen.kind = "wallet"
  THEN IF Matches(typed) \/ Matches("") THEN Compared("matches", wallet.words, FALSE)
       ELSE Found("does not match")
  ELSE IF recovery.passing # {} THEN Found("matches")
  ELSE Found(IF chosen.kind = "builtInCheck" THEN "does not match" ELSE "not verified")

CompareState(chosen) ==
  IF chosen.kind = "wallet"
  THEN IF Matches(typed) THEN Compared("matches", wallet.words, FALSE)
       ELSE IF Matches("") THEN Compared("matches", wallet.words, TRUE)
       ELSE Found("does not match")
  ELSE IF recovery.passing # {} THEN Found("matches")
  ELSE Found(IF chosen.kind = "builtInCheck" THEN "does not match" ELSE "not verified")

First(lengths) == CHOOSE words \in lengths : \A other \in lengths : words <= other

(* Where the 24-word reading comes out, for its 16-bit check.              *)
Reads24WordsSlip(matched) == TRUE
Reads24Words(matched) == ~Single(recovery.passing) \/ matched = Full

EvidenceOf(chosen) ==
  LET compared == CompareState(chosen)
      passing  == recovery.passing
      found    == IF passing = {} THEN 0
                  ELSE IF chosen.kind = "builtInCheck" /\ chosen.words \in passing
                  THEN chosen.words ELSE First(passing) IN
  [outcome |-> compared.outcome, found |-> found, others |-> passing \ {found},
   sixteen |-> /\ recovery.container = Full /\ chosen.kind # "builtInCheck"
               /\ Reads24Words(compared.matched) /\ recovery.sixteen,
   without |-> compared.without]

Recovers ==
  /\ rehearsal = "comparing" /\ evidence' = EvidenceOf(choice)
  /\ rehearsal' =
       IF /\ evidence'.outcome = "not verified" /\ choice.kind = "ownChecks"
          /\ ~evidence'.sixteen /\ ~script
       THEN "asking length" ELSE "reporting"
  /\ UNCHANGED <<script, recovery, wallet, choice, typed, result, exit>>

(* ask_length_after_detection, on the same recovery and passphrase.        *)
AsksLength ==
  /\ rehearsal = "asking length" /\ rehearsal' = "reporting"
  /\ choice' \in {Choice("wallet", 0)} \cup {Choice("builtInCheck", words) : words \in Shorts}
  /\ evidence' = EvidenceOf(choice')
  /\ UNCHANGED <<script, recovery, wallet, typed, result, exit>>

(* No memory for Argon2, or an error of a round.                           *)
Fails ==
  /\ rehearsal = "comparing" /\ exit' = "failure"
  /\ UNCHANGED <<rehearsal, script, recovery, wallet, choice, typed, evidence, result>>

Cancels ==
  /\ rehearsal # "begin" /\ exit' = "cancelled"
  /\ UNCHANGED <<rehearsal, script, recovery, wallet, choice, typed, evidence, result>>

-----------------------------------------------------------------------------
(* report.                                                                 *)

IsMatch  == evidence.outcome = "matches"
BuiltIn  == {<<"built-in check", words>> : words \in ({evidence.found} \cup evidence.others) \ {0}}

(* matched_lines, of a person.                                             *)
MatchedLines ==
  BuiltIn \cup
  (IF choice.kind = "wallet"
   THEN {<<"wallet", IF typed # "" /\ ~evidence.without THEN "with" ELSE "without">>} ELSE {})

(* say_what_else_it_shows, and in matched_lines the 16-bit check.          *)
WhatElse ==
  (IF choice.kind = "builtInCheck" /\ evidence.found \notin {0, choice.words}
   THEN {<<"finds", evidence.found>>} ELSE {})
  \cup (IF evidence.sixteen THEN {<<"16-bit check", "passes">>} ELSE {})
  \cup (IF evidence.without
        THEN {<<"passphrase", IF evidence.sixteen THEN "very likely" ELSE "not confirmed">>}
        ELSE {})

Reports ==
  /\ rehearsal = "reporting"
  /\ result' = {<<"outcome", evidence.outcome>>} \cup WhatElse
             \cup (IF ~IsMatch THEN {}
                   ELSE IF ~script THEN MatchedLines
                   ELSE IF evidence.others # {} THEN BuiltIn ELSE {})
  /\ exit' = IF IsMatch THEN "success" ELSE "no match"
  /\ UNCHANGED <<rehearsal, script, recovery, wallet, choice, typed, evidence>>

Next ==
  /\ exit = "none"
  /\ Begins \/ Chooses \/ Recovers \/ AsksLength \/ Fails \/ Reports \/ Cancels

Spec == Init /\ [][Next]_vars

-----------------------------------------------------------------------------
(* Properties.                                                             *)

Ended == exit \in {"success", "no match"}
ToldLengths == {words \in Lengths : <<"built-in check", words>> \in result}

(* Each line of a result is true of the phrase, the passphrase and the     *)
(* recovery, and none that matters is left out: every length whose check   *)
(* passes is named where more than one does, a wallet with the passphrase  *)
(* is told from one without, and the 16-bit check is named where a        *)
(* recovery gives the 24-word phrase, and earns no match (APP-6).          *)
LinesAreTrue ==
  Ended =>
    /\ ToldLengths \subseteq recovery.passing
    /\ exit = "success" /\ (~script \/ ~Single(recovery.passing))
         => recovery.passing \subseteq ToldLengths
    /\ <<"wallet", "with">> \in result => wallet.words # 0 /\ wallet.passphrase = typed
    /\ <<"wallet", "without">> \in result => wallet.words # 0 /\ wallet.passphrase = ""
    /\ <<"16-bit check", "passes">> \in result <=>
         /\ recovery.sixteen /\ choice.kind # "builtInCheck"
         /\ \/ Full \in ReadingsOf(recovery.container, recovery.passing, Detect)
            \/ exit = "success" /\ choice.kind = "wallet" /\ wallet.words = Full
               /\ recovery.container = Full
    /\ exit = "success" /\ choice.kind # "wallet" => recovery.passing # {}

(* What a rehearsal calls a match, with nothing said against it, is what   *)
(* mhfe rekey confirms the phrase with, and nothing else is (the note      *)
(* "mhfe rekey takes only that one").                                      *)
Unreserved ==
  /\ exit = "success" /\ \A line \in result : line[1] \notin {"passphrase", "finds"}
  /\ choice.kind = "builtInCheck" => evidence.others = {}

RekeyTakesIt ==
  Ended /\ choice.kind \in {"wallet", "builtInCheck"} =>
    LET matching == IF wallet.passphrase = typed THEN wallet.words ELSE 0
        kind     == IF choice.kind = "wallet" THEN "reference" ELSE "builtInCheck" IN
    Unreserved <=>
      Confirm(kind, matching, recovery.container, recovery.passing, choice.words).refusal = "none"

(* The result of a check is true, and as much as a rekey takes.            *)
ResultIsTrue == LinesAreTrue /\ RekeyTakesIt
=============================================================================
