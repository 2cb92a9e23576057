---------------------------- MODULE PasswordEntry ----------------------------
(***************************************************************************)
(* A password of a container as it is made, typed and reviewed under its   *)
(* check word (src/check_word.rs, src/new_password.rs and, of the tool,    *)
(* made_password.rs, check_word.rs and the two places that read one).      *)
(*                                                                         *)
(* The list has 3 words instead of 7,776, and a password with a check word *)
(* 2 drawn words instead of 5.  A text is the sequence of what its single  *)
(* spaces separate: a word of the list, 0 to 2; the same with a capital,   *)
(* 10 to 12; nothing, between two spaces or at an end; or another word.    *)
(***************************************************************************)
EXTENDS Integers, Sequences, FiniteSets

VARIABLES
  entry,     \* where the dialog is
  reads,     \* "old" for a password that the container has, "new" for a new one
  typist,    \* "person", "plain" (a terminal without lists), "script" or "page"
  paper,     \* the password that the owner has on paper
  entered,   \* the text typed
  repeated,  \* what was typed the second time
  used,      \* the password that the command goes on with
  outcome    \* what the summary says of the check word

vars == <<entry, reads, typist, paper, entered, repeated, used, outcome>>

-----------------------------------------------------------------------------
(* The profile, MHFE-PASSWORD-CHECK-1, of the core.                        *)

ListSize == 3
Drawn    == 2
Listed   == 0 .. ListSize - 1
Nothing  == 20     \* no letter between two spaces
Question == 21     \* "?"
Other    == 22     \* a word outside the list

(* The check word, and the word that one place needs for all to fit.       *)
CheckWord(words)   == (words[1] + 2 * words[2]) % ListSize
Fits(words)        == words[3] = CheckWord(words)
Needed(words, i)   == CHOOSE w \in Listed : Fits([words EXCEPT ![i] = w])

Gaps(text) == {i \in DOMAIN text : text[i] \notin Listed}

(* read, on Check::of: the reading and the repairs, by their place.        *)
Reading(text) ==
  CASE Len(text) # Drawn + 1 \/ Cardinality(Gaps(text)) > 1 -> "NotThisShape"
    [] Len(text) = Drawn + 1 /\ Cardinality(Gaps(text)) = 1 -> "Restorable"
    [] OTHER -> IF Fits(text) THEN "Fits" ELSE "Mismatch"
Repairs(text) ==
  CASE Reading(text) = "Restorable" -> Gaps(text)
    [] Reading(text) = "Mismatch" -> 1 .. Drawn + 1
    [] OTHER -> {}
Repaired(text, i) == [text EXCEPT ![i] = Needed(text, i)]

(* written_form: small letters, and no word empty.                         *)
Small(word) == IF word \in 10 .. 12 THEN word - 10 ELSE word
WrittenFormSlip(text) == [i \in DOMAIN text |-> Small(text[i])]
WrittenForm(text) ==
  LET words == SelectSeq(text, LAMBDA word : word # Nothing) IN
  [i \in DOMAIN words |-> Small(words[i])]

(* PasswordReview::of, and what it offers beside the text as typed.        *)
Corrected(text) ==
  Reading(text) = "NotThisShape" /\ WrittenForm(text) # text
    /\ Reading(WrittenForm(text)) # "NotThisShape"
Reviewed(text) == IF Corrected(text) THEN WrittenForm(text) ELSE text
OffersCorrection(text) == Corrected(text) /\ Reading(Reviewed(text)) = "Fits"

(* ReviewChoice, each by the password that apply gives for it.             *)
Offered(text) ==
  {Repaired(Reviewed(text), i) : i \in Repairs(Reviewed(text))}
    \cup (IF OffersCorrection(text) THEN {Reviewed(text)} ELSE {})

-----------------------------------------------------------------------------
(* The owner's passwords, and how one is typed from paper.                 *)

WithCheck == {<<a, b, CheckWord(<<a, b>>)>> : a \in Listed, b \in {0, 2}}
Passwords == WithCheck \cup {<<0, 1>>, <<0, 0, 1>>}

Misread(text) ==
  {text} \cup {[text EXCEPT ![i] = w] : i \in DOMAIN text, w \in Listed \cup {Question, Other}}
LaidOut(text) ==
  {text, <<Nothing>> \o text, text \o <<Nothing>>}
    \cup {[i \in DOMAIN text |-> IF i <= n /\ text[i] \in Listed THEN text[i] + 10 ELSE text[i]] :
            n \in 1 .. 2}
Typings(text) == UNION {LaidOut(misread) : misread \in Misread(text)} \cup {<<Nothing>>}

Allowed(text) == text # <<Nothing>>      \* Password::new

Init ==
  /\ entry = "begin" /\ reads \in {"old", "new"}
  /\ typist \in {"person", "plain", "script", "page"} /\ paper = <<>>
  /\ entered = <<>> /\ repeated = <<>> /\ used = <<>> /\ outcome = "none"

Here == UNCHANGED <<reads, typist>>

-----------------------------------------------------------------------------
(* A password that MHFE makes: read_made.                                  *)

(* refuse_kind and ask_kind: only where it can be shown privately.         *)
CanMake == reads = "new" /\ typist = "person"

Makes ==
  /\ entry = "begin" /\ CanMake
  /\ used' \in WithCheck \cup {<<0, 1>>} /\ entry' = "shown"
  /\ UNCHANGED <<paper, entered, repeated, outcome>> /\ Here

WritesDown ==
  /\ entry = "shown" /\ paper' \in {used} \cup {[used EXCEPT ![1] = 2]}
  /\ entry' = "written" /\ UNCHANGED <<entered, repeated, used, outcome>> /\ Here

RightCopySlip(text) == text \in {used, <<Nothing>>}
RightCopy(text)     == text = used

TypesBack ==
  /\ entry = "written" /\ entered' \in {paper, <<Nothing>>}
  /\ entry' = IF RightCopy(entered') THEN "done" ELSE "shown"
  /\ outcome' = IF RightCopy(entered') THEN "made" ELSE outcome
  /\ UNCHANGED <<paper, repeated, used>> /\ Here

-----------------------------------------------------------------------------
(* One that the person types: read_typed_password, read_password and, of a *)
(* page, typed_password.                                                   *)

Remembers ==
  /\ entry = "begin" /\ paper' \in Passwords /\ entry' = "asked"
  /\ UNCHANGED <<entered, repeated, used, outcome>> /\ Here

(* Refused, a person types again; a script and a page end.                 *)
Again == IF typist \in {"person", "plain"} THEN "asked" ELSE "refused"

Types ==
  /\ entry = "asked" /\ entered' \in Typings(paper)
  /\ entry' = IF reads = "new"
              THEN IF Allowed(entered') THEN "repeat" ELSE Again
              ELSE "review"
  /\ UNCHANGED <<paper, repeated, used, outcome>> /\ Here

Repeats ==
  /\ entry = "repeat" /\ repeated' \in {entered, <<Nothing>>}
  /\ entry' = IF repeated' = entered THEN "review" ELSE Again
  /\ UNCHANGED <<paper, entered, used, outcome>> /\ Here

(* The password is used, if its own rules allow it.                        *)
Uses(text, how) ==
  /\ IF Allowed(text) THEN entry' = "done" /\ used' = text /\ outcome' = how
     ELSE entry' = Again /\ UNCHANGED <<used, outcome>>
  /\ UNCHANGED <<paper, entered, repeated>> /\ Here

(* check_word::review asks nothing of a script, of a terminal without      *)
(* lists, of another kind of password or of one that fits as typed.        *)
NotAsked ==
  \/ typist \in {"plain", "script"}
  \/ Reading(Reviewed(entered)) = "NotThisShape"
  \/ Reading(entered) = "Fits"

NotReviewed ==
  /\ entry = "review" /\ typist # "page" /\ NotAsked
  /\ Uses(entered, IF typist = "person" /\ Reading(entered) = "Fits" THEN "fits" ELSE "not checked")

(* decide: every answer of the question.                                   *)
Chooses ==
  /\ entry = "review" /\ typist = "person" /\ ~NotAsked
  /\ \/ Uses(entered, "does not fit")
     \/ \E i \in Repairs(Reviewed(entered)) : Uses(Repaired(Reviewed(entered), i), "repaired")
     \/ OffersCorrection(entered) /\ Uses(Reviewed(entered), "fits")
     \/ entry' = "asked" /\ UNCHANGED <<paper, entered, repeated, used, outcome>> /\ Here

(* chosen_password: a page passes a choice, which may not be offered.      *)
PageChooses ==
  /\ entry = "review" /\ typist = "page"
  /\ \/ Uses(entered, "as typed")
     \/ \E i \in 1 .. Drawn + 1 :
          IF i \in Repairs(Reviewed(entered)) THEN Uses(Repaired(Reviewed(entered), i), "repaired")
          ELSE entry' = "refused" /\ UNCHANGED <<paper, entered, repeated, used, outcome>> /\ Here
     \/ IF OffersCorrection(entered) THEN Uses(Reviewed(entered), "fits")
        ELSE entry' = "refused" /\ UNCHANGED <<paper, entered, repeated, used, outcome>> /\ Here

Next ==
  \/ Makes \/ WritesDown \/ TypesBack \/ Remembers \/ Types \/ Repeats
  \/ NotReviewed \/ Chooses \/ PageChooses

Spec == Init /\ [][Next]_vars

-----------------------------------------------------------------------------
(* Properties.                                                             *)

(* At the question, a password with a check word of which one word was     *)
(* misread or forgotten, or typed with spaces or capitals too many, is     *)
(* among the answers; only one capital together with a misread word hides  *)
(* it, as the capital itself is then read as the word left out.            *)
OneSlipIsRepaired ==
  entry = "review" /\ paper \in WithCheck
    /\ (entered \in UNION {LaidOut(text) : text \in Misread(paper)})
    /\ ~(Reading(entered) = "Restorable" /\ \E i \in DOMAIN entered : entered[i] \in 10 .. 12
           /\ Reviewed(entered) \notin LaidOut(paper))
    => paper \in Offered(entered) \cup {entered}

(* The password used is the owner's to type again: a made one is the copy  *)
(* on paper, a typed one the text typed or an answer offered for it, and   *)
(* nothing is corrected unless a person or a page chose it.                *)
UsedIsTheOwners ==
  entry = "done" =>
    /\ outcome = "made" => used = paper
    /\ outcome \in {"not checked", "does not fit", "as typed"} => used = entered
    /\ outcome \in {"fits", "repaired"} =>
         used \in Offered(entered) \cup {entered} /\ Reading(used) = "Fits"
    /\ typist \in {"script", "plain"} => used = entered
    /\ reads = "new" /\ outcome # "made" => repeated = entered

(* A slip of one word is repaired, and no other password is used.          *)
OwnersPassword == OneSlipIsRepaired /\ UsedIsTheOwners
=============================================================================
