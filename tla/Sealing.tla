------------------------------ MODULE Sealing ------------------------------
(***************************************************************************)
(* mhfe encrypt and mhfe new from the original phrase to what their owner  *)
(* keeps (src/bin/mhfe/encrypt.rs, the library's Encryption in             *)
(* src/operation.rs and encrypt in src/mhfe.rs).  Twelve rounds make the   *)
(* container, twelve more turn it back.  A person at a terminal sees it in *)
(* between; anything else gets it after the check.                         *)
(***************************************************************************)
EXTENDS Readings

VARIABLES
  reader,    \* who gets the container, of Readers
  original,  \* the phrase: its length, and the others its packed state passes the check of
  suite,     \* the container's length, 0 before it is chosen
  card,      \* repair words: "none", "asked", "made"
  sealing,   \* the next step; where the command ended it stays
  check,     \* "open", "passed", "wrong" for VERIFICATION_FAILED, "failed" for another error
  good,      \* whether the container turns back into the phrase
  flagged,   \* UNVERIFIED_CONTAINER_SHOWN
  told,      \* what the reader was given or told
  keep,      \* the list of what to keep, once it is told
  exit       \* "none", "success", "failure" or "cancelled"

subject == <<reader, original>>
vars == <<subject, suite, card, sealing, check, good, flagged, told, keep, exit>>

(* A script; a person whose output goes elsewhere; a person at a terminal  *)
(* without screens to switch; and one who is shown one step at a time.     *)
Readers == {"script", "redirected", "plain", "steps"}
(* input.is_script() is false and terminal::output_on_screen() true.       *)
PersonReadsOutput == reader \in {"plain", "steps"}

Init ==
  /\ reader = "script" /\ original = [words |-> Full, others |-> {}] /\ suite = 0
  /\ card = "none" /\ sealing = "begin" /\ check = "open" /\ good = FALSE
  /\ flagged = FALSE /\ told = {} /\ keep = {} /\ exit = "none"

TypeOK ==
  /\ reader \in Readers /\ original \in [words : Lengths, others : SUBSET Shorts]
  /\ suite \in Lengths \cup {0} /\ card \in {"none", "asked", "made"}
  /\ check \in {"open", "passed", "wrong", "failed"} /\ {good, flagged} \subseteq BOOLEAN
  /\ exit \in {"none", "success", "failure", "cancelled"}

(* The lengths whose check passes in a recovery of the container.          *)
Passing ==
  IF suite = Full THEN original.others \cup ({original.words} \cap Shorts) ELSE {}

(* OriginalFacts::other_lengths_in.                                        *)
OtherLengths == IF suite = Full THEN original.others ELSE {}

(* Keep::new, whose word count is that of the original; a card is in it    *)
(* where there is one.                                                     *)
KeepSlip ==
  {<<"words", suite>>} \cup (IF card = "made" THEN {<<"repair words", suite>>} ELSE {})
Keep ==
  {<<"words", suite>>}
    \cup (IF card = "made" THEN {<<"repair words", suite>>} ELSE {})
    \cup (IF OtherLengths # {} THEN {<<"count", original.words>>} ELSE {})

-----------------------------------------------------------------------------
(* The command up to the sealing.  mhfe new needs a private screen and     *)
(* draws 24 words; a script or a terminal without lists has a container of *)
(* 24 words unless it was given --same-length.                             *)

Begins ==
  /\ sealing = "begin" /\ sealing' = "choosing"
  /\ reader' \in Readers
  /\ \E words \in Lengths : \E others \in SUBSET (Shorts \ {words}) :
       original' = [words |-> words, others |-> others]
  /\ UNCHANGED <<suite, card, check, good, flagged, told, keep, exit>>

Chooses ==
  /\ sealing = "choosing" /\ sealing' = "encrypting"
  /\ suite' \in {Full, original.words}
  /\ card' \in {"none", "asked"}
  /\ UNCHANGED <<subject, check, good, flagged, told, keep, exit>>

Ends(how) == exit' = how

(* An Argon2 round that fails ends the sealing; what is told of it is told *)
(* where the result is taken up.                                           *)
Fails ==
  /\ sealing \in {"encrypting", "checking"} /\ check = "open"
  /\ check' = "failed" /\ sealing' = "result"
  /\ UNCHANGED <<subject, suite, card, good, flagged, told, keep, exit>>

(* The callback after round 12: Encryption::run makes the card, show_sealing*)
(* shows the container to a person who reads the output.  A fault in these *)
(* rounds makes a container that does not turn back.                       *)
Unchecked ==
  /\ sealing = "encrypting"
  /\ card' = (IF card = "asked" THEN "made" ELSE card)
  /\ good' \in BOOLEAN
  /\ sealing' = IF PersonReadsOutput THEN "showing" ELSE "checking"
  /\ UNCHANGED <<subject, suite, check, flagged, told, keep, exit>>

(* show_before_the_check: part of the container may be on the screen also  *)
(* when it could not all be written.                                       *)
Shows ==
  /\ sealing = "showing" /\ sealing' = "warning"
  /\ \/ told' = told \cup {"container"}
     \/ told' = told \cup {"container", "cut off"}
  /\ UNCHANGED <<subject, suite, card, check, good, flagged, keep, exit>>

WarnsSlip ==
  /\ sealing = "warning" /\ sealing' = "checking"
  /\ UNCHANGED <<subject, suite, card, check, good, flagged, told, keep, exit>>
Warns ==
  /\ sealing = "warning" /\ sealing' = "checking" /\ flagged' = TRUE
  /\ UNCHANGED <<subject, suite, card, check, good, told, keep, exit>>

(* Rounds 13 to 24 and the comparison, which a fault in them fails too.    *)
Checks ==
  /\ sealing = "checking" /\ check = "open" /\ sealing' = "result"
  /\ check' \in IF good THEN {"passed", "wrong"} ELSE {"wrong"}
  /\ UNCHANGED <<subject, suite, card, good, flagged, told, keep, exit>>

-----------------------------------------------------------------------------
(* show_sealing from the end of the sealing on.                            *)

Card == IF card = "made" THEN {"card"} ELSE {}

(* A failed write of the container ends the command; a failed check is     *)
(* told first.                                                             *)
CutOff ==
  /\ sealing = "result" /\ "cut off" \in told /\ Ends("failure")
  /\ told' = told \cup {"failure"}
  /\ UNCHANGED <<subject, suite, card, sealing, check, good, flagged, keep>>

(* Nothing was shown before the check: the container and the card come out *)
(* now, or the failure does, also of a round that failed before the        *)
(* container was there for a person to see.                                *)
GivesOutSlip ==
  /\ sealing = "result" /\ "container" \notin told /\ sealing' = "kept"
  /\ told' = told \cup {"given"} \cup Card
  /\ UNCHANGED <<subject, suite, card, check, good, flagged, keep, exit>>
GivesOut ==
  /\ sealing = "result" /\ "container" \notin told
  /\ \/ /\ check = "passed" /\ sealing' = "kept" /\ UNCHANGED exit
        /\ told' = told \cup {"given"} \cup Card
                        \cup (IF reader = "script" THEN {} ELSE {"verified"})
     \/ /\ check = "passed" /\ told' \in {told \cup {"failure"}, told \cup {"given", "failure"}}
        /\ Ends("failure") /\ UNCHANGED sealing
     \/ /\ check # "passed" /\ told' = told \cup {"failure"}
        /\ Ends("failure") /\ UNCHANGED sealing
  /\ UNCHANGED <<subject, suite, card, check, good, flagged, keep>>

(* set_unverified_container_shown(false), before anything is said.         *)
Unflags ==
  /\ sealing = "result" /\ "container" \in told /\ "cut off" \notin told
  /\ flagged' = FALSE /\ sealing' = "reporting"
  /\ UNCHANGED <<subject, suite, card, check, good, told, keep, exit>>

(* report_check, then the card of a container whose check passed.          *)
Reported ==
  CASE check = "passed" -> {"verified"} \cup Card
    [] check = "wrong"  -> {"wrong"}
    [] check = "failed" -> {"not verified"}

Reports ==
  /\ sealing = "reporting" /\ told' = told \cup Reported /\ sealing' = "leaving"
  /\ UNCHANGED <<subject, suite, card, check, good, flagged, keep, exit>>

(* The person leaves the screen, which may fail as any write before it;    *)
(* without steps the main screen is told again.                            *)
Leaves ==
  /\ sealing = "leaving"
  /\ \/ check = "passed" /\ sealing' = "kept" /\ UNCHANGED <<told, exit>>
     \/ told' = told \cup {"failure"} /\ Ends("failure") /\ UNCHANGED sealing
  /\ UNCHANGED <<subject, suite, card, check, good, flagged, keep>>

(* The end of run: what to keep.                                           *)
Keeps ==
  /\ sealing = "kept" /\ keep' = Keep /\ Ends("success")
  /\ UNCHANGED <<subject, suite, card, sealing, check, good, flagged, told>>

(* Ctrl+C at any moment, and the alarm of exit_cancelled.                  *)
Cancels ==
  /\ sealing # "begin" /\ Ends("cancelled")
  /\ told' = told \cup (IF flagged THEN {"not verified"} ELSE {})
  /\ UNCHANGED <<subject, suite, card, sealing, check, good, flagged, keep>>

Next ==
  /\ exit = "none"
  /\ \/ Begins \/ Chooses \/ Fails \/ Unchecked \/ Shows \/ Warns \/ Checks
     \/ CutOff \/ GivesOut \/ Unflags \/ Reports \/ Leaves \/ Keeps \/ Cancels

Spec == Init /\ [][Next]_vars

-----------------------------------------------------------------------------
(* Properties.                                                             *)

(* A program or a file gets only a container that turns back, a card is    *)
(* given out only for such a one, and nothing else is called verified or   *)
(* ends with success (AUD-015-SEC005).                                     *)
OnlyCheckedIsFinal ==
  told \cap {"given", "card", "verified"} # {} \/ exit = "success" => good

(* A person who may have written the container down before its check is    *)
(* told at the end of the command that it is wrong or not verified, unless *)
(* it is verified.  Ctrl+C right after it is shown, before the warning is  *)
(* armed, and right before the report, is told as any other.               *)
NotReliedOnUnchecked ==
  exit # "none" /\ "container" \in told /\ check # "passed"
    => \/ told \cap {"wrong", "not verified", "failure"} # {}
       \/ exit = "cancelled" /\ sealing \in {"warning", "reporting"}

(* What the owner keeps is enough: a recovery told the length that was to  *)
(* be noted, or none, gives the original, and no other short phrase with   *)
(* it; a card that came out is in the list.                                *)
KeepIsEnough ==
  exit = "success" =>
    LET noted    == {words \in Lengths : <<"count", words>> \in keep}
        stated   == IF noted = {} THEN Detect ELSE original.words
        readings == ReadingsOf(suite, Passing, stated) IN
    /\ noted \subseteq {original.words} /\ original.words \in readings
    /\ Single(readings) \/ original.words = Full
    /\ noted # {} <=> ReadingsOf(suite, Passing, Detect) # {original.words}
    /\ "card" \in told <=> <<"repair words", suite>> \in keep

(* Only what was checked is relied on, and what is kept is enough for it.  *)
SealedIsChecked == OnlyCheckedIsFinal /\ NotReliedOnUnchecked /\ KeepIsEnough
=============================================================================
