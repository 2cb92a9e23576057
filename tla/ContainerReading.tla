--------------------------- MODULE ContainerReading ---------------------------
(***************************************************************************)
(* A container phrase typed by a person or given by a script               *)
(* (read_container of src/bin/mhfe/terminal.rs), repaired with the words   *)
(* of its card (container_repair.rs) or, with the card lost, found by a    *)
(* search of the words typed as ? (container_search.rs), then read; and    *)
(* mhfe repair and mhfe repair-words, which end with what was read.        *)
(***************************************************************************)
EXTENDS Naturals

VARIABLES
  read,      \* the question that is asked, "begin" before, "taken" once it is read
  asks,      \* the command, whether a script answers, and when the card is asked for
  written,   \* the phrase typed last
  reviewed,  \* what the review gave: the words, how repaired, the password typed for them
  known,     \* what the person knows of the wallet
  seen,      \* the phrase last shown to the person, or told to the script, since it was typed
  agreed,    \* whether the card found nothing to repair in what was typed
  exit

vars == <<read, asks, written, reviewed, known, seen, agreed, exit>>

(* A phrase typed: its length, how many words are ?, and what the others   *)
(* are: words of the container phrase meant, of another container, or of   *)
(* none.  A length no container has is 0.                                  *)
Containers == {"original", "other"}
Phrases == [length : {12, 24}, missing : 0 .. 3, words : Containers \cup {"invalid"}]
             \cup {[length |-> 0, missing |-> 0, words |-> "invalid"]}

(* ContainerReading::read and can_be_repaired.                             *)
Reading(phrase) ==
  CASE phrase.length = 0            -> "WrongLength"
    [] phrase.missing > 0           -> "Marked"
    [] phrase.words \in Containers  -> "Container"
    [] OTHER                        -> "NotAContainer"
CanBeRepaired(phrase) == Reading(phrase) \in {"Marked", "NotAContainer"}

AsTyped(phrase) ==
  [words |-> IF Reading(phrase) = "Container" THEN phrase.words ELSE "invalid",
   repaired |-> "none", password |-> "none"]

Init ==
  /\ read = "begin" /\ asks = [command |-> "none"] /\ written = [length |-> 0, missing |-> 0, words |-> "none"]
  /\ reviewed = [words |-> "none", repaired |-> "none", password |-> "none"] /\ known = "none" /\ seen = "none"
  /\ agreed = FALSE /\ exit = "none"

-----------------------------------------------------------------------------
(* The commands: mhfe repair always asks for the card, repair-words never, *)
(* and those that use the container with --repair or when it is needed.    *)
Begins ==
  /\ read = "begin" /\ read' = "container"
  /\ asks' \in [command : {"repair"}, script : BOOLEAN, card : {"Always"}]
         \cup [command : {"repair-words"}, script : BOOLEAN, card : {"Never"}]
         \cup [command : {"uses"}, script : BOOLEAN, card : {"Always", "WhenNeeded"}]
  /\ UNCHANGED <<written, reviewed, known, seen, agreed, exit>>

AsksCardSlip(phrase) ==
  asks.card # "Never" /\ CanBeRepaired(phrase) /\ (asks.card = "Always" \/ ~asks.script)
AsksCard(phrase) ==
  CASE asks.card = "Never"      -> FALSE
    [] asks.card = "Always"     -> Reading(phrase) # "WrongLength"
    [] asks.card = "WhenNeeded" -> ~asks.script /\ CanBeRepaired(phrase)

(* review: a phrase is read as it is, or its card is asked for, after a    *)
(* question where the words may as well be mistyped.                       *)
Types ==
  /\ read = "container" /\ written' \in Phrases
  /\ seen' = "none" /\ agreed' = FALSE
  /\ IF ~AsksCard(written') THEN read' = "read" /\ reviewed' = AsTyped(written')
     ELSE /\ read' = IF asks.card = "WhenNeeded" /\ Reading(written') = "NotAContainer"
                     THEN "wants repair" ELSE "card"
          /\ UNCHANGED reviewed
  /\ UNCHANGED <<asks, known, exit>>

WantsRepair ==
  /\ read = "wants repair" /\ read' \in {"container", "card"}
  /\ UNCHANGED <<asks, written, reviewed, known, seen, agreed, exit>>

-----------------------------------------------------------------------------
(* repair_with_card.                                                       *)

(* repair::repair: the phrase that the card gives and whether a word of    *)
(* the phrase or of the card had to change.  Damage beyond the bound, or a *)
(* card of another phrase, may give another container.                     *)
Repairs(phrase) ==
  {repair \in [words : Containers, changed : BOOLEAN] :
     ~repair.changed => Reading(phrase) = "Container" /\ repair.words = phrase.words}

(* input.accepted: a refusal is asked again, and ends a script.            *)
AgainAt(step) ==
  IF asks.script THEN exit' = "failure" /\ UNCHANGED read
  ELSE read' = step /\ UNCHANGED exit

NoCard ==
  /\ read = "card" /\ ~asks.script
  /\ read' = IF Reading(written) = "Marked" THEN "search" ELSE "container"
  /\ UNCHANGED <<asks, written, reviewed, known, seen, agreed, exit>>

CardRefused ==
  /\ read = "card" /\ AgainAt("card")
  /\ UNCHANGED <<asks, written, reviewed, known, seen, agreed>>

RepairedSlip(words) == [reviewed EXCEPT !.words = words, !.repaired = "card"]
Repaired(words) == [words |-> words, repaired |-> "card", password |-> "none"]

TypesCard ==
  /\ read = "card"
  /\ \E repair \in Repairs(written) :
       /\ agreed' = ~repair.changed
       /\ reviewed' = IF repair.changed THEN Repaired(repair.words) ELSE AsTyped(written)
       /\ seen' = IF repair.changed THEN repair.words ELSE seen
       /\ read' = IF repair.changed /\ ~asks.script THEN "use" ELSE "read"
  /\ UNCHANGED <<asks, written, known, exit>>

(* uses_repair, and the question of use_found.                             *)
Uses ==
  /\ read = "use" /\ read' \in {"read", "container"}
  /\ UNCHANGED <<asks, written, reviewed, known, seen, agreed, exit>>

-----------------------------------------------------------------------------
(* search_missing, at a terminal.                                          *)

(* ContainerSearch::new: too many missing words.                           *)
Search ==
  /\ read = "search" /\ read' = IF written.missing > 2 THEN "container" ELSE "known"
  /\ UNCHANGED <<asks, written, reviewed, known, seen, agreed, exit>>

OffersWalletSearch == written.missing <= 1
CarriesOwnChecks == written.length = 24

(* what_is_known_answers.                                                  *)
OfferedSlip ==
  {"container wallet", "type again"}
    \cup (IF OffersWalletSearch THEN {"original wallet"} ELSE {})
    \cup (IF CarriesOwnChecks THEN {"original passphrase", "nothing"} ELSE {})
Offered ==
  {"container wallet", "type again"}
    \cup (IF OffersWalletSearch THEN {"original wallet"} ELSE {})
    \cup (IF OffersWalletSearch /\ CarriesOwnChecks
          THEN {"original passphrase", "nothing"} ELSE {})

AskWhatIsKnown ==
  /\ read = "known"
  /\ \E answer \in Offered :
       /\ known' = IF answer = "type again" THEN "none" ELSE answer
       /\ read' = CASE answer = "type again"       -> "container"
                    [] answer = "container wallet" -> "comparing"
                    [] OTHER                       -> "starts"
  /\ UNCHANGED <<asks, written, reviewed, seen, agreed, exit>>

Found(how, password) ==
  \E words \in Containers :
    /\ reviewed' = [words |-> words, repaired |-> how,
                    password |-> IF password THEN words ELSE "none"]
    /\ seen' = words /\ read' = "use" /\ UNCHANGED <<exit, known>>
AskAgain ==
  read' = "known" /\ known' = "none" /\ UNCHANGED <<reviewed, seen, exit>>

(* with_container_wallet: compared without a password.                     *)
CompareWithDecoy ==
  /\ read = "comparing" /\ (Found("decoy", FALSE) \/ AskAgain)
  /\ UNCHANGED <<asks, written, agreed>>

(* starts_long_search, once the settings are known.                        *)
StartsLongSearch ==
  /\ read = "starts"
  /\ \/ read' = "searching" /\ UNCHANGED <<reviewed, seen, exit, known>>
     \/ AskAgain
  /\ UNCHANGED <<asks, written, agreed>>

(* require_one_missing and refuse_impossible of search_wallet.             *)
Refuses ==
  ~OffersWalletSearch \/ (known # "original wallet" /\ ~CarriesOwnChecks)

(* search_by_recoveries: the password is typed and the memory reserved,    *)
(* which may fail; then every candidate is recovered.                      *)
SearchByRecoveries ==
  /\ read = "searching"
  /\ IF Refuses THEN exit' = "refused" /\ UNCHANGED <<read, known, reviewed, seen>>
     ELSE \/ Found("recoveries", TRUE) \/ AskAgain
          \/ exit' = "failure" /\ UNCHANGED <<read, known, reviewed, seen>>
  /\ UNCHANGED <<asks, written, agreed>>

-----------------------------------------------------------------------------
(* ContainerFacts::read, and `fits` of a command that was told of another  *)
(* container.                                                              *)
Reads ==
  /\ read = "read"
  /\ \/ reviewed.words \in Containers /\ read' = "taken" /\ UNCHANGED exit
     \/ reviewed.words = "invalid" /\ AgainAt("container")
     \/ asks.command = "uses" /\ AgainAt("container")
  /\ UNCHANGED <<asks, written, reviewed, known, seen, agreed>>

(* run_repair shows what was repaired, and run_words the card.             *)
Ends ==
  /\ read = "taken" /\ exit' \in {"success", "failure"}
  /\ exit' = "success" \/ asks.command # "repair" \/ reviewed.repaired # "none"
  /\ UNCHANGED <<read, asks, written, reviewed, known, seen, agreed>>

Cancels ==
  /\ read \notin {"begin", "taken"} /\ ~asks.script /\ exit' = "cancelled"
  /\ UNCHANGED <<read, asks, written, reviewed, known, seen, agreed>>

Next ==
  /\ exit = "none"
  /\ \/ Begins \/ Types \/ WantsRepair \/ NoCard \/ CardRefused \/ TypesCard \/ Uses
     \/ Search \/ AskWhatIsKnown \/ CompareWithDecoy \/ StartsLongSearch
     \/ SearchByRecoveries \/ Reads \/ Ends \/ Cancels

Spec == Init /\ [][Next]_vars

-----------------------------------------------------------------------------
(* Properties.                                                             *)

(* Words that a repair or a search put in the place of those typed are     *)
(* never used before the person saw them, or the script was told; and the  *)
(* password that a search brings, which the command then takes without     *)
(* asking, was typed for this very container and no earlier one.           *)
UsedAsSeen ==
  read = "taken" =>
    /\ reviewed.words # AsTyped(written).words => seen = reviewed.words
    /\ reviewed.password \in {"none", reviewed.words}

(* A person is never asked for a password, and kept waiting, for a search  *)
(* that is then refused.                                                   *)
OfferedIsSearched == exit # "refused"

(* mhfe repair ends without showing a container only where the card agreed *)
(* with the words typed.                                                   *)
RepairIsShown ==
  read = "taken" /\ asks.command = "repair" /\ reviewed.repaired = "none" => agreed

(* The container that a command goes on with is the person's.              *)
ContainerIsTheirs == UsedAsSeen /\ OfferedIsSearched /\ RepairIsShown
=============================================================================
