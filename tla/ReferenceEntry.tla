--------------------------- MODULE ReferenceEntry ---------------------------
(***************************************************************************)
(* How the commands read the reference of a wallet and its BIP39           *)
(* passphrase (src/bin/mhfe/check.rs, decrypt.rs), the step of a prompt    *)
(* that is erased once it is answered (terminal.rs), and the reference     *)
(* that a recovery is then compared with (src/rehearsal.rs).               *)
(*                                                                         *)
(* A person may type their seed phrase where an address is asked for.  A   *)
(* row of the main screen is what stands on it: what was there before, the *)
(* rows of the step, or the record of an answer.                           *)
(***************************************************************************)
EXTENDS Integers, Sequences, SequencesExt, Functions

VARIABLES
  entry,       \* what is read next, at the end "ready", "not asked", "failed" or
               \* "cancelled"
  way,         \* who asks: "check", "rekey", "search", "own checks" or "source check"
  field,       \* what is asked for: "address", "fingerprint", "either" or "none"
  coin,        \* the coin named on the command line: "any", that of the address, or another
  script,      \* input.is_script()
  flow,        \* whether every step has a screen of its own (flow.rs)
  said,        \* whether there is a passphrase: "yes", "no", or "open" where nobody said
  passphrase,  \* the one typed, empty for none
  lines,       \* Step.lines
  erasable,    \* Step.erasable
  main,        \* the rows of the main screen
  summary,     \* the records kept until the steps end
  tries,       \* answers typed, up to MaxTries
  target       \* what the reference was read as

vars == <<entry, way, field, coin, script, flow, said, passphrase, lines, erasable, main,
          summary, tries, target>>

MaxTries == 3
PromptColumns  == 4    \* of the terminal, whose window keeps its width during a step
Above    == <<"above", "above", "above">>

(* What may be typed, and the columns it takes after a prompt of two.      *)
Prompt == 2
Texts  == {"nothing", "word", "fingerprint", "address", "phrase"}
Width(text) == CASE text = "nothing" -> 0 [] text = "word" -> 1 [] text = "fingerprint" -> 2
                 [] text = "address" -> 5 [] text = "phrase" -> 6

Init ==
  /\ entry = "begin" /\ way = "check" /\ field = "none" /\ coin = "any" /\ script = FALSE
  /\ flow = FALSE /\ said = "open" /\ passphrase = "" /\ lines = 0 /\ erasable = FALSE
  /\ main = Above /\ summary = <<>> /\ tries = 0 /\ target = "none"

-----------------------------------------------------------------------------
(* The step of a prompt.                                                   *)

(* Step::start, below the rows that stand.                                 *)
StepStarts(rows) ==
  IF script' \/ flow' THEN lines' = 0 /\ erasable' = FALSE /\ main' = rows
  ELSE lines' = 1 /\ erasable' \in BOOLEAN /\ main' = Append(rows, "step")

(* The field follows the passphrase, or there is none.                     *)
Goes(rows) ==
  IF field' = "none" THEN entry' = "ready" /\ main' = rows /\ UNCHANGED <<lines, erasable>>
  ELSE entry' = "field" /\ StepStarts(rows)

(* rows: text that fills its last line exactly takes no more.              *)
RowsSlip(characters) == characters \div PromptColumns + 1
Rows(characters) == IF characters = 0 THEN 1 ELSE (characters + PromptColumns - 1) \div PromptColumns

(* What the terminal does: a character moves on where its line is full.    *)
TakenRows(characters) ==
  FoldLeft(LAMBDA at, i : IF at.column = PromptColumns THEN [row |-> at.row + 1, column |-> 1]
                          ELSE [at EXCEPT !.column = @ + 1],
           [row |-> 1, column |-> 0], [i \in 1 .. characters |-> i]).row

Drawn(row, n) == [i \in 1 .. n |-> row]

(* choice::record: on the main screen, or kept until the steps end.        *)
OnMain(rows, records)   == IF flow' THEN rows ELSE rows \o records
InSummary(records)      == summary' = IF flow' THEN summary \o records ELSE summary

-----------------------------------------------------------------------------
(* Who asks, and for what.                                                 *)

Ways == {"check", "rekey", "search", "own checks", "source check"}
Fields(asking) ==
  CASE asking \in {"check", "rekey"} -> {"address", "fingerprint"}
    [] asking = "search" -> {"either"} [] OTHER -> {"none"}

(* read_given: where nobody said it, the passphrase is read, Enter for none.*)
ReadsGiven ==
  /\ way' \in {"check", "rekey"} /\ script' \in BOOLEAN
  /\ coin' \in IF way' = "check" THEN {"any", "its", "another"} ELSE {"any"}
  /\ said' \in IF way' = "check" THEN {"open"} ELSE {"yes", "no"}
  /\ IF said' = "no" THEN Goes(main)
     ELSE entry' = "passphrase" /\ UNCHANGED <<lines, erasable, main>>

(* A search for missing words asks a person whether there is one.          *)
ReadsForSearch ==
  /\ way' = "search" /\ coin' = "any" /\ script' = FALSE /\ said' = "open" /\ entry' = "asked"
  /\ UNCHANGED <<lines, erasable, main>>

(* read_own_checks_passphrase: a script's line answers the question too.   *)
ReadsForOwnChecks ==
  /\ way' = "own checks" /\ coin' = "any" /\ script' \in BOOLEAN /\ said' = "open"
  /\ entry' = IF script' THEN "passphrase" ELSE "asked"
  /\ UNCHANGED <<lines, erasable, main>>

(* source_check_passphrase, with --passphrase-used or without; "open" of a *)
(* script asks for nothing.                                                *)
ReadsForSourceCheck ==
  /\ way' = "source check" /\ coin' = "any" /\ script' \in BOOLEAN
  /\ said' \in {"yes", "no", "open"}
  /\ \E offered \in BOOLEAN :
       entry' = CASE ~offered -> "not asked"
                  [] offered /\ (said' = "no" \/ (script' /\ said' = "open")) -> "ready"
                  [] offered /\ said' = "yes" -> "passphrase"
                  [] OTHER -> "asked"
  /\ UNCHANGED <<lines, erasable, main>>

Begins ==
  /\ entry = "begin" /\ flow' \in BOOLEAN /\ way' \in Ways /\ field' \in Fields(way')
  /\ ReadsGiven \/ ReadsForSearch \/ ReadsForOwnChecks \/ ReadsForSourceCheck
  /\ script' => ~flow'
  /\ UNCHANGED <<passphrase, summary, tries, target>>

-----------------------------------------------------------------------------
(* The passphrase, typed on a private screen or hidden.                    *)

(* ask_passphrase_explained.                                               *)
SaysWhether ==
  /\ entry = "asked" /\ said' \in {"yes", "no"}
  /\ UNCHANGED <<way, field, coin, script, flow, passphrase, summary, tries, target>>
  /\ IF said' = "yes" THEN entry' = "passphrase" /\ UNCHANGED <<lines, erasable, main>>
     ELSE Goes(main)

(* read_passphrase_named: one that there is may not be empty.              *)
AcceptedSlip(text) == TRUE
Accepted(text) == said = "yes" => text # ""

(* read_passphrase_of records whether one was typed, and nothing of it; a  *)
(* check then says that it compares with both wallets.                     *)
Told(text) ==
  (IF said = "open" THEN <<IF text = "" THEN "none" ELSE "typed">> ELSE <<>>)
    \o (IF way = "check" /\ text # "" THEN <<"both wallets">> ELSE <<>>)

TypesPassphrase(text) ==
  /\ entry = "passphrase" /\ Accepted(text) /\ passphrase' = text
  /\ UNCHANGED <<way, field, coin, script, flow, said, tries, target>>
  /\ Goes(OnMain(main, Told(text))) /\ InSummary(Told(text))

RefusesPassphrase(text) ==
  /\ entry = "passphrase" /\ ~Accepted(text) /\ tries < MaxTries /\ tries' = tries + 1
  /\ entry' = IF script THEN "failed" ELSE entry
  /\ UNCHANGED <<way, field, coin, script, flow, said, passphrase, lines, erasable, main,
                 summary, target>>

-----------------------------------------------------------------------------
(* The reference.                                                          *)

(* What a text is read as where `field` is asked for, "none" if refused:   *)
(* parse_fingerprint, Address::parse, and read_address_or_fingerprint.     *)
ReadAsSlip(text) == IF text \in {"fingerprint", "address", "phrase"} THEN text ELSE "none"
ReadAs(text) ==
  CASE field \in {"fingerprint", "either"} /\ text = "fingerprint" -> "fingerprint"
    [] field \in {"address", "either"} /\ text = "address" /\ coin # "another" -> "address"
    [] OTHER -> "none"

(* The rows of the prompt and the answer, and those that the step counts.  *)
Typed(text) ==
  IF script \/ flow THEN main ELSE main \o Drawn("step", TakenRows(Prompt + Width(text)))
Counted(text) == IF script THEN lines ELSE lines + Rows(Prompt + Width(text))

(* Step::finish: the rows above the cursor are erased, where they can be.  *)
Finished(rows) == IF erasable THEN SubSeq(rows, 1, Len(rows) - lines') ELSE rows

(* read_public, and the record of what it read.                            *)
Answers(text) ==
  /\ entry = "field" /\ tries < MaxTries /\ tries' = tries + 1
  /\ ReadAs(text) # "none" /\ target' = ReadAs(text) /\ entry' = "ready"
  /\ UNCHANGED <<way, field, coin, script, flow, said, passphrase, erasable>>
  /\ lines' = Counted(text)
  /\ main' = OnMain(Finished(Typed(text)), <<target'>>) /\ InSummary(<<target'>>)

(* Asked again at a terminal, below a message of a row; an error of a      *)
(* script.                                                                 *)
Refused(text) ==
  /\ entry = "field" /\ tries < MaxTries /\ tries' = tries + 1 /\ ReadAs(text) = "none"
  /\ IF script THEN entry' = "failed" /\ UNCHANGED <<lines, main>>
     ELSE /\ lines' = Counted(text) + 1 /\ UNCHANGED entry
          /\ main' = Typed(text) \o (IF flow THEN <<>> ELSE <<"step">>)
  /\ UNCHANGED <<way, field, coin, script, flow, said, passphrase, erasable, summary, target>>

(* A line too long to read takes rows that cannot be counted.              *)
TooLong ==
  /\ entry = "field" /\ tries < MaxTries /\ tries' = tries + 1 /\ ~script
  /\ erasable' = FALSE /\ main' = IF flow THEN main ELSE main \o Drawn("step", 5)
  /\ UNCHANGED <<entry, way, field, coin, script, flow, said, passphrase, lines, summary, target>>

(* Ctrl+D.                                                                 *)
Cancels ==
  /\ entry \in {"asked", "passphrase", "field"} /\ ~script /\ entry' = "cancelled"
  /\ UNCHANGED <<way, field, coin, script, flow, said, passphrase, lines, erasable, main,
                 summary, tries, target>>

-----------------------------------------------------------------------------
(* The reference that the recovery is compared with: its BIP39 passphrase  *)
(* is a set, empty where there is none to compare with.                    *)

OwnChecks == [kind |-> "own checks", passphrase |-> {passphrase} \ {""}]

(* ReferenceTarget::with.                                                  *)
With ==
  CASE way = "own checks"   -> OwnChecks
    [] way = "source check" -> [kind |-> "wallet check", passphrase |-> {passphrase}]
    [] OTHER                -> [kind |-> target, passphrase |-> {passphrase}]

(* Reference::given_passphrase, identifies_wallet and without_passphrase.  *)
GivenPassphrase(reference)  == reference.passphrase \ {""}
IdentifiesWallet(reference) == reference.kind \in {"address", "fingerprint"}
WithoutPassphrase(reference) ==
  IF IdentifiesWallet(reference) THEN [reference EXCEPT !.passphrase = {""}] ELSE reference

Next ==
  \/ Begins \/ SaysWhether \/ TooLong \/ Cancels
  \/ \E text \in {"", "hers"} : TypesPassphrase(text) \/ RefusesPassphrase(text)
  \/ \E text \in Texts : Answers(text) \/ Refused(text)

Spec == Init /\ [][Next]_vars

-----------------------------------------------------------------------------
(* Properties.                                                             *)

Answered == entry = "ready" /\ field # "none"

(* A step takes from the screen what it drew and nothing above it, so that *)
(* a seed phrase typed into the wrong field goes with it; what is recorded *)
(* was read as what the field asks for, and of a passphrase only that      *)
(* there is one (AUD-015-SEC001).                                          *)
OnlyAnswersAreLeft ==
  /\ SelectSeq(main, LAMBDA row : row = "above") = Above
  /\ (Answered /\ erasable) \/ flow \/ script => "step" \notin Range(main)
  /\ Range(main) \cup Range(summary) \subseteq
       {"above", "step", "none", "typed", "both wallets", "address", "fingerprint"}
  /\ Answered => IdentifiesWallet(With) /\ (field # "either" => target = field)

(* A wallet said to have a passphrase is compared with that passphrase, one*)
(* said to have none without, and the own checks of a phrase never with an *)
(* empty one, which would not be told from a wallet that has none.         *)
ComparedAsSaid ==
  entry = "ready" =>
    /\ said # "open" => (GivenPassphrase(With) # {} <=> said = "yes")
    /\ way = "own checks" => "" \notin With.passphrase
    /\ IdentifiesWallet(With) => GivenPassphrase(WithoutPassphrase(With)) = {}

ReferenceIsTheirs == OnlyAnswersAreLeft /\ ComparedAsSaid
=============================================================================
