----------------------------- MODULE RekeyDialog -----------------------------
(***************************************************************************)
(* mhfe rekey (src/bin/mhfe/rekey.rs): a person at a terminal has the      *)
(* phrase of a container recovered once, confirms it, if need be more than *)
(* once, and has it encrypted again under a new password or new settings.  *)
(***************************************************************************)
EXTENDS Readings

VARIABLES
  rekey,       \* the question that is asked or the work that runs
  old,         \* the old container and its state, the owner's wallet, and the terminal
  stated,      \* the length stated, or Detect
  kind, right, \* the confirmation chosen; whether its reference is the owner's wallet's
  rounds,      \* recoveries run
  offered,     \* the lengths the owner may state after a refusal
  recovered,   \* the length of the phrase confirmed or shown, 0 before
  owner,       \* whether the owner is to confirm it, and "yes" once they did
  reference,   \* what the rehearsal of the new container compares: "fingerprint" or "none"
  new,         \* the new settings and password: "old" where they are the same
  sealed, exit

vars == <<rekey, old, stated, kind, right, rounds, offered, recovered, owner, reference,
          new, sealed, exit>>

asked   == <<stated, kind, right>>
outcome == <<recovered, owner, reference, new, sealed>>

Init ==
  /\ rekey = "begin" /\ old = [container |-> 0] /\ stated = Detect /\ kind = "none"
  /\ right = FALSE /\ rounds = 0 /\ offered = {} /\ recovered = 0
  /\ owner = "no" /\ reference = "none" /\ sealed = 0 /\ exit = "none"
  /\ new = [work |-> "none", password |-> "none"]

Fails(why) ==
  /\ exit' = why
  /\ UNCHANGED <<rekey, old, asked, rounds, offered, outcome>>

-----------------------------------------------------------------------------
(* What is asked before the recovery.                                      *)

(* The container is typed and its length given or asked; a wrong password  *)
(* opens no wallet of the owner's.                                         *)
Begins ==
  /\ rekey = "begin" /\ rekey' = "kind"
  /\ \E container \in Lengths :
     \E passing \in IF container = Full THEN SUBSET Shorts ELSE {{}} :
       old' \in [container : {container}, passing : {passing},
                 wallet : {0, container} \cup passing, passphrase : BOOLEAN, private : BOOLEAN]
  /\ stated' \in {Detect} \cup PhraseLengths(old'.container)
  /\ UNCHANGED <<kind, right, rounds, offered, outcome, exit>>

BuiltInCheckNeeded == BuiltInCheckConfirms(old.container, stated)

(* ask_how_to_confirm: the phrase is shown only on a private screen.       *)
HowToConfirm(withOwner) ==
  {"reference"} \cup (IF withOwner /\ old.private THEN {"owner"} ELSE {})

(* --confirm, which is refused at the start where it shows the phrase with *)
(* no private screen; or the built-in check where it confirms the length;  *)
(* or the question.                                                        *)
Kinds ==
  {"reference", "builtInCheck"} \cup (IF old.private THEN {"owner"} ELSE {})
    \cup (IF BuiltInCheckNeeded THEN {} ELSE HowToConfirm(TRUE))

(* how_of: a reference is compared with the wallet's passphrase where it   *)
(* was said to have one, and typed rightly or not.                         *)
HowOf(chosen) ==
  /\ kind' = IF chosen = "reference" /\ old.passphrase
             THEN "referenceWithPassphrase" ELSE chosen
  /\ right' \in IF chosen = "reference" THEN BOOLEAN ELSE {FALSE}

AsksHow ==
  /\ rekey = "kind" /\ rekey' = "recover"
  /\ \E chosen \in Kinds : HowOf(chosen)
  /\ UNCHANGED <<old, stated, rounds, offered, outcome, exit>>

-----------------------------------------------------------------------------
(* recover: what cannot confirm the length is refused before the rounds.   *)
Recover ==
  /\ rekey = "recover"
  /\ IF kind = "builtInCheck" /\ ~BuiltInCheckNeeded THEN Fails("failure")
     ELSE /\ rekey' = "confirm" /\ rounds' = rounds + 1
          /\ UNCHANGED <<old, asked, offered, outcome, exit>>

Confirmation ==
  Confirm(kind, IF right THEN old.wallet ELSE 0, old.container, old.passing, stated)

(* owner_lengths_after.                                                    *)
LengthsAfterSlip(refusal) == PhraseLengths(old.container)
LengthsAfter(refusal) ==
  IF refusal = "AMBIGUOUS_LENGTH" THEN OwnerLengths(old.container, old.passing)
  ELSE IF OwnerCanConfirm(old.container, old.passing, stated) THEN {stated} ELSE {}

(* confirm: a refusal that lets another confirmation follow is asked again.*)
Confirms ==
  /\ rekey = "confirm"
  /\ \/ /\ Confirmation.refusal = "none" /\ recovered' = Confirmation.words
        /\ owner' = IF kind = "owner" THEN "awaited" ELSE "no"
        /\ rekey' = IF kind = "owner" THEN "owner" ELSE "new settings"
        /\ UNCHANGED <<old, asked, rounds, offered, reference, new, sealed, exit>>
     \/ /\ Confirmation.refusal \in {"AMBIGUOUS_LENGTH", "LENGTH_DIFFERS"}
        /\ rekey' = "again" /\ offered' = LengthsAfter(Confirmation.refusal)
        /\ UNCHANGED <<old, asked, rounds, outcome, exit>>
     \/ Confirmation.refusal \notin {"none", "AMBIGUOUS_LENGTH", "LENGTH_DIFFERS"}
        /\ Fails("failure")

ConfirmsAgain ==
  /\ rekey = "again" /\ rekey' = "confirm"
  /\ \E chosen \in HowToConfirm(offered # {}) :
       /\ HowOf(chosen) /\ stated' \in IF chosen = "owner" THEN offered ELSE {stated}
  /\ UNCHANGED <<old, rounds, offered, outcome, exit>>

(* owner_confirms: the owner says yes to the phrase of their backup only.  *)
OwnerConfirms ==
  /\ rekey = "owner"
  /\ \/ ~old.private /\ Fails("internal")
     \/ old.private /\ recovered # old.wallet /\ Fails("not confirmed")
     \/ /\ old.private /\ recovered = old.wallet /\ owner' = "yes" /\ rekey' = "fingerprint"
        /\ UNCHANGED <<old, asked, rounds, offered, recovered, reference, new, sealed, exit>>

Verified == recovered \in old.passing

(* Only where nothing but the owner confirmed the phrase.                  *)
ReadsFingerprintSlip ==
  /\ rekey = "fingerprint" /\ rekey' = "new settings"
  /\ reference' = IF old.container = Full THEN "none" ELSE "fingerprint"
  /\ UNCHANGED <<old, asked, rounds, offered, recovered, owner, new, sealed, exit>>
ReadsFingerprint ==
  /\ rekey = "fingerprint" /\ rekey' = "new settings"
  /\ reference' = IF Verified THEN "none" ELSE "fingerprint"
  /\ UNCHANGED <<old, asked, rounds, offered, recovered, owner, new, sealed, exit>>

-----------------------------------------------------------------------------
(* The new container.                                                      *)

ChoosesSettings ==
  /\ rekey = "new settings" /\ rekey' = "new password"
  /\ new' \in [work : {"old", "other"}, password : {"none"}]
  /\ UNCHANGED <<old, asked, rounds, offered, recovered, owner, reference, sealed, exit>>

(* read_different_password: the same password at the same settings is      *)
(* asked again.                                                            *)
CheckNew(password) == new.work # "old" \/ password # "old"

ReadsDifferentPassword ==
  /\ rekey = "new password" /\ rekey' = "seal"
  /\ \E password \in {"old", "other"} :
       CheckNew(password) /\ new' = [new EXCEPT !.password = password]
  /\ UNCHANGED <<old, asked, rounds, offered, recovered, owner, reference, sealed, exit>>

(* Rekey::seal.                                                            *)
Seals ==
  /\ rekey = "seal"
  /\ \/ owner = "awaited" /\ Fails("internal")
     \/ /\ owner # "awaited" /\ sealed' = recovered /\ exit' = "success"
        /\ UNCHANGED <<rekey, old, asked, rounds, offered, recovered, owner, reference, new>>

(* A question is cancelled; the memory, the rounds or the check of the new *)
(* container fail.                                                         *)
Stops == rekey # "begin" /\ Fails("cancelled")

Next ==
  /\ exit = "none"
  /\ \/ Begins \/ AsksHow \/ Recover \/ Confirms \/ ConfirmsAgain
     \/ OwnerConfirms \/ ReadsFingerprint \/ ChoosesSettings \/ ReadsDifferentPassword
     \/ Seals \/ Stops

Spec == Init /\ [][Next]_vars

-----------------------------------------------------------------------------
(* Properties.                                                             *)

(* A person waits for one recovery only, and once it ran only they, the    *)
(* system or a wallet that does not match end the rekey: what is offered   *)
(* after a refusal can be given, and shown where it needs to be.           *)
RecoveryIsNotWasted ==
  /\ rounds <= 1 /\ exit # "internal"
  /\ rekey = "confirm" /\ kind = "owner" /\ offered # {} => Confirmation.refusal = "none"
  /\ exit = "failure" /\ rounds = 1 =>
       Confirmation.refusal \in {"REFERENCE_MISMATCH", "VERIFIER_MISMATCH"}

(* A new container holds the phrase of the owner's wallet, with the one    *)
(* exception of SealsTheWallet in Rekey, is not the old one, and can be    *)
(* rehearsed: by its built-in check, by the wallet's reference that the    *)
(* owner typed, or by the fingerprint told.                                *)
NewContainerIsTheWallet ==
  sealed # 0 =>
    /\ sealed = old.wallet
         \/ (kind = "builtInCheck" /\ sealed = stated /\ old.passing = {stated})
    /\ <<new.work, new.password>> # <<"old", "old">>
    /\ Verified \/ kind \in References \/ (owner = "yes" /\ reference = "fingerprint")

(* The dialog ends with the wallet in the new container, or for a reason.  *)
DialogRekeysTheWallet == RecoveryIsNotWasted /\ NewContainerIsTheWallet
=============================================================================
