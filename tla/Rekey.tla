------------------------------- MODULE Rekey --------------------------------
(***************************************************************************)
(* A rekey: RekeySession of src/wasm_api/core.rs over Rekey of             *)
(* src/rekey.rs.  The page calls in any order, every call may fail, and a  *)
(* confirmation may be refused and given again on the same recovery.       *)
(***************************************************************************)
EXTENDS Readings

VARIABLES
  container, passing,  \* the old container's length; the short lengths that pass their check
  wallet,              \* the length of the owner's phrase; 0 where the old password is wrong
  stated,              \* Rekey.length: the length stated, or Detect
  step, recovered, ownerLengths,  \* RekeySession: where it stands, the kept state, the offer
  hasPassphrase,       \* wallet_has_passphrase: "unsaid" before it is judged
  confirmed,           \* the length of the phrase confirmed or shown; 0 for none
  sealed,              \* the length of the phrase sealed again; 0 for none
  by                   \* history: the kind of the confirmation accepted; "none" before

session == <<step, recovered, ownerLengths, hasPassphrase, confirmed, sealed, by>>
vars    == <<container, passing, wallet, stated, session>>

Steps   == {"Made", "Ready", "Refused", "AwaitingOwner", "Confirmed", "Ended"}
Answers == {"yes", "no", "unsaid"}

TypeOK ==
  /\ container \in Lengths /\ passing \subseteq Shorts
  /\ wallet \in Lengths \cup {0} /\ stated \in Lengths \cup {Detect}
  /\ step \in Steps /\ recovered \in BOOLEAN /\ ownerLengths \subseteq Lengths
  /\ hasPassphrase \in Answers
  /\ confirmed \in Lengths \cup {0} /\ sealed \in Lengths \cup {0}
  /\ by \in Confirmations \cup {"none"}

(* RekeySession::new.  With the right password the owner's phrase is one   *)
(* of the state's readings, a short one among those that pass.             *)
Init ==
  /\ container \in Lengths
  /\ passing \in IF container = Full THEN SUBSET Shorts ELSE {{}}
  /\ wallet \in {0, container} \cup passing
  /\ stated \in {Detect} \cup PhraseLengths(container)
  /\ step = "Made" /\ recovered = FALSE /\ ownerLengths = {} /\ hasPassphrase = "unsaid"
  /\ confirmed = 0 /\ sealed = 0 /\ by = "none"

EndSlip ==
  /\ step' = "Ended" /\ recovered' = FALSE
  /\ UNCHANGED <<container, passing, wallet, stated, ownerLengths, hasPassphrase, confirmed,
                 sealed, by>>
(* end(): the state and the phrase are dropped.                            *)
End ==
  /\ step' = "Ended" /\ recovered' = FALSE /\ confirmed' = 0
  /\ UNCHANGED <<container, passing, wallet, stated, ownerLengths, hasPassphrase, sealed, by>>

(* expect() and or_end(): a call out of its order, and one that fails,     *)
(* ends the rekey.                                                         *)
OutOfOrder(expected) == step # expected /\ End
Fails(expected)      == step = expected /\ End

SetNew ==
  \/ OutOfOrder("Made") \/ Fails("Made")
  \/ /\ step = "Made" /\ step' = "Ready"
     /\ UNCHANGED <<container, passing, wallet, stated, recovered, ownerLengths, hasPassphrase,
                    confirmed, sealed, by>>

(* wallet_passphrase(): whether the wallet has a BIP39 passphrase, from    *)
(* the confirmation and what is said of it, or "refused".                  *)
PassphraseAnswer(kind, said) ==
  IF kind = "referenceWithPassphrase"
  THEN IF said = "no" THEN "refused" ELSE "yes"
  ELSE IF said = "unsaid" \/ (kind = "reference" /\ said = "yes") THEN "refused" ELSE said

(* owner_lengths_after(): where another confirmation may follow a refusal. *)
Again(refusal) == refusal \in {"AMBIGUOUS_LENGTH", "LENGTH_DIFFERS"}
LengthsAfter(refusal, length) ==
  IF refusal = "AMBIGUOUS_LENGTH" THEN OwnerLengths(container, passing)
  ELSE IF OwnerCanConfirm(container, passing, length) THEN {length} ELSE {}

(* confirm_recovered(): the confirmation on the recovered state, with the  *)
(* answer about the passphrase that was judged before the rounds.          *)
ConfirmRecovered(kind, rightReference, length, answer) ==
  LET outcome == Confirm(kind, IF rightReference THEN wallet ELSE 0, container, passing, length)
  IN
  /\ stated' = length /\ hasPassphrase' = answer
  /\ \/ /\ PassphraseAnswer(kind, answer) # "refused" /\ outcome.refusal = "none"
        /\ recovered' = FALSE /\ confirmed' = outcome.words /\ by' = kind
        /\ step' = IF kind = "owner" THEN "AwaitingOwner" ELSE "Confirmed"
        /\ UNCHANGED ownerLengths
     \/ /\ PassphraseAnswer(kind, answer) # "refused" /\ Again(outcome.refusal)
        /\ recovered' = TRUE /\ step' = "Refused"
        /\ ownerLengths' = LengthsAfter(outcome.refusal, length)
        /\ UNCHANGED <<confirmed, by>>
     \/ /\ PassphraseAnswer(kind, answer) = "refused"
           \/ (outcome.refusal # "none" /\ ~Again(outcome.refusal))
        /\ step' = "Ended" /\ recovered' = FALSE /\ confirmed' = 0
        /\ UNCHANGED <<ownerLengths, by>>
  /\ UNCHANGED <<container, passing, wallet, sealed>>

(* recover(): the confirmation and the answer are judged before the rounds *)
(* (check_confirmation), and the rounds may fail.                          *)
Recover(kind, rightReference, said) ==
  \/ OutOfOrder("Ready") \/ Fails("Ready")
  \/ /\ step = "Ready"
     /\ kind = "builtInCheck" => BuiltInCheckConfirms(container, stated)
     /\ PassphraseAnswer(kind, said) # "refused"
     /\ ConfirmRecovered(kind, rightReference, stated, PassphraseAnswer(kind, said))

(* confirm_again(): the owner states one of the lengths left to the owner. *)
ConfirmAgain(kind, rightReference, words) ==
  \/ OutOfOrder("Refused") \/ Fails("Refused")
  \/ /\ step = "Refused"
     /\ IF kind = "owner" THEN words \in ownerLengths ELSE words = 0
     /\ ConfirmRecovered(kind, rightReference, IF words = 0 THEN stated ELSE words, hasPassphrase)

(* owner_answer(): the owner says yes only to the phrase of their backup.  *)
OwnerAnswer ==
  \/ OutOfOrder("AwaitingOwner") \/ Fails("AwaitingOwner")
  \/ /\ step = "AwaitingOwner" /\ confirmed = wallet
     /\ step' = "Confirmed"
     /\ UNCHANGED <<container, passing, wallet, stated, recovered, ownerLengths, hasPassphrase,
                    confirmed, sealed, by>>

SealGuardSlip == confirmed # 0
SealGuard == step = "Confirmed"

(* seal(): the phrase is taken from the session, and sealed unless the     *)
(* encryption or its check fails.                                          *)
Seal ==
  \/ OutOfOrder("Confirmed")
  \/ /\ SealGuard
     /\ step' = "Ended" /\ confirmed' = 0
     /\ sealed' \in {sealed, confirmed}
     /\ UNCHANGED <<container, passing, wallet, stated, recovered, ownerLengths, hasPassphrase,
                    by>>

Next ==
  \/ SetNew \/ OwnerAnswer \/ Seal
  \/ \E kind \in Confirmations, right \in BOOLEAN :
       \/ \E said \in Answers : Recover(kind, right, said)
       \/ \E words \in Lengths \cup {0} : ConfirmAgain(kind, right, words)

Spec == Init /\ [][Next]_vars

-----------------------------------------------------------------------------
(* Properties.                                                             *)

(* A rekey seals the owner's phrase or none.  The one exception is a short *)
(* length that the owner states wrongly, whose check alone passes by       *)
(* chance, confirmed by that check.                                        *)
SealsTheWallet ==
  sealed # 0 => \/ sealed = wallet
                \/ by = "builtInCheck" /\ sealed = stated /\ passing = {stated}

(* A confirmation offered again can be given: the recovery is kept, and at *)
(* every length offered to the owner exactly one phrase is shown.          *)
OffersHold ==
  /\ recovered <=> step = "Refused"
  /\ step = "Refused" =>
       \A words \in ownerLengths : Confirm("owner", 0, container, passing, words).refusal = "none"

(* A refusal that allows another confirmation never shuts the owner's      *)
(* wallet out: its address or fingerprint still confirms it.               *)
ReferenceStillConfirms ==
  step = "Refused" /\ wallet # 0 =>
    Confirm("reference", wallet, container, passing, stated) = Accepted(wallet)

(* A refusal that allows another confirmation leaves one that works: every *)
(* length offered to the owner, and the wallet's own reference.            *)
RefusalsLeaveAWay == OffersHold /\ ReferenceStillConfirms

(* No phrase stays in a rekey that ended or waits to be confirmed.         *)
PhraseIsDropped == (confirmed # 0) <=> step \in {"AwaitingOwner", "Confirmed"}

(* A reference without a passphrase never confirms a wallet said to have   *)
(* one, nor one with a passphrase a wallet said to have none, also not     *)
(* after a refusal, when the answer is not asked again.                    *)
ReferenceMatchesAnswer ==
  /\ by = "reference" => hasPassphrase = "no"
  /\ by = "referenceWithPassphrase" => hasPassphrase = "yes"

(* The guard's promise, as RekeyGuard states it.                           *)
Guard == INSTANCE RekeyGuard
  WITH Phrases <- Lengths,
       phrase  <- IF sealed # 0 THEN sealed ELSE confirmed,
       phase   <- IF sealed # 0 THEN "sealed"
                  ELSE IF step = "AwaitingOwner" THEN "shown"
                  ELSE IF step = "Confirmed" THEN "confirmed"
                  ELSE IF step = "Ended" THEN "ended" ELSE "unconfirmed"

KeepsGuard == Guard!Spec

(* What the guard is for: the wallet alone is sealed, a refusal leaves a   *)
(* way on, and no phrase stays behind.                                     *)
RekeyIsSafe == SealsTheWallet /\ RefusalsLeaveAWay /\ PhraseIsDropped
=============================================================================
