------------------------------ MODULE Readings ------------------------------
(***************************************************************************)
(* The readings of a recovered state under the length rules of recovery,   *)
(* and the confirmation of one of them before it is sealed again (the      *)
(* re-encryption guard of src/rehearsal.rs).  A state is told by the       *)
(* container's length and by the short lengths whose built-in check        *)
(* passes; phrases are told by their length.                               *)
(***************************************************************************)
EXTENDS Naturals, FiniteSets

CONSTANTS Shorts,   \* the lengths with a built-in check: 12 to 21 words
          Full      \* the length of the whole state: 24 words

ASSUME LengthsAssumption ==
  Shorts \subseteq Nat \ {0} /\ Full \in Nat \ {0} /\ Full \notin Shorts /\ IsFiniteSet(Shorts)

Lengths  == Shorts \cup {Full}
Detect   == 0                      \* no length is stated
Refusals == {"VERIFIER_MISMATCH", "LENGTH_DIFFERS", "AMBIGUOUS_LENGTH",
             "REFERENCE_REQUIRED", "REFERENCE_MISMATCH"}

(* How a phrase may be confirmed; a reference is an address or the         *)
(* fingerprint, compared with or without the wallet's BIP39 passphrase.    *)
References    == {"reference", "referenceWithPassphrase"}
Confirmations == {"builtInCheck", "owner"} \cup References

Single(set) == \E x \in set : set = {x}

(* A same-length container keeps the length of its original and has no     *)
(* built-in check.                                                         *)
PhraseLengths(container)      == IF container = Full THEN Lengths ELSE {container}
LengthApplies(container, words) == words = Detect \/ words \in PhraseLengths(container)
BuiltInCheckLengths(container)  == IF container = Full THEN Shorts ELSE {}

(* What the cipher reads (mhfe_core): a check that passes goes before the  *)
(* stated length, unless that is 24 words or passes as well.               *)
ReadingsOf(container, passing, stated) ==
  IF container # Full THEN {container}
  ELSE IF stated \in passing THEN {stated}
  ELSE IF stated # Full /\ Single(passing) THEN passing
  ELSE IF stated \in Shorts /\ passing = {} THEN {}
  ELSE passing \cup {Full}

(* stated_words() is given: the reading's length is not the stated one.    *)
Differs(stated, words) == stated \notin {Detect, words}

EveryReadingSlip(container, passing) == ReadingsOf(container, passing, Detect)
(* Every reading, for a reference to be compared with.                     *)
EveryReading(container, passing) ==
  ReadingsOf(container, passing, IF container = Full THEN Full ELSE Detect)

(* Why one of the readings cannot be told from the others without a        *)
(* reference, or "none"; the verified ones are those in passing.           *)
OneReadingRefusal(readings, passing, stated) ==
  IF readings = {} THEN "VERIFIER_MISMATCH"
  ELSE IF Single(readings) THEN "none"
  ELSE IF \E words \in readings : readings \cap passing = {words} /\ Differs(stated, words)
  THEN "LENGTH_DIFFERS"
  ELSE "AMBIGUOUS_LENGTH"

(* Whether the built-in check may confirm a phrase of this length at all.  *)
BuiltInCheckConfirms(container, stated) == stated \in BuiltInCheckLengths(container)

OwnerCanConfirm(container, passing, stated) ==
  /\ LengthApplies(container, stated)
  /\ OneReadingRefusal(ReadingsOf(container, passing, stated), passing, stated) = "none"

OwnerLengths(container, passing) ==
  {words \in PhraseLengths(container) : OwnerCanConfirm(container, passing, words)}

(* Why a single reading is not confirmed by the built-in check alone.      *)
CheckRefusalSlip(passing, stated, words) ==
  IF Differs(stated, words) THEN "LENGTH_DIFFERS"
  ELSE IF words \notin passing THEN "VERIFIER_MISMATCH"
  ELSE "none"
CheckRefusal(passing, stated, words) ==
  IF Differs(stated, words) THEN "LENGTH_DIFFERS"
  ELSE IF words \notin passing THEN "VERIFIER_MISMATCH"
  ELSE IF passing # {words} THEN "AMBIGUOUS_LENGTH"
  ELSE "none"

(* RecoveredForRekey::confirm of `kind`, where a reference matches the     *)
(* phrase of `wallet` words (0 for none): the refusal or "none", and the   *)
(* words of the phrase confirmed or shown to the owner.                    *)
Refused(refusal) == [refusal |-> refusal, words |-> 0]
Accepted(words)  == [refusal |-> "none", words |-> words]

Confirm(kind, wallet, container, passing, stated) ==
  LET readings == ReadingsOf(container, passing, stated)
      reading  == CHOOSE words \in readings : TRUE
      unclear  == OneReadingRefusal(readings, passing, stated)
      failing  == CheckRefusal(passing, stated, reading) IN
  IF kind = "builtInCheck" /\ ~BuiltInCheckConfirms(container, stated)
  THEN Refused("REFERENCE_REQUIRED")
  ELSE IF readings = {} THEN Refused("VERIFIER_MISMATCH")
  ELSE IF kind \in References
  THEN IF wallet \in EveryReading(container, passing) THEN Accepted(wallet)
       ELSE Refused("REFERENCE_MISMATCH")
  ELSE IF unclear # "none" THEN Refused(unclear)
  ELSE IF kind = "builtInCheck" /\ failing # "none" THEN Refused(failing)
  ELSE Accepted(reading)
=============================================================================
