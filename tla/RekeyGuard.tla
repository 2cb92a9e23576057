----------------------------- MODULE RekeyGuard -----------------------------
(***************************************************************************)
(* What the re-encryption guard promises: a phrase leaves a rekey sealed   *)
(* only after exactly that phrase was confirmed, a phrase shown to the     *)
(* owner is not confirmed before the owner's yes, nothing is confirmed or  *)
(* sealed twice, and what ends stays ended.  Rekey.tla implements it.      *)
(***************************************************************************)
CONSTANT Phrases

VARIABLES phase,   \* "unconfirmed", "shown", "confirmed", "sealed" or "ended"
          phrase   \* the phrase shown, confirmed or sealed; 0 for none

guardVars == <<phase, phrase>>

Init == phase = "unconfirmed" /\ phrase = 0

Show ==
  /\ phase = "unconfirmed"
  /\ phase' = "shown" /\ phrase' \in Phrases

ConfirmAlone ==
  /\ phase = "unconfirmed"
  /\ phase' = "confirmed" /\ phrase' \in Phrases

OwnerSaysYes ==
  /\ phase = "shown"
  /\ phase' = "confirmed" /\ UNCHANGED phrase

Seal ==
  /\ phase = "confirmed"
  /\ phase' = "sealed" /\ UNCHANGED phrase

End ==
  /\ phase \in {"unconfirmed", "shown", "confirmed"}
  /\ phase' = "ended" /\ phrase' = 0

Next == Show \/ ConfirmAlone \/ OwnerSaysYes \/ Seal \/ End

Spec == Init /\ [][Next]_guardVars
=============================================================================
