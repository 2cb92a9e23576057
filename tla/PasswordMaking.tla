--------------------------- MODULE PasswordMaking ---------------------------
(***************************************************************************)
(* A new password (src/new_password.rs, src/eff.rs): words or characters   *)
(* drawn at random, or words rolled with real dice.  mhfe password         *)
(* (diceware.rs) makes one or, from the start menu, one after another, and *)
(* a page (wasm_api/passwords.rs) makes one for each call.                 *)
(*                                                                         *)
(* A word is rolled with two dice here, for five.                          *)
(***************************************************************************)
EXTENDS Integers, Sequences, SequencesExt, FiniteSets

CONSTANTS
  Faces,                          \* of a die, 6
  WordBits, GlyphBits,            \* what a word and a character count, in whole bits
  Glyphs,                         \* the characters drawn from, 57
  MostWords, MostGlyphs,          \* in a password: 32 and 64
  FewWords, FewGlyphs,            \* fewer are weak: 4 and 12
  CheckedWords,                   \* that a check word follows: 5
  MostRefused                        \* groups of digits that are refused, a bound

VARIABLES
  make,      \* "begin", "rolling", "ready", "drawing", "made", "shown", or its end
  maker,     \* "tool", "menu" (mhfe password --repeat) or "page"
  recipe,    \* the kind and size asked for
  dice,      \* whether the words come from real dice
  rolled,    \* the groups of dice digits typed, refused ones included
  drawn,     \* the words or characters of the password
  randoms,   \* what the source of randomness gives, "unused" until it is asked
  place,     \* where the password is printed
  strength,  \* what is said of its strength
  strays,    \* whether a key waits that was pressed before the password was shown
  screens    \* the passwords that stand on the private and on the main screen

vars == <<make, maker, recipe, dice, rolled, drawn, randoms, place, strength, strays, screens>>

ListSize == Faces * Faces

Recipes == [kind : {"words"}, count : 0 .. MostWords + 1]
             \cup [kind : {"characters"}, count : 0 .. MostGlyphs + 1]
             \cup [kind : {"check word"}, count : {CheckedWords}]

(* PasswordRecipe::words, characters and check_word.                       *)
Offered(r) == r.kind = "check word"
              \/ r.count \in 1 .. (IF r.kind = "words" THEN MostWords ELSE MostGlyphs)

Few(r)    == IF r.kind = "characters" THEN FewGlyphs ELSE FewWords
IsWeak(r) == r.kind # "check word" /\ r.count < Few(r)

(* millibits, in whole bits: the check word adds none.                     *)
BitsSlip(r) ==
  IF r.kind = "characters" THEN GlyphBits * r.count
  ELSE WordBits * (r.count + (IF r.kind = "check word" THEN 1 ELSE 0))
Bits(r) == (IF r.kind = "characters" THEN GlyphBits ELSE WordBits) * r.count

Sizes(r) == IF r.kind = "characters" THEN Glyphs ELSE ListSize

Nothing == [bits |-> 0, weak |-> FALSE]

(* check_word of the core.                                                 *)
CheckWord(words) == FoldLeft(LAMBDA sum, word : (2 * sum + word) % ListSize, 0, words)

(* make_from_indexes and characters_from: the text.                        *)
TextOf(r, words) ==
  IF r.kind = "check word" THEN Append(words, CheckWord(words)) ELSE words

-----------------------------------------------------------------------------
(* Real dice.                                                              *)

Groups == {<<a, b>> : a \in 1 .. Faces, b \in 1 .. Faces}
            \cup {<<>>, <<1>>, <<1, Faces + 1>>, <<1, 1, 1>>}

Digits(group) == Len(group) = 2 /\ \A i \in 1 .. 2 : group[i] \in 1 .. Faces

(* index_of_rolls.                                                         *)
IndexOfRollsSlip(group) == group[1] * Faces + group[2] - 2
IndexOfRolls(group)     == (group[1] - 1) * Faces + group[2] - 1

RolledIndexes(groups) == [i \in DOMAIN groups |-> IndexOfRolls(groups[i])]

(* make_from_rolls: as many groups as words, each of the dice's digits.    *)
TakesRolls(r, groups) ==
  /\ r.kind # "characters" /\ Len(groups) = r.count
  /\ \A i \in DOMAIN groups : Digits(groups[i])

-----------------------------------------------------------------------------

Init ==
  /\ make = "begin" /\ maker = "tool" /\ recipe = [kind |-> "words", count |-> 0]
  /\ dice = FALSE /\ rolled = <<>> /\ drawn = <<>> /\ randoms = "unused"
  /\ place = "none" /\ strength = Nothing /\ strays = FALSE
  /\ screens = [private |-> {}, main |-> {}]

(* run and make_one: the steps of a command go to the alternate screen     *)
(* where it can be private, and so does the screen that the menu's entry   *)
(* keeps for every password; a script reads the output.                    *)
Begins ==
  /\ make = "begin" /\ maker' \in {"tool", "menu"} /\ recipe' \in Recipes /\ dice' \in BOOLEAN
  /\ dice' => recipe'.kind # "characters"
  /\ maker' = "menu" => recipe'.kind = "check word" \/ recipe'.count = MostWords
  /\ place' \in {"steps", "main", "script"}
  /\ make' = IF ~Offered(recipe') THEN "refused" ELSE IF dice' THEN "rolling" ELSE "ready"
  /\ UNCHANGED <<rolled, drawn, randoms, strength, strays, screens>>

(* A page names the kind, a count or none, and the rolls: none for a       *)
(* random password. A check word takes no count.                           *)
PageBegins ==
  /\ make = "begin" /\ maker' = "page" /\ place' = "page" /\ recipe' \in Recipes
  /\ \E groups \in UNION {[1 .. n -> Groups \ {<<>>}] : n \in 0 .. MostWords}, counted \in BOOLEAN :
       LET refused == ~Offered(recipe') \/ (recipe'.kind = "check word" /\ counted)
       IN /\ dice' = (groups # <<>>) /\ rolled' = groups
          /\ make' = IF refused \/ (dice' /\ ~TakesRolls(recipe', groups)) THEN "refused"
                     ELSE IF dice' THEN "made" ELSE "ready"
          /\ drawn' = IF make' = "made" THEN RolledIndexes(groups) ELSE <<>>
  /\ UNCHANGED <<randoms, strength, strays, screens>>

(* read_dice, index_from_dice: a group that does not fit is asked again.   *)
Rolls ==
  /\ make = "rolling" /\ Len(rolled) < recipe.count + MostRefused
  /\ \E group \in Groups :
       /\ rolled' = Append(rolled, group)
       /\ drawn' = IF Digits(group) THEN Append(drawn, IndexOfRolls(group)) ELSE drawn
  /\ make' = IF Len(drawn') = recipe.count THEN "made" ELSE make
  /\ UNCHANGED <<maker, recipe, dice, randoms, place, strength, strays, screens>>

(* make: the source is probed before anything is drawn from it.            *)
Probes ==
  /\ make = "ready" /\ randoms' \in {"random", "stuck", "failing"}
  /\ make' = IF randoms' = "random" THEN "drawing" ELSE "no randomness"
  /\ UNCHANGED <<maker, recipe, dice, rolled, drawn, place, strength, strays, screens>>

Draws ==
  /\ make = "drawing"
  /\ \E index \in 0 .. Sizes(recipe) - 1 : drawn' = Append(drawn, index)
  /\ make' = IF Len(drawn') = recipe.count THEN "made" ELSE make
  /\ UNCHANGED <<maker, recipe, dice, rolled, randoms, place, strength, strays, screens>>

Fails ==
  /\ make = "drawing" /\ make' = "no randomness"
  /\ UNCHANGED <<maker, recipe, dice, rolled, drawn, randoms, place, strength, strays, screens>>

(* A key pressed during the work waits in the terminal.                    *)
Presses ==
  /\ make \in {"ready", "drawing", "made"} /\ maker # "page" /\ ~strays /\ strays' = TRUE
  /\ UNCHANGED <<make, maker, recipe, dice, rolled, drawn, randoms, place, strength, screens>>

(* show, and the result of a page's call.                                  *)
Shows ==
  /\ make = "made" /\ make' = IF maker = "page" THEN "done" ELSE "shown"
  /\ strength' = [bits |-> Bits(recipe), weak |-> IsWeak(recipe)]
  /\ screens' = CASE place = "steps" -> [screens EXCEPT !.private = {TextOf(recipe, drawn)}]
                  [] place = "main"  -> [screens EXCEPT !.main = @ \cup {TextOf(recipe, drawn)}]
                  [] OTHER           -> screens
  /\ UNCHANGED <<maker, recipe, dice, rolled, drawn, randoms, place, strays>>

Cleared == [screens EXCEPT !.private = {}]

(* wait_to_leave: in the steps of mhfe password the keys pressed before    *)
(* are discarded, and Enter or Escape clears the screen. Elsewhere nothing *)
(* waits.                                                                  *)
WaitsSlip == make = "shown" /\ maker = "tool" /\ place = "steps" /\ ~strays
Waits     == make = "shown" /\ maker = "tool" /\ place = "steps"

Discards ==
  /\ Waits /\ strays /\ strays' = FALSE
  /\ UNCHANGED <<make, maker, recipe, dice, rolled, drawn, randoms, place, strength, screens>>

Leaves ==
  /\ Waits => ~strays
  /\ make = "shown" /\ maker = "tool" /\ make' = "done" /\ screens' = Cleared
  /\ UNCHANGED <<maker, recipe, dice, rolled, drawn, randoms, place, strength, strays>>

(* wait_for_enter of the menu's entry, which takes a key pressed before:   *)
(* Enter replaces the password by another one, Escape ends. On the main    *)
(* screen one stays (bound: no second one there).                          *)
Another ==
  /\ make = "shown" /\ maker = "menu" /\ strays' = FALSE
  /\ make' = (IF dice THEN "rolling" ELSE "ready") /\ rolled' = <<>>
  /\ drawn' = <<>> /\ randoms' = "unused" /\ strength' = Nothing /\ screens' = Cleared
  /\ screens.main = {}
  /\ UNCHANGED <<maker, recipe, dice, place>>

Returns ==
  /\ make = "shown" /\ maker = "menu" /\ make' = "done" /\ strays' = FALSE
  /\ screens' = Cleared
  /\ UNCHANGED <<maker, recipe, dice, rolled, drawn, randoms, place, strength>>

Next ==
  \/ Begins \/ PageBegins \/ Rolls \/ Probes \/ Draws \/ Fails \/ Presses \/ Shows
  \/ Discards \/ Leaves \/ Another \/ Returns

Spec == Init /\ [][Next]_vars

-----------------------------------------------------------------------------
(* Properties.                                                             *)

Told == strength # Nothing

(* Each word of a password of dice is that of one group of digits in the   *)
(* order they were rolled, and no other group gives it: a group typed      *)
(* wrong leaves no word and shifts none, and the computer's randomness has *)
(* no part in it.                                                          *)
RollsMakeIt ==
  (Told /\ dice) =>
    /\ randoms = "unused" /\ Len(drawn) = recipe.count
    /\ \E at \in [DOMAIN drawn -> DOMAIN rolled] :
         /\ \A i, k \in DOMAIN drawn : i < k => at[i] < at[k]
         /\ {at[i] : i \in DOMAIN drawn} = {i \in DOMAIN rolled : Digits(rolled[i])}
         /\ \A i \in DOMAIN drawn :
              /\ drawn[i] \in 0 .. ListSize - 1
              /\ {g \in Groups : Digits(g) /\ IndexOfRolls(g) = drawn[i]} = {rolled[at[i]]}

(* What is told of a password's strength does not exceed the number of     *)
(* passwords that could as well have come out, and a password with fewer   *)
(* words or characters than recommended is told to be weak.                *)
StrengthIsTrue ==
  Told =>
    /\ 2 ^ strength.bits <= Cardinality({TextOf(recipe, words) :
                                        words \in [1 .. recipe.count -> 0 .. Sizes(recipe) - 1]})
    /\ strength.weak <=> strength.bits < Bits([recipe EXCEPT !.count = Few(recipe)])

(* In steps a password is on the private screen only while it is shown,    *)
(* never on the main one, never beside the one before, and no key pressed  *)
(* before it was shown clears it.                                          *)
LeavesNoTrace ==
  place = "steps" =>
    /\ screens.main = {}
    /\ screens.private = IF make = "shown" THEN {TextOf(recipe, drawn)} ELSE {}
    /\ (make = "done" /\ maker = "tool") => ~strays

MadeAsTold == RollsMakeIt /\ StrengthIsTrue /\ LeavesNoTrace
=============================================================================
