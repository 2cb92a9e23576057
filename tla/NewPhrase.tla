------------------------------ MODULE NewPhrase ------------------------------
(***************************************************************************)
(* A new 24-word phrase (src/wallet_check.rs, src/word_wishes.rs and       *)
(* src/random.rs): the source of randomness is probed, a phrase is drawn   *)
(* until it meets the wishes and, where asked, passes the wallet check.    *)
(* mhfe new (new_wallet.rs) and a page (wasm_api/wallet.rs) draw one.      *)
(*                                                                         *)
(* A phrase has 3 words instead of 24; the last has the checksum.          *)
(***************************************************************************)
EXTENDS Integers, Sequences, FiniteSets

CONSTANTS
  ByteValues,  \* of a byte, 256
  LastValues,  \* of the entropy in the last word, 8
  Checksums    \* 256

VARIABLES
  draw,        \* "begin", "ready", "drawing", "drawn", "written", "sealed" or how it ended
  asker,       \* "tool" or "page"
  passphrase,  \* of the new wallet, "none" for an empty one
  checked,     \* whether the phrase is drawn with the wallet check
  wish,        \* the words chosen and never to use
  source,      \* what the source of randomness gives
  draws,       \* the draws so far
  heard,       \* the draws that the caller was told of
  phrase       \* the words of the phrase drawn

vars == <<draw, asker, passphrase, checked, wish, source, draws, heard, phrase>>

-----------------------------------------------------------------------------
(* Numbers: uniform_below, of one byte or two.                             *)

ValuesFor(n) == IF n <= ByteValues THEN ByteValues ELSE ByteValues * ByteValues
UniformBelowSlip(n) == [value \in 0 .. ValuesFor(n) - 1 |-> value % n]
UniformBelow(n) ==
  LET accepted == (ValuesFor(n) \div n) * n IN [value \in 0 .. accepted - 1 |-> value % n]

-----------------------------------------------------------------------------
(* Phrases of the core, and the wishes of a person.                        *)

ListSize  == LastValues * Checksums
Words     == 0 .. ListSize - 1
Positions == 1 .. 3
Anywhere  == 0
Entropies == {<<a, b, c>> : a \in Words, b \in Words, c \in 0 .. LastValues - 1}

(* Sums stand for the hash and for the check of the BIP39 seed.            *)
Checksum(e)  == (e[1] + (e[1] \div 2) + e[2] + e[3]) % Checksums
PhraseOf(e)  == <<e[1], e[2], e[3] * Checksums + Checksum(e)>>
Passes(p, with) == (p[1] + p[2] + (IF with = "none" THEN 0 ELSE 1)) % 2 = 0

NoWish == [chosen |-> <<>>, never |-> <<>>]

(* The words typed, the last not in the list, and position 4 not in a      *)
(* phrase.                                                                 *)
Wishes ==
  [chosen : {<<>>, <<[at |-> 1, word |-> 1], [at |-> 2, word |-> 2]>>}
              \cup {<<[at |-> at, word |-> w]>> : at \in 0 .. 4, w \in {1, 2, ListSize}},
   never : {<<>>, <<1>>, <<3>>, <<ListSize>>, <<0, 3>>}]

(* WordWishes::new.                                                        *)
Allowed(w) ==
  /\ Len(w.chosen) <= 1 /\ Len(w.never) <= 1
  /\ \A i \in DOMAIN w.never : w.never[i] \in Words
  /\ \A i \in DOMAIN w.chosen :
       /\ w.chosen[i].word \in Words
       /\ \A k \in DOMAIN w.never : w.never[k] # w.chosen[i].word
       /\ w.chosen[i].at \in Positions \cup {Anywhere}

FixedAt(w, at) == w.chosen # <<>> /\ w.chosen[1].at = at

(* apply: of the last word only its entropy bit is set.                    *)
ApplySlip(w, e) ==
  [i \in Positions |->
    IF ~FixedAt(w, i) /\ ~(FixedAt(w, Anywhere) /\ i = 1) THEN e[i]
    ELSE IF i = 3 THEN w.chosen[1].word \div Checksums ELSE w.chosen[1].word]
Apply(w, e) ==
  [i \in Positions |->
    IF ~FixedAt(w, i) THEN e[i]
    ELSE IF i = 3 THEN w.chosen[1].word \div Checksums ELSE w.chosen[1].word]

(* met_by.                                                                 *)
MetBy(w, p) ==
  /\ \A i \in Positions : FixedAt(w, i) => p[i] = w.chosen[1].word
  /\ \A i \in Positions, k \in DOMAIN w.never : p[i] # w.never[k]
  /\ FixedAt(w, Anywhere) => \E i \in Positions : p[i] = w.chosen[1].word

(* DRAW_REPORT_INTERVAL, and draw_limit: of a draw without any condition   *)
(* it is below one report, of every other one above.                       *)
Interval == 2
Limit    == IF wish = NoWish /\ ~checked THEN 1 ELSE 4

-----------------------------------------------------------------------------

Init ==
  /\ draw = "begin" /\ asker = "tool" /\ passphrase = "none" /\ checked = FALSE
  /\ wish = NoWish /\ source = "unknown" /\ draws = 0 /\ heard = 0 /\ phrase = <<>>

(* mhfe new: at a terminal that can show privately; the passphrase is      *)
(* asked until typed twice the same, and the check only after one.         *)
ToolAsks ==
  /\ draw = "begin" /\ asker' = "tool" /\ draw' = "ready"
  /\ passphrase' \in {"none", "theirs"}
  /\ checked' \in {FALSE} \cup {passphrase' # "none"}
  /\ UNCHANGED <<wish, source, draws, heard, phrase>>

(* A page passes both entries, the check and the wishes in any             *)
(* combination: what does not go together is refused.                      *)
PageAsks ==
  /\ draw = "begin" /\ asker' = "page"
  /\ passphrase' \in {"none", "theirs"} /\ checked' \in BOOLEAN /\ wish' \in Wishes
  /\ \E repeat \in {"none", "theirs"} :
       draw' = IF repeat = passphrase' /\ Allowed(wish') /\ (checked' => passphrase' # "none")
               THEN "ready" ELSE "refused"
  /\ UNCHANGED <<source, draws, heard, phrase>>

(* check_source: two probes that are equal, or zero, refuse the source. A  *)
(* source may also fail, or pass and give nothing more that is random.     *)
Probes ==
  /\ draw = "ready" /\ source' \in {"random", "stuck", "untouched", "failing", "stuck later"}
  /\ draw' = IF source' \in {"random", "stuck later"} THEN "drawing" ELSE "no randomness"
  /\ UNCHANGED <<asker, passphrase, checked, wish, draws, heard, phrase>>

Given == {e \in Entropies : source = "random" \/ e = <<0, 0, 0>>}

Fails ==
  /\ draw = "drawing" /\ draw' = "no randomness"
  /\ UNCHANGED <<asker, passphrase, checked, wish, source, draws, heard, phrase>>

(* one_draw: unchecked_phrase, or a trial of the core in checked_phrase.   *)
(* The caller hears of every second draw and may stop there: of a checked  *)
(* one before its phrase is looked at, of an unchecked one only if it goes *)
(* on.                                                                     *)
AcceptedSlip(p) == MetBy(wish, p) /\ (checked => Passes(p, "none"))
Accepted(p)     == MetBy(wish, p) /\ (checked => Passes(p, passphrase))

Draws(p) ==
  /\ draw = "drawing" /\ draws < Limit /\ draws' = draws + 1
  /\ LET goesOn == ~Accepted(p)
         hears  == draws' % Interval = 0 /\ (checked \/ (goesOn /\ draws' < Limit))
     IN \/ /\ heard' = IF hears THEN draws' ELSE heard
           /\ phrase' = IF goesOn THEN phrase ELSE p
           /\ draw' = IF ~goesOn THEN "drawn"
                      ELSE IF draws' = Limit /\ ~checked THEN "no randomness" ELSE draw
        \/ hears /\ heard' = draws' /\ draw' = "stopped" /\ UNCHANGED phrase
  /\ UNCHANGED <<asker, passphrase, checked, wish, source>>

DrawsOne == \E e \in Given : Draws(PhraseOf(Apply(wish, e)))

(* The next trial of a checked draw at its limit.                          *)
GivesUp ==
  /\ draw = "drawing" /\ draws = Limit /\ draw' = "no randomness"
  /\ UNCHANGED <<asker, passphrase, checked, wish, source, draws, heard, phrase>>

(* show_new_phrase: on a private screen or not at all; then the container  *)
(* is made, which a stop or an error may prevent.                          *)
Shows ==
  /\ draw = "drawn" /\ asker = "tool" /\ draw' \in {"written", "cancelled"}
  /\ UNCHANGED <<asker, passphrase, checked, wish, source, draws, heard, phrase>>

Seals ==
  /\ draw = "written" /\ draw' \in {"sealed", "cancelled"}
  /\ UNCHANGED <<asker, passphrase, checked, wish, source, draws, heard, phrase>>

Next ==
  ToolAsks \/ PageAsks \/ Probes \/ Fails \/ DrawsOne \/ GivesUp \/ Shows \/ Seals

Spec == Init /\ [][Next]_vars

-----------------------------------------------------------------------------
(* Properties.                                                             *)

(* The phrases that the wishes leave.                                      *)
Wished ==
  {p \in {PhraseOf(e) : e \in Entropies} :
     /\ \A i \in DOMAIN wish.chosen :
          IF wish.chosen[i].at = Anywhere THEN \E k \in Positions : p[k] = wish.chosen[i].word
          ELSE p[wish.chosen[i].at] = wish.chosen[i].word
     /\ \A i \in DOMAIN wish.never : \A k \in Positions : p[k] # wish.never[i]}

(* Every phrase that meets the wishes is equally likely: as many entropies *)
(* give the one as the other, and none gives a phrase that misses a wish   *)
(* and is kept.                                                            *)
Ways(p) == Cardinality({e \in Entropies : PhraseOf(Apply(wish, e)) = p /\ MetBy(wish, p)})
EveryPhraseIsAsLikely ==
  draw = "ready" =>
    /\ \A p, q \in Wished : Ways(p) = Ways(q) /\ Ways(p) > 0
    /\ \A e \in Entropies : Ways(PhraseOf(e)) > 0 => PhraseOf(e) \in Wished

(* A phrase is given only as asked for: as wished, passing the check with  *)
(* the passphrase typed, from a source that was probed; a draw ends at its *)
(* limit, and the caller heard of it in time to stop it.                   *)
GivenAsAsked ==
  /\ draw \in {"drawn", "written", "sealed"} =>
       phrase \in Wished /\ source \in {"random", "stuck later"}
         /\ (checked => passphrase # "none" /\ Passes(phrase, passphrase))
  /\ draws <= Limit
  /\ draw = "drawing" /\ draws < Limit => draws - heard < Interval

(* No number below n is more likely than another, and a draw gives one     *)
(* with a chance of a half at least.                                       *)
NumbersAreEven ==
  draw = "begin" =>
    \A n \in 2 .. ByteValues * ByteValues :
      LET number == UniformBelow(n) IN
      /\ \A v, w \in 0 .. n - 1 :
           Cardinality({x \in DOMAIN number : number[x] = v})
             = Cardinality({x \in DOMAIN number : number[x] = w})
      /\ 2 * Cardinality(DOMAIN number) >= ValuesFor(n)
      /\ \A x \in DOMAIN number : number[x] < n

(* A phrase drawn is as likely as any other that was asked for.            *)
EvenDraws == EveryPhraseIsAsLikely /\ NumbersAreEven
=============================================================================
