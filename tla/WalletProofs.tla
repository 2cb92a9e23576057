---------------------------- MODULE WalletProofs ----------------------------
(***************************************************************************)
(* Proofs about the parts of Parts that belong to a wallet, for every      *)
(* value of the constants.  Of a new phrase: that it is given as it was    *)
(* asked for, and is as likely as any other.  Of the search of an address: *)
(* that it is found where it is.                                           *)
(***************************************************************************)
EXTENDS PartsProofs

-----------------------------------------------------------------------------
(* Division by a number that is not given.                                 *)
LEMMA TimesGrows ==
  ASSUME NEW d \in Nat, NEW q \in Nat, NEW p \in Nat, q + 1 <= p
  PROVE  q * d + d <= p * d
<1>1. p = q + 1 + (p - q - 1) /\ p - q - 1 \in Nat
  OBVIOUS
<1> DEFINE k == p - q - 1
<1>2. k \in Nat /\ p = q + 1 + k
  BY <1>1
<1> HIDE DEF k
<1>3. p * d = q * d + d + k * d
  BY <1>2
<1>4. k * d \in Nat /\ q * d \in Nat
  BY <1>2
<1>5. QED
  BY <1>3, <1>4

LEMMA DividesOnce ==
  ASSUME NEW d \in Nat \ {0}, NEW q \in Nat, NEW r \in 0..(d - 1)
  PROVE  (q * d + r) \div d = q /\ (q * d + r) % d = r
<1> DEFINE n == q * d + r  p == n \div d  m == n % d
<1>1. n \in Nat /\ q * d \in Nat
  OBVIOUS
<1>2. n = d * p + m /\ m \in 0..(d - 1) /\ p \in Nat
  BY <1>1
<1>3. n = q * d + r
  OBVIOUS
<1> HIDE DEF n, p, m
<1>4. p * d = d * p /\ p * d \in Nat
  BY <1>2
<1>5. ~(q + 1 <= p)
  <2> SUFFICES ASSUME q + 1 <= p PROVE FALSE
    OBVIOUS
  <2>1. q * d + d <= p * d
    BY <1>2, TimesGrows
  <2>2. QED
    BY <1>1, <1>2, <1>3, <1>4, <2>1
<1>6. ~(p + 1 <= q)
  <2> SUFFICES ASSUME p + 1 <= q PROVE FALSE
    OBVIOUS
  <2>1. p * d + d <= q * d
    BY <1>2, TimesGrows
  <2>2. QED
    BY <1>1, <1>2, <1>3, <1>4, <2>1
<1>7. p = q
  BY <1>2, <1>5, <1>6
<1>8. m = r
  BY <1>1, <1>2, <1>3, <1>4, <1>7
<1>9. QED
  BY <1>7, <1>8 DEF n, p, m

LEMMA DividesTo ==
  ASSUME NEW d \in Nat \ {0}, NEW n \in Nat
  PROVE  n \div d \in Nat /\ n % d \in 0..(d - 1) /\ n = (n \div d) * d + (n % d)
<1> DEFINE p == n \div d  m == n % d
<1>1. n = d * p + m /\ m \in 0..(d - 1) /\ p \in Nat
  OBVIOUS
<1> HIDE DEF p, m
<1>2. n = p * d + m
  BY <1>1
<1>3. QED
  BY <1>1, <1>2 DEF p, m

-----------------------------------------------------------------------------
(* The draw of a new phrase.                                               *)

WishIsAllowed ==
  /\ wish.chosen \in Seq([at : Nat, word : Nat]) /\ wish.never \in Seq(Nat)
  /\ draw \notin {"begin", "refused"} => Draw!Allowed(wish) /\ (checked => passphrase # "none")
  /\ draw = "begin" => wish = Draw!NoWish

(* The caller heard of the last draw but the odd one.                      *)
DrawsAreHeard ==
  /\ draw \in {"begin", "ready", "refused"} => draws = 0 /\ heard = 0
  /\ draws \in 0 .. 4 /\ draws <= Draw!Limit
  /\ draw = "drawing" /\ draws < Draw!Limit => heard = IF draws < 2 THEN 0 ELSE 2

PhraseIsAsAsked ==
  /\ draw \in {"drawing", "drawn", "written", "sealed"} => source \in {"random", "stuck later"}
  /\ draw \in {"drawn", "written", "sealed"} =>
       phrase \in Draw!Wished /\ (checked => Draw!Passes(phrase, passphrase))

DrawInv == WishIsAllowed /\ DrawsAreHeard /\ PhraseIsAsAsked

LEMMA DrawBegins == Draw!Init => DrawInv
  BY DEF Draw!Init, DrawInv, WishIsAllowed, DrawsAreHeard, PhraseIsAsAsked, Draw!NoWish, Draw!Limit

LEMMA DrawTells == DrawInv => Draw!GivenAsAsked
<1> SUFFICES ASSUME DrawInv PROVE Draw!GivenAsAsked
  OBVIOUS
<1>1. draw \in {"drawn", "written", "sealed"} =>
        phrase \in Draw!Wished /\ source \in {"random", "stuck later"}
          /\ (checked => passphrase # "none" /\ Draw!Passes(phrase, passphrase))
  BY DEF DrawInv, WishIsAllowed, PhraseIsAsAsked
<1>2. draws <= Draw!Limit
  BY DEF DrawInv, DrawsAreHeard
<1>3. draw = "drawing" /\ draws < Draw!Limit => draws - heard < Draw!Interval
  <2>1. Draw!Limit \in {1, 4}
    BY DEF Draw!Limit
  <2>2. QED
    BY <2>1 DEF DrawInv, DrawsAreHeard, Draw!Interval
<1>4. QED
  BY <1>1, <1>2, <1>3 DEF Draw!GivenAsAsked

(* A word chosen, and the entropy of a draw.                               *)
LEMMA ChosenIsOne ==
  ASSUME NEW w, w.chosen \in Seq([at : Nat, word : Nat]), Draw!Allowed(w)
  PROVE  /\ \A i \in DOMAIN w.chosen : i = 1 /\ w.chosen # <<>>
         /\ w.chosen # <<>> => w.chosen[1].word \in Draw!Words /\ 1 \in DOMAIN w.chosen
<1>1. Len(w.chosen) <= 1 /\ DOMAIN w.chosen = 1 .. Len(w.chosen) /\ Len(w.chosen) \in Nat
  BY DEF Draw!Allowed
<1>2. \A i \in DOMAIN w.chosen : i = 1 /\ w.chosen # <<>>
  BY <1>1
<1>3. ASSUME w.chosen # <<>> PROVE 1 \in DOMAIN w.chosen
  BY <1>1, <1>3
<1>4. QED
  BY <1>2, <1>3 DEF Draw!Allowed

LEMMA SizesAre == /\ ByteValues \in Nat \ {0} /\ LastValues \in Nat \ {0} /\ Checksums \in Nat \ {0}
                  /\ Draw!ListSize \in Nat \ {0} /\ Draw!ListSize = LastValues * Checksums
<1>1. ByteValues \in Nat \ {0} /\ LastValues \in Nat \ {0} /\ Checksums \in Nat \ {0}
  BY DrawAssumption
<1>2. LastValues * Checksums \in Nat \ {0}
  BY <1>1
<1>3. QED
  BY <1>1, <1>2 DEF Draw!ListSize

(* The last word: its bits of the entropy, and its checksum.               *)
LEMMA LastIsDivided ==
  ASSUME NEW word \in Draw!Words
  PROVE  word \div Checksums \in 0 .. LastValues - 1
<1> DEFINE q == word \div Checksums  r == word % Checksums
<1>1. word \in Nat /\ word < LastValues * Checksums
  BY SizesAre DEF Draw!Words
<1>2. q \in Nat /\ r \in 0 .. Checksums - 1 /\ word = q * Checksums + r
  BY <1>1, SizesAre, DividesTo
<1> HIDE DEF q, r
<1>3. ~(LastValues <= q)
  <2> SUFFICES ASSUME LastValues <= q PROVE FALSE
    OBVIOUS
  <2> DEFINE k == q - LastValues
  <2>1. k \in Nat /\ q = LastValues + k
    BY <1>2, SizesAre
  <2> HIDE DEF k
  <2>2. q * Checksums = LastValues * Checksums + k * Checksums /\ k * Checksums \in Nat
    BY <2>1, SizesAre
  <2>3. q * Checksums \in Nat /\ LastValues * Checksums \in Nat
    BY <1>2, SizesAre
  <2>4. QED
    BY <1>1, <1>2, <2>2, <2>3
<1>4. QED
  BY <1>2, <1>3, SizesAre DEF q

LEMMA EntropyIs ==
  ASSUME NEW e \in Draw!Entropies
  PROVE  /\ e[1] \in Draw!Words /\ e[2] \in Draw!Words /\ e[3] \in 0 .. LastValues - 1
         /\ e = <<e[1], e[2], e[3]>>
<1>1. PICK x \in Draw!Words, y \in Draw!Words, z \in 0 .. LastValues - 1 : e = <<x, y, z>>
  BY DEF Draw!Entropies
<1>2. QED
  BY <1>1

LEMMA AppliedIs ==
  ASSUME NEW w, w.chosen \in Seq([at : Nat, word : Nat]), Draw!Allowed(w), NEW e \in Draw!Entropies,
         NEW a, a = Draw!Apply(w, e)
  PROVE  /\ a[1] \in Draw!Words /\ a[2] \in Draw!Words /\ a[3] \in 0 .. LastValues - 1
         /\ \A i \in {1, 2, 3} : a[i] = IF ~Draw!FixedAt(w, i) THEN e[i]
                                        ELSE IF i = 3 THEN w.chosen[1].word \div Checksums
                                        ELSE w.chosen[1].word
<1>1. e[1] \in Draw!Words /\ e[2] \in Draw!Words /\ e[3] \in 0 .. LastValues - 1
  BY EntropyIs
<1>2. \A i \in {1, 2, 3} : a[i] = IF ~Draw!FixedAt(w, i) THEN e[i]
                                  ELSE IF i = 3 THEN w.chosen[1].word \div Checksums
                                  ELSE w.chosen[1].word
  BY DEF Draw!Apply, Draw!Positions
<1>3. \A i \in {1, 2, 3} : Draw!FixedAt(w, i) => w.chosen[1].word \in Draw!Words
  BY ChosenIsOne DEF Draw!FixedAt
<1>4. \A i \in {1, 2, 3} : Draw!FixedAt(w, i) => w.chosen[1].word \div Checksums \in 0 .. LastValues - 1
  BY <1>3, LastIsDivided
<1>5. a[1] \in Draw!Words /\ a[2] \in Draw!Words
  BY <1>1, <1>2, <1>3
<1>6. a[3] \in 0 .. LastValues - 1
  BY <1>1, <1>2, <1>4
<1>7. QED
  BY <1>2, <1>5, <1>6

LEMMA AppliedIsDrawn ==
  ASSUME NEW w, w.chosen \in Seq([at : Nat, word : Nat]), Draw!Allowed(w), NEW e \in Draw!Entropies
  PROVE  \E d \in Draw!Entropies : Draw!PhraseOf(Draw!Apply(w, e)) = Draw!PhraseOf(d)
<1> DEFINE a == Draw!Apply(w, e)
           d == <<a[1], a[2], a[3]>>
<1>1. a[1] \in Draw!Words /\ a[2] \in Draw!Words /\ a[3] \in 0 .. LastValues - 1
  BY AppliedIs
<1>2. d[1] = a[1] /\ d[2] = a[2] /\ d[3] = a[3]
  OBVIOUS
<1> HIDE DEF a
<1>3. d \in Draw!Entropies
  BY <1>1 DEF Draw!Entropies
<1> HIDE DEF d
<1>4. Draw!PhraseOf(a) = Draw!PhraseOf(d)
  BY <1>2 DEF Draw!PhraseOf, Draw!Checksum
<1>5. QED
  BY <1>3, <1>4 DEF a

(* What meets the wishes, word by word, is as wished.                      *)
LEMMA MetIsWished ==
  ASSUME WishIsAllowed, draw \notin {"begin", "refused"}, NEW e \in Draw!Entropies,
         NEW p, p = Draw!PhraseOf(Draw!Apply(wish, e)), Draw!MetBy(wish, p)
  PROVE  p \in Draw!Wished
<1>1. p \in {Draw!PhraseOf(d) : d \in Draw!Entropies}
  BY AppliedIsDrawn DEF WishIsAllowed
<1>2. \A i \in DOMAIN wish.chosen :
        /\ i = 1 /\ wish.chosen # <<>>
        /\ wish.chosen[i].at \in Draw!Positions \cup {Draw!Anywhere}
  BY ChosenIsOne DEF WishIsAllowed, Draw!Allowed
<1>3. \A i \in DOMAIN wish.chosen :
        IF wish.chosen[i].at = Draw!Anywhere THEN \E k \in Draw!Positions : p[k] = wish.chosen[i].word
        ELSE p[wish.chosen[i].at] = wish.chosen[i].word
  BY <1>2 DEF Draw!MetBy, Draw!FixedAt
<1>4. \A i \in DOMAIN wish.never : \A k \in Draw!Positions : p[k] # wish.never[i]
  BY DEF Draw!MetBy
<1>5. QED
  BY <1>1, <1>3, <1>4 DEF Draw!Wished

LEMMA WishesAre ==
  ASSUME NEW w \in Draw!Wishes
  PROVE  w.chosen \in Seq([at : Nat, word : Nat]) /\ w.never \in Seq(Nat)
<1> DEFINE size == Draw!ListSize
<1>1. w.never \in {<<>>, <<1>>, <<3>>, <<size>>, <<0, 3>>}
  BY DEF Draw!Wishes
<1>2. w.chosen \in {<<>>, <<[at |-> 1, word |-> 1], [at |-> 2, word |-> 2]>>}
                     \cup {<<[at |-> at_, word |-> w_]>> : at_ \in 0 .. 4, w_ \in {1, 2, size}}
  BY DEF Draw!Wishes
<1>3. size \in Nat
  BY SizesAre
<1> HIDE DEF size
<1>4. w.never \in Seq(Nat)
  <2>1. <<>> \in Seq(Nat) /\ <<1>> \in Seq(Nat) /\ <<3>> \in Seq(Nat) /\ <<size>> \in Seq(Nat)
    BY <1>3
  <2>2. <<0, 3>> \in Seq(Nat)
    OBVIOUS
  <2>3. QED
    BY <1>1, <2>1, <2>2
<1>5. CASE w.chosen = <<>>
  BY <1>4, <1>5
<1>6. CASE w.chosen = <<[at |-> 1, word |-> 1], [at |-> 2, word |-> 2]>>
  BY <1>4, <1>6
<1>7. CASE \E at_ \in 0 .. 4, w_ \in {1, 2, size} : w.chosen = <<[at |-> at_, word |-> w_]>>
  BY <1>3, <1>4, <1>7
<1>8. QED
  BY <1>2, <1>5, <1>6, <1>7

LEMMA DrawIsAskedFor == DrawInv /\ (Draw!ToolAsks \/ Draw!PageAsks) => DrawInv'
<1>1. ASSUME DrawInv, Draw!ToolAsks PROVE DrawInv'
  <2>1. /\ draw = "begin" /\ draw' = "ready" /\ (checked' => passphrase' # "none")
        /\ UNCHANGED <<wish, source, draws, heard, phrase>>
    BY <1>1 DEF Draw!ToolAsks
  <2>2. Draw!Allowed(wish)
    BY <1>1, <2>1 DEF DrawInv, WishIsAllowed, Draw!Allowed, Draw!NoWish
  <2>3. WishIsAllowed'
    BY <1>1, <2>1, <2>2 DEF DrawInv, WishIsAllowed, Draw!Allowed
  <2>4. DrawsAreHeard' /\ PhraseIsAsAsked'
    BY <1>1, <2>1 DEF DrawInv, DrawsAreHeard, PhraseIsAsAsked, Draw!Limit
  <2>5. QED
    BY <2>3, <2>4 DEF DrawInv
<1>2. ASSUME DrawInv, Draw!PageAsks PROVE DrawInv'
  <2>1. /\ draw = "begin" /\ wish' \in Draw!Wishes /\ UNCHANGED <<source, draws, heard, phrase>>
        /\ draw' \in {"ready", "refused"}
        /\ draw' = "ready" => Draw!Allowed(wish') /\ (checked' => passphrase' # "none")
    BY <1>2 DEF Draw!PageAsks
  <2>2. WishIsAllowed'
    BY <2>1, WishesAre DEF WishIsAllowed, Draw!Allowed
  <2>3. DrawsAreHeard'
    <3>1. draws' = 0 /\ heard' = 0
      BY <1>2, <2>1 DEF DrawInv, DrawsAreHeard
    <3>2. Draw!Limit' \in {1, 4}
      BY DEF Draw!Limit
    <3>3. draws' <= Draw!Limit'
      BY <3>1, <3>2
    <3>4. QED
      BY <2>1, <3>1, <3>3 DEF DrawsAreHeard
  <2>4. PhraseIsAsAsked'
    BY <2>1 DEF PhraseIsAsAsked
  <2>5. QED
    BY <2>2, <2>3, <2>4 DEF DrawInv
<1>3. QED
  BY <1>1, <1>2

(* What the draw is of stays.                                              *)
LEMMA WishStays ==
  ASSUME WishIsAllowed, draw \notin {"begin", "refused"}, draw' \notin {"begin", "refused"},
         UNCHANGED <<passphrase, checked, wish>>
  PROVE  WishIsAllowed' /\ Draw!Wished' = Draw!Wished /\ Draw!Limit' = Draw!Limit
<1>1. Draw!Allowed(wish)' <=> Draw!Allowed(wish)
  BY DEF Draw!Allowed
<1>2. QED
  BY <1>1 DEF WishIsAllowed, Draw!Wished, Draw!Limit

LEMMA NoneIsHeard == \A d, h : d = 0 /\ h = 0 => h = IF d < 2 THEN 0 ELSE 2
  OBVIOUS

(* A step that draws nothing.                                              *)
LEMMA DrawGoesOn ==
  ASSUME DrawInv, draw \notin {"begin", "refused"},
         UNCHANGED <<passphrase, checked, wish, draws, heard, phrase>>,
         \/ draw' \in {"no randomness", "cancelled"}
         \/ draw = "ready" /\ draw' = "drawing" /\ source' \in {"random", "stuck later"}
         \/ draw = "drawn" /\ draw' = "written" /\ source' = source
         \/ draw = "written" /\ draw' = "sealed" /\ source' = source
  PROVE  DrawInv'
<1>1. WishIsAllowed' /\ Draw!Wished' = Draw!Wished /\ Draw!Limit' = Draw!Limit
  BY WishStays DEF DrawInv
<1>2. Draw!Passes(phrase, passphrase)' <=> Draw!Passes(phrase, passphrase)
  BY DEF Draw!Passes
<1>3. PhraseIsAsAsked'
  BY <1>1, <1>2 DEF DrawInv, PhraseIsAsAsked
<1>4. DrawsAreHeard'
  <2>1. draws \in 0 .. 4 /\ draws <= Draw!Limit /\ (draw = "ready" => draws = 0 /\ heard = 0)
    BY DEF DrawInv, DrawsAreHeard
  <2>2. draws' = draws /\ heard' = heard /\ (draw' = "drawing" => draw = "ready")
        /\ draw' \notin {"begin", "ready", "refused"}
    OBVIOUS
  <2>3. draws' \in 0 .. 4 /\ draws' <= Draw!Limit'
    BY <1>1, <2>1, <2>2
  <2>4. draw' = "drawing" => draws' = 0 /\ heard' = 0
    BY <2>1, <2>2
  <2>5. draw' = "drawing" => heard' = IF draws' < 2 THEN 0 ELSE 2
    BY <2>4, NoneIsHeard
  <2>6. QED
    BY <2>2, <2>3, <2>5 DEF DrawsAreHeard
<1>5. QED
  BY <1>1, <1>3, <1>4 DEF DrawInv

LEMMA EverySecondIs == 1 % 2 = 1 /\ 2 % 2 = 0 /\ 3 % 2 = 1 /\ 4 % 2 = 0
  OBVIOUS

LEMMA DrawIsCounted ==
  ASSUME NEW d \in 0 .. 4, NEW l \in {1, 4}, d < l, NEW e, e = d + 1, NEW h, h = IF d < 2 THEN 0 ELSE 2,
         NEW g, e < l => g = IF e % 2 = 0 THEN e ELSE h
  PROVE  e \in 0 .. 4 /\ e <= l /\ (e < l => g = IF e < 2 THEN 0 ELSE 2)
<1>1. CASE d = 0
  BY <1>1, EverySecondIs
<1>2. CASE d = 1
  BY <1>2, EverySecondIs
<1>3. CASE d = 2
  BY <1>3, EverySecondIs
<1>4. CASE d = 3
  BY <1>4, EverySecondIs
<1>5. QED
  BY <1>1, <1>2, <1>3, <1>4

LEMMA OneMoreIsDrawn ==
  ASSUME NEW d \in 0 .. 4, NEW l \in {1, 4}, d < l, NEW e, e = d + 1
  PROVE  e \in 0 .. 4 /\ e <= l
  OBVIOUS

LEMMA PhraseIsDrawn ==
  ASSUME DrawInv, NEW e \in Draw!Given, NEW p, p = Draw!PhraseOf(Draw!Apply(wish, e)), Draw!Draws(p)
  PROVE  DrawInv'
<1>1. /\ draw = "drawing" /\ draws < Draw!Limit /\ draws' = draws + 1
      /\ UNCHANGED <<passphrase, checked, wish, source>>
      /\ draw' \in {"drawn", "no randomness", "drawing", "stopped"}
      /\ draw' = "drawn" => Draw!Accepted(p) /\ phrase' = p
      /\ draw' = "drawing" => /\ ~Draw!Accepted(p) /\ (draws' = Draw!Limit => checked)
                              /\ heard' = IF draws' % 2 = 0 /\ (checked \/ draws' < Draw!Limit)
                                          THEN draws' ELSE heard
  BY DEF Draw!Draws, Draw!Interval
<1>2. WishIsAllowed' /\ Draw!Wished' = Draw!Wished /\ Draw!Limit' = Draw!Limit
  BY <1>1, WishStays DEF DrawInv
<1>3. PhraseIsAsAsked'
  <2>1. ASSUME draw' = "drawn" PROVE phrase' \in Draw!Wished /\ (checked => Draw!Passes(p, passphrase))
    <3>1. e \in Draw!Entropies
      BY DEF Draw!Given
    <3>2. Draw!MetBy(wish, p) /\ (checked => Draw!Passes(p, passphrase))
      BY <1>1, <2>1 DEF Draw!Accepted
    <3>3. QED
      BY <1>1, <2>1, <3>1, <3>2, MetIsWished DEF DrawInv
  <2>2. draw' = "drawn" => Draw!Passes(phrase, passphrase)' = Draw!Passes(p, passphrase)
    BY <1>1 DEF Draw!Passes
  <2>3. QED
    BY <1>1, <1>2, <2>1, <2>2 DEF DrawInv, PhraseIsAsAsked
<1>4. DrawsAreHeard'
  <2>1. Draw!Limit \in {1, 4}
    BY DEF Draw!Limit
  <2>2. draws \in 0 .. 4 /\ heard = IF draws < 2 THEN 0 ELSE 2
    BY <1>1 DEF DrawInv, DrawsAreHeard
  <2>3. CASE draw' = "drawing"
    <3>1. draws' < Draw!Limit => heard' = IF draws' % 2 = 0 THEN draws' ELSE heard
      BY <1>1, <2>3
    <3>2. draws' \in 0 .. 4 /\ draws' <= Draw!Limit
          /\ (draws' < Draw!Limit => heard' = IF draws' < 2 THEN 0 ELSE 2)
      BY <1>1, <2>1, <2>2, <3>1, DrawIsCounted
    <3>3. QED
      BY <1>2, <2>3, <3>2 DEF DrawsAreHeard
  <2>4. CASE draw' # "drawing"
    <3>1. draws' \in 0 .. 4 /\ draws' <= Draw!Limit
      BY <1>1, <2>1, <2>2, OneMoreIsDrawn
    <3>2. QED
      BY <1>1, <1>2, <2>4, <3>1 DEF DrawsAreHeard
  <2>5. QED
    BY <2>3, <2>4
<1>5. QED
  BY <1>2, <1>3, <1>4 DEF DrawInv

LEMMA DrawKeeps == DrawInv /\ Draw!Next => DrawInv'
<1> SUFFICES ASSUME DrawInv, Draw!Next PROVE DrawInv'
  OBVIOUS
<1>1. CASE Draw!ToolAsks \/ Draw!PageAsks
  BY <1>1, DrawIsAskedFor
<1>2. CASE Draw!Probes
  BY <1>2, DrawGoesOn DEF Draw!Probes
<1>3. CASE Draw!Fails \/ Draw!GivesUp
  BY <1>3, DrawGoesOn DEF Draw!Fails, Draw!GivesUp
<1>4. CASE Draw!DrawsOne
  <2>1. PICK e \in Draw!Given : Draw!Draws(Draw!PhraseOf(Draw!Apply(wish, e)))
    BY <1>4 DEF Draw!DrawsOne
  <2>2. QED
    BY <2>1, PhraseIsDrawn
<1>5. CASE Draw!Shows \/ Draw!Seals
  BY <1>5, DrawGoesOn DEF Draw!Shows, Draw!Seals
<1>6. QED
  BY <1>1, <1>2, <1>3, <1>4, <1>5 DEF Draw!Next

LEMMA DrawStutters == DrawInv /\ UNCHANGED drawVars => DrawInv'
<1> SUFFICES ASSUME DrawInv, UNCHANGED drawVars PROVE DrawInv'
  OBVIOUS
<1>1. UNCHANGED <<draw, passphrase, checked, wish, source, draws, heard, phrase>>
  BY DEF drawVars
<1>2. /\ Draw!Limit' = Draw!Limit /\ Draw!Wished' = Draw!Wished /\ Draw!Allowed(wish)' = Draw!Allowed(wish)
      /\ Draw!Passes(phrase, passphrase)' = Draw!Passes(phrase, passphrase)
  BY <1>1 DEF Draw!Limit, Draw!Wished, Draw!Allowed, Draw!Passes
<1>3. WishIsAllowed'
  BY <1>1, <1>2 DEF DrawInv, WishIsAllowed
<1>4. DrawsAreHeard'
  BY <1>1, <1>2 DEF DrawInv, DrawsAreHeard
<1>5. PhraseIsAsAsked'
  BY <1>1, <1>2 DEF DrawInv, PhraseIsAsAsked
<1>6. QED
  BY <1>3, <1>4, <1>5 DEF DrawInv

LEMMA OnlyDrawRuns ==
  [PartsNext]_partsVars /\ running = "draw" => Draw!Next \/ UNCHANGED drawVars
  BY DEF PartsNext, partsVars, OthersStay, RekeyRuns, SearchRuns, DrawRuns, EntryRuns, WordsRun,
         MakingRuns, ListRuns, LineRuns, PageRuns, InputRuns, AnswersRun, RequestRun, ReferenceRuns,
         HuntRuns

LEMMA DrawHolds == PartsSpec => [](running = "draw" => DrawInv)
<1> DEFINE Inv == running = "draw" => DrawInv
<1>1. PartsInit => Inv
  BY DrawBegins DEF PartsInit
<1>2. Inv /\ [PartsNext]_partsVars => Inv'
  <2> SUFFICES ASSUME DrawInv, running = "draw", [PartsNext]_partsVars PROVE DrawInv'
    BY PartStays
  <2>1. CASE Draw!Next
    BY <2>1, DrawKeeps
  <2>2. CASE UNCHANGED drawVars
    BY <2>2, DrawStutters
  <2>3. QED
    BY <2>1, <2>2, OnlyDrawRuns
<1>3. QED
  BY <1>1, <1>2, PTL DEF PartsSpec

-----------------------------------------------------------------------------
(* How likely a draw is.                                                   *)

(* Of so many times n numbers, each remainder has so many.                 *)
LEMMA EachAsOften ==
  ASSUME NEW n \in Nat \ {0}, NEW q \in Nat, NEW v \in 0 .. n - 1
  PROVE  Cardinality({x \in 0 .. q * n - 1 : x % n = v}) = q
<1> DEFINE S == 0 .. q - 1
           T == {x \in 0 .. q * n - 1 : x % n = v}
           f == [k \in S |-> k * n + v]
<1>1. ASSUME NEW k \in S PROVE f[k] \in T /\ f[k] \div n = k
  <2>1. k \in Nat /\ k + 1 <= q
    OBVIOUS
  <2>2. (k * n + v) \div n = k /\ (k * n + v) % n = v
    BY <2>1, DividesOnce
  <2>3. k * n + n <= q * n
    BY <2>1, TimesGrows
  <2>4. k * n \in Nat /\ q * n \in Nat
    BY <2>1
  <2> DEFINE a == k * n  b == q * n
  <2>5. a + v \in 0 .. b - 1
    <3>1. a \in Nat /\ b \in Nat /\ a + n <= b
      BY <2>3, <2>4
    <3> HIDE DEF a, b
    <3>2. QED
      BY <3>1
  <2>6. f[k] = a + v
    OBVIOUS
  <2>7. QED
    BY <2>2, <2>5, <2>6
<1>2. ASSUME NEW x \in T PROVE \E k \in S : f[k] = x
  <2>1. x \in Nat /\ x <= q * n - 1 /\ q * n \in Nat /\ x % n = v
    OBVIOUS
  <2> DEFINE k == x \div n
  <2>2. k \in Nat /\ x = k * n + v
    BY <2>1, DividesTo
  <2> HIDE DEF k
  <2>3. ~(q <= k)
    <3> SUFFICES ASSUME q <= k PROVE FALSE
      OBVIOUS
    <3>1. k * n \in Nat
      BY <2>2
    <3>2. CASE q = k
      <4> DEFINE b == k * n
      <4>1. b \in Nat /\ x = b + v /\ x <= b - 1
        BY <2>1, <2>2, <3>1, <3>2
      <4> HIDE DEF b
      <4>2. QED
        BY <4>1
    <3>3. CASE q + 1 <= k
      <4>1. q * n + n <= k * n
        BY <2>2, <3>3, TimesGrows
      <4> DEFINE a == q * n  b == k * n
      <4>2. a \in Nat /\ b \in Nat /\ x = b + v /\ x <= a - 1 /\ a + n <= b
        BY <2>1, <2>2, <3>1, <4>1
      <4> HIDE DEF a, b
      <4>3. QED
        BY <4>2
    <3>4. QED
      BY <2>2, <3>2, <3>3
  <2>4. k \in S /\ f[k] = x
    BY <2>2, <2>3
  <2>5. QED
    BY <2>4
<1>3. f \in [S -> T]
  BY <1>1
<1>4. \A a, b \in S : f[a] = f[b] => a = b
  <2> HIDE DEF f
  <2>1. QED
    BY <1>1
<1>5. IsFiniteSet(S) /\ Cardinality(S) = q
  BY FS_Interval
<1> HIDE DEF S, T, f
<1>6. ExistsBijection(S, T)
  <2>1. f \in Bijection(S, T)
    BY <1>2, <1>3, <1>4, Fun_IsBij
  <2>2. QED
    BY <2>1 DEF ExistsBijection
<1>7. Cardinality(T) = q
  BY <1>5, <1>6, FS_Bijection
<1>8. QED
  BY <1>7 DEF T

LEMMA SameCount == \A S : Draw!Cardinality(S) = Cardinality(S)
  BY DEF Draw!Cardinality, Cardinality

LEMMA AcceptedIsHalf ==
  ASSUME NEW n \in Nat \ {0}, NEW values \in Nat, n <= values
  PROVE  2 * ((values \div n) * n) >= values
<1> DEFINE q == values \div n  r == values % n
<1>1. q \in Nat /\ r \in 0 .. n - 1 /\ values = q * n + r
  BY DividesTo
<1> HIDE DEF q, r
<1> DEFINE a == q * n
<1>2. q # 0
  <2>1. q = 0 => q * n = 0
    OBVIOUS
  <2>2. QED
    BY <1>1, <2>1
<1>3. n <= a /\ a \in Nat
  <2>1. q = 1 \/ 1 + 1 <= q
    BY <1>1, <1>2
  <2>2. 1 + 1 <= q => 1 * n + n <= q * n
    BY <1>1, TimesGrows
  <2>3. q * n \in Nat /\ (q = 1 => q * n = n) /\ 1 * n = n
    BY <1>1
  <2>4. QED
    BY <2>1, <2>2, <2>3
<1>4. values = a + r
  BY <1>1
<1> HIDE DEF a
<1>5. 2 * a >= values
  BY <1>1, <1>3, <1>4
<1>6. QED
  BY <1>5 DEF a, q

LEMMA ValuesAre ==
  ASSUME NEW n \in 2 .. ByteValues * ByteValues
  PROVE  Draw!ValuesFor(n) \in Nat /\ n <= Draw!ValuesFor(n)
<1>1. ByteValues \in Nat
  BY SizesAre
<1>2. ByteValues * ByteValues \in Nat
  BY <1>1
<1>3. QED
  BY <1>1, <1>2 DEF Draw!ValuesFor

LEMMA NumbersFair == Draw!NumbersAreEven
<1> SUFFICES ASSUME NEW n \in 2 .. ByteValues * ByteValues
             PROVE  LET number == Draw!UniformBelow(n) IN
                    /\ \A v, w \in 0 .. n - 1 :
                         Draw!Cardinality({x \in DOMAIN number : number[x] = v})
                           = Draw!Cardinality({x \in DOMAIN number : number[x] = w})
                    /\ 2 * Draw!Cardinality(DOMAIN number) >= Draw!ValuesFor(n)
                    /\ \A x \in DOMAIN number : number[x] < n
  BY DEF Draw!NumbersAreEven
<1> DEFINE number == Draw!UniformBelow(n)
           values == Draw!ValuesFor(n)
           q == values \div n
<1>1. n \in Nat \ {0} /\ values \in Nat /\ n <= values
  <2>1. ByteValues * ByteValues \in Nat
    BY SizesAre
  <2>2. QED
    BY <2>1, ValuesAre
<1>2. DOMAIN number = 0 .. q * n - 1 /\ \A x \in 0 .. q * n - 1 : number[x] = x % n
  BY DEF Draw!UniformBelow
<1> HIDE DEF number, values
<1>3. q \in Nat
  BY <1>1, DividesTo
<1>4. 2 * (q * n) >= values
  BY <1>1, AcceptedIsHalf
<1> HIDE DEF q
<1>5. q * n \in Nat
  BY <1>1, <1>3
<1>6. ASSUME NEW v \in 0 .. n - 1
      PROVE  Draw!Cardinality({x \in DOMAIN number : number[x] = v}) = q
  <2>1. {x \in DOMAIN number : number[x] = v} = {x \in 0 .. q * n - 1 : x % n = v}
    BY <1>2
  <2>2. Cardinality({x \in 0 .. q * n - 1 : x % n = v}) = q
    BY <1>1, <1>3, EachAsOften
  <2>3. QED
    BY <2>1, <2>2, SameCount
<1>7. \A x \in DOMAIN number : number[x] < n
  <2> SUFFICES ASSUME NEW x \in DOMAIN number PROVE number[x] < n
    OBVIOUS
  <2>1. x \in Nat /\ number[x] = x % n
    BY <1>2, <1>5
  <2>2. x % n \in 0 .. n - 1
    BY <1>1, <2>1, DividesTo
  <2>3. QED
    BY <1>1, <2>1, <2>2
<1>8. 2 * Draw!Cardinality(DOMAIN number) >= values
  <2> DEFINE a == q * n
  <2>1. a \in Nat /\ DOMAIN number = 0 .. a - 1 /\ 2 * a >= values
    BY <1>2, <1>4, <1>5
  <2> HIDE DEF a
  <2>2. Cardinality(0 .. a - 1) = a
    BY <2>1, FS_Interval
  <2>3. QED
    BY <2>1, <2>2, SameCount
<1>9. QED
  BY <1>6, <1>7, <1>8 DEF number, values

(* The entropies that differ from one only where a word was chosen.        *)
Fit(w, d) == {e \in Draw!Entropies : \A i \in {1, 2, 3} : ~Draw!FixedAt(w, i) => e[i] = d[i]}

LEMMA EntropiesAreFinite == IsFiniteSet(Draw!Entropies)
<1> DEFINE W == Draw!Words  L == 0 .. LastValues - 1  S == (W \X W) \X L  T == Draw!Entropies
           f == [s \in S |-> <<s[1][1], s[1][2], s[2]>>]
<1>1. IsFiniteSet(W) /\ IsFiniteSet(L)
  <2>1. Draw!ListSize \in Nat /\ LastValues \in Nat
    BY SizesAre
  <2>2. QED
    BY <2>1, FS_Interval DEF Draw!Words
<1>2. IsFiniteSet(S)
  <2> HIDE DEF W, L
  <2>1. IsFiniteSet(W \X W)
    BY <1>1, FS_Product
  <2> DEFINE P == W \X W
  <2>2. IsFiniteSet(P)
    BY <2>1
  <2> HIDE DEF P
  <2>3. IsFiniteSet(P \X L)
    BY <1>1, <2>2, FS_Product
  <2>4. QED
    BY <2>3 DEF P
<1>3. f \in [S -> T]
  BY DEF Draw!Entropies
<1>4. ASSUME NEW t \in T PROVE \E s \in S : f[s] = t
  <2>1. t[1] \in W /\ t[2] \in W /\ t[3] \in L /\ t = <<t[1], t[2], t[3]>>
    BY EntropyIs
  <2>2. <<<<t[1], t[2]>>, t[3]>> \in S /\ f[<<<<t[1], t[2]>>, t[3]>>] = t
    BY <2>1
  <2>3. QED
    BY <2>2
<1> HIDE DEF S, T, f
<1>5. f \in Surjection(S, T)
  BY <1>3, <1>4, Fun_IsSurj
<1>6. IsFiniteSet(T)
  BY <1>2, <1>5, FS_Surjection DEF ExistsSurjection
<1>7. QED
  BY <1>6 DEF T

LEMMA FitIsFinite ==
  ASSUME NEW w, NEW d \in Draw!Entropies
  PROVE  IsFiniteSet(Fit(w, d)) /\ Cardinality(Fit(w, d)) \in Nat /\ Cardinality(Fit(w, d)) > 0
<1> DEFINE F == Fit(w, d)  E == Draw!Entropies
<1>1. F \subseteq E /\ d \in F
  BY DEF Fit
<1> HIDE DEF F
<1>2. IsFiniteSet(E)
  BY EntropiesAreFinite
<1> HIDE DEF E
<1>3. IsFiniteSet(F)
  BY <1>1, <1>2, FS_Subset
<1>4. Cardinality(F) \in Nat /\ Cardinality(F) # 0
  BY <1>1, <1>3, FS_CardinalityType, FS_EmptySet
<1>5. QED
  BY <1>3, <1>4 DEF F

LEMMA FitAsMany ==
  ASSUME NEW w, NEW d \in Draw!Entropies, NEW g \in Draw!Entropies
  PROVE  Cardinality(Fit(w, d)) = Cardinality(Fit(w, g))
<1> DEFINE S == Fit(w, d)  T == Fit(w, g)
           Either(e, i) == IF Draw!FixedAt(w, i) THEN e[i] ELSE g[i]
           f == [e \in S |-> <<Either(e, 1), Either(e, 2), Either(e, 3)>>]
<1>1. ASSUME NEW e \in S
      PROVE  /\ f[e] \in T /\ e \in Draw!Entropies
             /\ \A i \in {1, 2, 3} : f[e][i] = Either(e, i)
  <2>1. e \in Draw!Entropies /\ e[1] \in Draw!Words /\ e[2] \in Draw!Words /\ e[3] \in 0 .. LastValues - 1
    BY EntropyIs DEF Fit
  <2>2. g[1] \in Draw!Words /\ g[2] \in Draw!Words /\ g[3] \in 0 .. LastValues - 1
    BY EntropyIs
  <2>3. f[e] = <<Either(e, 1), Either(e, 2), Either(e, 3)>>
    OBVIOUS
  <2>4. Either(e, 1) \in Draw!Words /\ Either(e, 2) \in Draw!Words /\ Either(e, 3) \in 0 .. LastValues - 1
    BY <2>1, <2>2
  <2>5. \A i \in {1, 2, 3} : f[e][i] = Either(e, i)
    <3> DEFINE x == Either(e, 1)  y == Either(e, 2)  z == Either(e, 3)
    <3>1. f[e] = <<x, y, z>>
      BY <2>3
    <3> HIDE DEF x, y, z, f
    <3>2. f[e][1] = x /\ f[e][2] = y /\ f[e][3] = z
      BY <3>1
    <3>3. QED
      BY <3>2 DEF x, y, z
  <2>6. f[e] \in Draw!Entropies
    <3> HIDE DEF f, Either
    <3>1. QED
      BY <2>3, <2>4 DEF Draw!Entropies
  <2>7. \A i \in {1, 2, 3} : ~Draw!FixedAt(w, i) => f[e][i] = g[i]
    <3> HIDE DEF f
    <3>1. QED
      BY <2>5
  <2>8. QED
    BY <2>1, <2>5, <2>6, <2>7 DEF Fit
<1>2. f \in [S -> T]
  BY <1>1
<1> HIDE DEF f
<1>3. ASSUME NEW a \in S, NEW b \in S, f[a] = f[b] PROVE a = b
  <2>1. \A i \in {1, 2, 3} : Draw!FixedAt(w, i) => a[i] = b[i]
    BY <1>1, <1>3
  <2>2. \A i \in {1, 2, 3} : ~Draw!FixedAt(w, i) => a[i] = b[i]
    BY DEF Fit
  <2>3. a[1] = b[1] /\ a[2] = b[2] /\ a[3] = b[3]
    BY <2>1, <2>2
  <2>4. a = <<a[1], a[2], a[3]>> /\ b = <<b[1], b[2], b[3]>>
    BY <1>1, EntropyIs
  <2>5. QED
    BY <2>3, <2>4
<1>4. ASSUME NEW t \in T PROVE \E e \in S : f[e] = t
  <2> DEFINE From(i) == IF Draw!FixedAt(w, i) THEN t[i] ELSE d[i]
             x == From(1)  y == From(2)  z == From(3)  e == <<x, y, z>>
  <2>1. /\ t \in Draw!Entropies
        /\ t[1] \in Draw!Words /\ t[2] \in Draw!Words /\ t[3] \in 0 .. LastValues - 1
        /\ t = <<t[1], t[2], t[3]>>
    BY EntropyIs DEF Fit
  <2>2. d[1] \in Draw!Words /\ d[2] \in Draw!Words /\ d[3] \in 0 .. LastValues - 1
    BY EntropyIs
  <2>3. x \in Draw!Words /\ y \in Draw!Words /\ z \in 0 .. LastValues - 1
    BY <2>1, <2>2
  <2>4. \A i \in {1, 2, 3} : e[i] = From(i)
    <3> HIDE DEF x, y, z
    <3>1. e[1] = x /\ e[2] = y /\ e[3] = z
      OBVIOUS
    <3> HIDE DEF e
    <3>2. QED
      BY <3>1 DEF x, y, z
  <2>5. e \in Draw!Entropies
    <3> HIDE DEF x, y, z
    <3>1. QED
      BY <2>3 DEF Draw!Entropies
  <2> HIDE DEF e
  <2>6. e \in S
    BY <2>4, <2>5 DEF Fit
  <2>7. ASSUME NEW i \in {1, 2, 3} PROVE f[e][i] = t[i]
    <3>1. f[e][i] = Either(e, i)
      BY <1>1, <2>6
    <3>2. ~Draw!FixedAt(w, i) => t[i] = g[i]
      BY DEF Fit
    <3>3. QED
      BY <2>4, <3>1, <3>2
  <2>8. f[e] \in Draw!Entropies
    BY <1>1, <2>6 DEF Fit
  <2>9. f[e] = <<f[e][1], f[e][2], f[e][3]>>
    BY <2>8, EntropyIs
  <2>10. f[e] = t
    BY <2>1, <2>7, <2>9
  <2>11. QED
    BY <2>6, <2>10
<1>5. IsFiniteSet(S)
  BY FitIsFinite
<1> HIDE DEF S, T
<1>6. f \in Bijection(S, T)
  BY <1>2, <1>3, <1>4, Fun_IsBij
<1>7. Cardinality(T) = Cardinality(S)
  BY <1>5, <1>6, FS_Bijection DEF ExistsBijection
<1>8. QED
  BY <1>7 DEF S, T

(* A phrase has its entropy.                                               *)
LEMMA PhraseTells ==
  ASSUME NEW e, e[1] \in Draw!Words, e[2] \in Draw!Words, e[3] \in 0 .. LastValues - 1,
         NEW p, p = Draw!PhraseOf(e)
  PROVE  p[1] = e[1] /\ p[2] = e[2] /\ p[3] \div Checksums = e[3]
<1> DEFINE sum == e[1] + (e[1] \div 2) + e[2] + e[3]  c == Draw!Checksum(e)
<1>1. e[1] \in Nat /\ e[2] \in Nat /\ e[3] \in Nat
  BY DEF Draw!Words
<1>2. sum \in Nat
  BY <1>1
<1>3. c \in 0 .. Checksums - 1
  <2>1. c = sum % Checksums
    BY DEF Draw!Checksum
  <2> HIDE DEF sum
  <2>2. QED
    BY <1>2, <2>1, SizesAre, DividesTo
<1> HIDE DEF c
<1>4. p = <<e[1], e[2], e[3] * Checksums + c>>
  BY DEF Draw!PhraseOf, c
<1>5. (e[3] * Checksums + c) \div Checksums = e[3]
  BY <1>1, <1>3, SizesAre, DividesOnce
<1>6. QED
  BY <1>4, <1>5

LEMMA WishedMeets ==
  ASSUME WishIsAllowed, draw \notin {"begin", "refused"}, NEW p \in Draw!Wished
  PROVE  /\ Draw!MetBy(wish, p)
         /\ \A i \in {1, 2, 3} : Draw!FixedAt(wish, i) => p[i] = wish.chosen[1].word
<1>1. wish.chosen # <<>> => 1 \in DOMAIN wish.chosen
  BY ChosenIsOne DEF WishIsAllowed
<1>2. \A i \in DOMAIN wish.chosen :
        IF wish.chosen[i].at = 0 THEN \E k \in {1, 2, 3} : p[k] = wish.chosen[i].word
        ELSE p[wish.chosen[i].at] = wish.chosen[i].word
  BY DEF Draw!Wished, Draw!Positions, Draw!Anywhere
<1>3. \A i \in DOMAIN wish.never : \A k \in {1, 2, 3} : p[k] # wish.never[i]
  BY DEF Draw!Wished, Draw!Positions
<1>4. \A i \in {1, 2, 3} : Draw!FixedAt(wish, i) => p[i] = wish.chosen[1].word
  <2> SUFFICES ASSUME NEW i \in {1, 2, 3}, Draw!FixedAt(wish, i) PROVE p[i] = wish.chosen[1].word
    OBVIOUS
  <2>1. 1 \in DOMAIN wish.chosen /\ wish.chosen[1].at = i
    BY <1>1 DEF Draw!FixedAt
  <2>2. i # 0
    OBVIOUS
  <2>3. QED
    BY <1>2, <2>1, <2>2
<1>5. Draw!FixedAt(wish, 0) => \E k \in {1, 2, 3} : p[k] = wish.chosen[1].word
  <2> SUFFICES ASSUME Draw!FixedAt(wish, 0) PROVE \E k \in {1, 2, 3} : p[k] = wish.chosen[1].word
    OBVIOUS
  <2>1. 1 \in DOMAIN wish.chosen /\ wish.chosen[1].at = 0
    BY <1>1 DEF Draw!FixedAt
  <2>2. QED
    BY <1>2, <2>1
<1>6. Draw!Positions = {1, 2, 3} /\ Draw!Anywhere = 0
  BY DEF Draw!Positions, Draw!Anywhere
<1>7. Draw!MetBy(wish, p)
  BY <1>3, <1>4, <1>5, <1>6 DEF Draw!MetBy
<1>8. QED
  BY <1>4, <1>7

(* The entropies that give a phrase as wished.                             *)
LEMMA WaysAre ==
  ASSUME WishIsAllowed, draw \notin {"begin", "refused"}, NEW d \in Draw!Entropies,
         NEW p, p = Draw!PhraseOf(d), p \in Draw!Wished
  PROVE  Draw!Ways(p) = Cardinality(Fit(wish, d))
<1> DEFINE S == {e \in Draw!Entropies : Draw!PhraseOf(Draw!Apply(wish, e)) = p /\ Draw!MetBy(wish, p)}
<1>1. wish.chosen \in Seq([at : Nat, word : Nat]) /\ Draw!Allowed(wish)
  BY DEF WishIsAllowed
<1>2. /\ Draw!MetBy(wish, p)
      /\ \A i \in {1, 2, 3} : Draw!FixedAt(wish, i) => p[i] = wish.chosen[1].word
  BY WishedMeets
<1>3. d[1] \in Draw!Words /\ d[2] \in Draw!Words /\ d[3] \in 0 .. LastValues - 1
  BY EntropyIs
<1>4. p[1] = d[1] /\ p[2] = d[2] /\ p[3] \div Checksums = d[3]
  BY <1>3, PhraseTells
<1>5. ASSUME NEW e \in Draw!Entropies
      PROVE  Draw!PhraseOf(Draw!Apply(wish, e)) = p
               <=> \A i \in {1, 2, 3} : ~Draw!FixedAt(wish, i) => e[i] = d[i]
  <2> DEFINE a == Draw!Apply(wish, e)
  <2>1. /\ a[1] \in Draw!Words /\ a[2] \in Draw!Words /\ a[3] \in 0 .. LastValues - 1
        /\ \A i \in {1, 2, 3} : a[i] = IF ~Draw!FixedAt(wish, i) THEN e[i]
                                       ELSE IF i = 3 THEN wish.chosen[1].word \div Checksums
                                       ELSE wish.chosen[1].word
    BY <1>1, AppliedIs
  <2> HIDE DEF a
  <2>2. ASSUME Draw!PhraseOf(a) = p PROVE a[1] = d[1] /\ a[2] = d[2] /\ a[3] = d[3]
    <3>1. p[1] = a[1] /\ p[2] = a[2] /\ p[3] \div Checksums = a[3]
      BY <2>1, <2>2, PhraseTells
    <3>2. QED
      BY <1>4, <3>1
  <2>3. ASSUME a[1] = d[1], a[2] = d[2], a[3] = d[3] PROVE Draw!PhraseOf(a) = p
    BY <2>3 DEF Draw!PhraseOf, Draw!Checksum
  <2>4. \A i \in {1, 2, 3} : Draw!FixedAt(wish, i) => a[i] = d[i]
    <3>1. Draw!FixedAt(wish, 1) => a[1] = d[1]
      BY <1>2, <1>4, <2>1
    <3>2. Draw!FixedAt(wish, 2) => a[2] = d[2]
      BY <1>2, <1>4, <2>1
    <3>3. Draw!FixedAt(wish, 3) => a[3] = d[3]
      <4>1. Draw!FixedAt(wish, 3) => a[3] = wish.chosen[1].word \div Checksums /\ p[3] = wish.chosen[1].word
        BY <1>2, <2>1
      <4>2. QED
        BY <1>4, <4>1
    <3>4. QED
      BY <3>1, <3>2, <3>3
  <2>5. \A i \in {1, 2, 3} : ~Draw!FixedAt(wish, i) => a[i] = e[i]
    BY <2>1
  <2>6. Draw!PhraseOf(a) = p <=> \A i \in {1, 2, 3} : a[i] = d[i]
    BY <2>2, <2>3
  <2>7. (\A i \in {1, 2, 3} : a[i] = d[i]) <=> \A i \in {1, 2, 3} : ~Draw!FixedAt(wish, i) => e[i] = d[i]
    BY <2>4, <2>5
  <2>8. QED
    BY <2>6, <2>7 DEF a
<1>6. S = Fit(wish, d)
  BY <1>2, <1>5 DEF Fit
<1>7. Draw!Ways(p) = Cardinality(S)
  BY SameCount DEF Draw!Ways
<1>8. QED
  BY <1>6, <1>7

LEMMA WaysAreWished ==
  ASSUME WishIsAllowed, draw \notin {"begin", "refused"}, NEW p, Draw!Ways(p) > 0
  PROVE  p \in Draw!Wished
<1> DEFINE S == {e \in Draw!Entropies : Draw!PhraseOf(Draw!Apply(wish, e)) = p /\ Draw!MetBy(wish, p)}
<1>1. S # {}
  <2> SUFFICES ASSUME S = {} PROVE FALSE
    OBVIOUS
  <2>1. Draw!Ways(p) = Cardinality(S)
    BY SameCount DEF Draw!Ways
  <2>2. Cardinality(S) = 0
    BY FS_EmptySet
  <2>3. QED
    BY <2>1, <2>2
<1>2. PICK e \in Draw!Entropies : Draw!PhraseOf(Draw!Apply(wish, e)) = p /\ Draw!MetBy(wish, p)
  BY <1>1
<1>3. QED
  BY <1>2, MetIsWished

LEMMA PhrasesFair ==
  ASSUME WishIsAllowed
  PROVE  Draw!EveryPhraseIsAsLikely
<1> SUFFICES ASSUME draw = "ready"
             PROVE  /\ \A p, q \in Draw!Wished : Draw!Ways(p) = Draw!Ways(q) /\ Draw!Ways(p) > 0
                    /\ \A e \in Draw!Entropies : Draw!Ways(Draw!PhraseOf(e)) > 0 =>
                         Draw!PhraseOf(e) \in Draw!Wished
  BY DEF Draw!EveryPhraseIsAsLikely
<1>1. ASSUME NEW p \in Draw!Wished, NEW q \in Draw!Wished
      PROVE  Draw!Ways(p) = Draw!Ways(q) /\ Draw!Ways(p) > 0
  <2>1. PICK d \in Draw!Entropies : p = Draw!PhraseOf(d)
    BY DEF Draw!Wished
  <2>2. PICK g \in Draw!Entropies : q = Draw!PhraseOf(g)
    BY DEF Draw!Wished
  <2>3. Draw!Ways(p) = Cardinality(Fit(wish, d)) /\ Draw!Ways(q) = Cardinality(Fit(wish, g))
    BY <2>1, <2>2, WaysAre
  <2>4. Cardinality(Fit(wish, d)) = Cardinality(Fit(wish, g))
    BY FitAsMany
  <2>5. Cardinality(Fit(wish, d)) > 0
    BY FitIsFinite
  <2>6. QED
    BY <2>3, <2>4, <2>5
<1>2. ASSUME NEW e \in Draw!Entropies, Draw!Ways(Draw!PhraseOf(e)) > 0
      PROVE  Draw!PhraseOf(e) \in Draw!Wished
  BY <1>2, WaysAreWished
<1>3. QED
  BY <1>1, <1>2

(* A phrase is given, shown or sealed only as it was asked for: with the   *)
(* words chosen and without those never to use, passing the check with the *)
(* passphrase typed, from a source that its probes found alive; a draw     *)
(* ends at its limit, and the caller heard of it in time to stop it.  And  *)
(* it is as likely as any other that the wishes leave, no other being      *)
(* kept: as many entropies give the one as the other, whatever the sizes   *)
(* of the list and of the checksum; a number below a bound comes from as   *)
(* many values as any other, for every bound.                              *)
THEOREM DrawsAreSound == PartsSpec => []DrawIsSound
<1>1. (running = "draw" => DrawInv) => DrawIsSound
  BY DrawTells, PhrasesFair, NumbersFair DEF DrawIsSound, DrawInv, Draw!EvenDraws
<1>2. QED
  BY <1>1, DrawHolds, PTL

-----------------------------------------------------------------------------
(* The search of an address.                                               *)

(* Induction to a bound.                                                   *)
LEMMA HasAll ==
  ASSUME NEW n \in Nat, NEW S, 0 \in S, \A k \in 0..n : k < n /\ k \in S => k + 1 \in S
  PROVE  \A k \in 0..n : k \in S
<1> DEFINE T == {k \in 0..n : k \notin S}
<1>1. ASSUME T # {} PROVE FALSE
  <2>1. T \in SUBSET Nat
    OBVIOUS
  <2>2. PICK k \in T : \A y \in T : k <= y
    BY <1>1, <2>1, HasLeast
  <2>3. k \in 0..n /\ k \notin S /\ k # 0
    BY <2>2
  <2>4. k - 1 \in 0..n /\ k - 1 < n /\ k - 1 + 1 = k /\ ~(k <= k - 1)
    BY <2>3
  <2>5. k - 1 \in S
    BY <2>2, <2>4
  <2>6. QED
    BY <2>3, <2>4, <2>5
<1>2. QED
  BY <1>1

(* The function that the ones kept are defined by.                         *)
Keeps(s, T, n, g) ==
  g = [k \in 0..n |-> IF k = 0 THEN <<>>
                      ELSE IF s[k] \in T THEN Append(g[k - 1], s[k]) ELSE g[k - 1]]

LEMMA KeepingGoesOn ==
  ASSUME NEW s, NEW T, NEW n \in Nat, NEW g, Keeps(s, T, n, g)
  PROVE  \E h : Keeps(s, T, n + 1, h)
<1> DEFINE last == IF s[n + 1] \in T THEN Append(g[n], s[n + 1]) ELSE g[n]
           h == [k \in 0..(n + 1) |-> IF k = n + 1 THEN last ELSE g[k]]
<1>1. \A k \in 0..n : g[k] = IF k = 0 THEN <<>>
                             ELSE IF s[k] \in T THEN Append(g[k - 1], s[k]) ELSE g[k - 1]
  BY DEF Keeps
<1>2. \A k \in 0..n : k \in 0..(n + 1) /\ k # n + 1 /\ h[k] = g[k]
  OBVIOUS
<1>3. h[n + 1] = last /\ n + 1 - 1 = n /\ n \in 0..n
  OBVIOUS
<1>4. h[n + 1] = IF s[n + 1] \in T THEN Append(h[n], s[n + 1]) ELSE h[n]
  BY <1>2, <1>3
<1>5. ASSUME NEW k \in 0..(n + 1)
      PROVE  h[k] = IF k = 0 THEN <<>>
                    ELSE IF s[k] \in T THEN Append(h[k - 1], s[k]) ELSE h[k - 1]
  <2>1. CASE k = n + 1
    BY <1>3, <1>4, <2>1
  <2>2. CASE k = 0
    BY <1>1, <1>2, <2>2
  <2>3. CASE k # n + 1 /\ k # 0
    <3>1. k \in 0..n /\ k - 1 \in 0..n
      BY <2>3
    <3>2. QED
      BY <1>1, <1>2, <2>3, <3>1
  <2>4. QED
    BY <2>1, <2>2, <2>3
<1>6. h = [k \in 0..(n + 1) |-> h[k]]
  OBVIOUS
<1> HIDE DEF h
<1>7. Keeps(s, T, n + 1, h)
  BY <1>5, <1>6 DEF Keeps
<1>8. QED
  BY <1>7

LEMMA KeepingIs ==
  ASSUME NEW s, NEW T, NEW n \in Nat
  PROVE  \E g : Keeps(s, T, n, g)
<1> DEFINE S == {k \in 0..n : \E g : Keeps(s, T, k, g)}
<1>1. 0 \in S
  <2>1. 0..0 = {0} /\ 0 \in 0..n
    OBVIOUS
  <2>2. Keeps(s, T, 0, [k \in {0} |-> <<>>])
    BY <2>1 DEF Keeps
  <2>3. QED
    BY <2>1, <2>2
<1>2. \A k \in 0..n : k < n /\ k \in S => k + 1 \in S
  BY KeepingGoesOn
<1>3. \A k \in 0..n : k \in S
  <2> HIDE DEF S
  <2>1. QED
    BY <1>1, <1>2, HasAll
<1>4. QED
  BY <1>3

(* Those kept of a sequence without repetition are its members in the set, *)
(* each once.                                                              *)
Once(s) == \A i, j \in DOMAIN s : s[i] = s[j] => i = j
Members(s) == {s[i] : i \in DOMAIN s}

KeptTo(s, T, k, t) ==
  /\ t \in Seq(Members(s) \cap T)
  /\ \A i \in 1..k : s[i] \in T => \E j \in DOMAIN t : t[j] = s[i]
  /\ \A j \in DOMAIN t : \E i \in 1..k : t[j] = s[i]
  /\ Once(s) => Once(t)

LEMMA OneMoreKept ==
  ASSUME NEW S, NEW s \in Seq(S), NEW T, NEW k \in Nat, k < Len(s), NEW t, KeptTo(s, T, k, t),
         s[k + 1] \in T
  PROVE  KeptTo(s, T, k + 1, Append(t, s[k + 1]))
<1> DEFINE x == s[k + 1]  M == Members(s) \cap T  u == Append(t, x)
<1>1. k + 1 \in DOMAIN s /\ DOMAIN s = 1..Len(s) /\ \A i \in 1..k : i \in DOMAIN s /\ i # k + 1
  OBVIOUS
<1>2. x \in M
  BY <1>1 DEF Members
<1>3. t \in Seq(M)
  BY DEF KeptTo
<1> HIDE DEF x, M
<1>4. /\ u \in Seq(M) /\ Len(u) = Len(t) + 1 /\ Len(t) \in Nat /\ u[Len(t) + 1] = x
      /\ \A j \in 1..Len(t) : u[j] = t[j]
      /\ DOMAIN t = 1..Len(t) /\ DOMAIN u = 1..(Len(t) + 1)
  BY <1>2, <1>3
<1>5. ASSUME NEW i \in 1..(k + 1), s[i] \in T
      PROVE  \E j \in DOMAIN u : u[j] = s[i]
  <2>1. CASE i = k + 1
    BY <1>4, <2>1 DEF x
  <2>2. CASE i # k + 1
    <3>1. i \in 1..k
      BY <2>2
    <3>2. PICK j \in DOMAIN t : t[j] = s[i]
      BY <1>5, <3>1 DEF KeptTo
    <3>3. j \in DOMAIN u /\ u[j] = t[j]
      BY <1>4
    <3>4. QED
      BY <3>2, <3>3
  <2>3. QED
    BY <2>1, <2>2
<1>6. ASSUME NEW j \in DOMAIN u
      PROVE  \E i \in 1..(k + 1) : u[j] = s[i]
  <2>1. CASE j = Len(t) + 1
    <3>1. k + 1 \in 1..(k + 1)
      OBVIOUS
    <3>2. QED
      BY <1>4, <2>1, <3>1 DEF x
  <2>2. CASE j # Len(t) + 1
    <3>1. j \in DOMAIN t /\ u[j] = t[j]
      BY <1>4, <2>2
    <3>2. PICK i \in 1..k : t[j] = s[i]
      BY <3>1 DEF KeptTo
    <3>3. i \in 1..(k + 1)
      OBVIOUS
    <3>4. QED
      BY <3>1, <3>2, <3>3
  <2>3. QED
    BY <2>1, <2>2
<1>7. ASSUME Once(s) PROVE Once(u)
  <2>1. Once(t)
    BY <1>7 DEF KeptTo
  <2>2. \A j \in DOMAIN t : t[j] # x
    BY <1>1, <1>7 DEF KeptTo, Once, x
  <2>3. SUFFICES ASSUME NEW i \in DOMAIN u, NEW j \in DOMAIN u, u[i] = u[j] PROVE i = j
    BY DEF Once
  <2>4. i \in DOMAIN t \/ i = Len(t) + 1
    BY <1>4
  <2>5. j \in DOMAIN t \/ j = Len(t) + 1
    BY <1>4
  <2>6. QED
    BY <1>4, <2>1, <2>2, <2>3, <2>4, <2>5 DEF Once
<1>8. QED
  BY <1>4, <1>5, <1>6, <1>7 DEF KeptTo, x, M

LEMMA NoMoreKept ==
  ASSUME NEW S, NEW s \in Seq(S), NEW T, NEW k \in Nat, k < Len(s), NEW t, KeptTo(s, T, k, t),
         s[k + 1] \notin T
  PROVE  KeptTo(s, T, k + 1, t)
<1>1. \A i \in 1..(k + 1) : i \in 1..k \/ i = k + 1
  OBVIOUS
<1>2. \A i \in 1..k : i \in 1..(k + 1)
  OBVIOUS
<1>3. QED
  BY <1>1, <1>2 DEF KeptTo

LEMMA NoneKept == \A s, T : KeptTo(s, T, 0, <<>>)
<1> SUFFICES ASSUME NEW s, NEW T PROVE KeptTo(s, T, 0, <<>>)
  OBVIOUS
<1> DEFINE M == Members(s) \cap T
<1>1. <<>> \in Seq(M) /\ DOMAIN <<>> = {} /\ 1..0 = {}
  OBVIOUS
<1> HIDE DEF M
<1>2. QED
  BY <1>1 DEF KeptTo, Once, M

LEMMA KeptIs ==
  ASSUME NEW S, NEW s \in Seq(S), NEW T
  PROVE  KeptTo(s, T, Len(s), Search!Kept(s, T))
<1> DEFINE n == Len(s)
           g == CHOOSE x : Keeps(s, T, n, x)
           R == {k \in 0..n : KeptTo(s, T, k, g[k])}
<1>1. n \in Nat
  OBVIOUS
<1>2. Keeps(s, T, n, g)
  BY <1>1, KeepingIs
<1>3. Search!Kept(s, T) = g[n]
  BY DEF Search!Kept, Keeps
<1> HIDE DEF g
<1>4. \A k \in 0..n : g[k] = IF k = 0 THEN <<>>
                             ELSE IF s[k] \in T THEN Append(g[k - 1], s[k]) ELSE g[k - 1]
  BY <1>2 DEF Keeps
<1>5. 0 \in R
  <2>1. g[0] = <<>> /\ 0 \in 0..n
    BY <1>1, <1>4
  <2>2. QED
    BY <2>1, NoneKept
<1>6. ASSUME NEW k \in 0..n, k < n, k \in R
      PROVE  k + 1 \in R
  <2>1. k + 1 \in 0..n /\ k \in Nat /\ k + 1 # 0 /\ k + 1 - 1 = k
    BY <1>1, <1>6
  <2>2. g[k + 1] = IF s[k + 1] \in T THEN Append(g[k], s[k + 1]) ELSE g[k]
    BY <1>4, <2>1
  <2>3. KeptTo(s, T, k, g[k])
    BY <1>6
  <2>4. KeptTo(s, T, k + 1, g[k + 1])
    BY <1>6, <2>1, <2>2, <2>3, OneMoreKept, NoMoreKept
  <2>5. QED
    BY <2>1, <2>4
<1>7. \A k \in 0..n : k \in R
  <2> HIDE DEF R
  <2>1. QED
    BY <1>1, <1>5, <1>6, HasAll
<1>8. n \in 0..n
  BY <1>1
<1>9. QED
  BY <1>3, <1>7, <1>8

(* The keys of a root, and the path that a number stands for.              *)
Each == 2 * Accounts * Indexes

LEMMA EachIs == /\ Accounts \in Nat \ {0} /\ Indexes \in Nat \ {0}
                /\ Each \in Nat \ {0} /\ 2 * Indexes \in Nat \ {0}
                /\ Each = Accounts * (2 * Indexes)
<1>1. Accounts \in Nat \ {0} /\ Indexes \in Nat \ {0}
  BY SearchAssumption
<1>2. Accounts * Indexes \in Nat \ {0}
  <2>1. 0 * Indexes + Indexes <= Accounts * Indexes
    BY <1>1, TimesGrows
  <2>2. QED
    BY <1>1, <2>1
<1>3. Each = 2 * (Accounts * Indexes) /\ Each = Accounts * (2 * Indexes)
  BY <1>1 DEF Each
<1>4. QED
  BY <1>1, <1>2, <1>3

PlaceOf(k, a, c, x) == ((k * Accounts + a) * 2 + c) * Indexes + x

LEMMA PlaceIs ==
  ASSUME NEW k \in Nat, NEW a \in 0..(Accounts - 1), NEW c \in {0, 1}, NEW x \in 0..(Indexes - 1)
  PROVE  /\ PlaceOf(k, a, c, x) \in Nat /\ PlaceOf(k, a, c, x) < k * Each + Each
         /\ PlaceOf(k, a, c, x) \div Each = k
         /\ (PlaceOf(k, a, c, x) \div (2 * Indexes)) % Accounts = a
         /\ (PlaceOf(k, a, c, x) \div Indexes) % 2 = c /\ PlaceOf(k, a, c, x) % Indexes = x
<1> DEFINE w == k * Accounts + a
           v == w * 2 + c
           y == c * Indexes + x
           z == a * (2 * Indexes) + y
           n == PlaceOf(k, a, c, x)
<1>0. n = v * Indexes + x
  BY DEF PlaceOf
<1> HIDE DEF n
<1>1. /\ Accounts \in Nat \ {0} /\ Indexes \in Nat \ {0} /\ Each \in Nat \ {0}
      /\ 2 * Indexes \in Nat \ {0} /\ Each = Accounts * (2 * Indexes)
  BY EachIs
<1>2. a \in Nat /\ x \in Nat /\ c \in Nat /\ w \in Nat /\ v \in Nat /\ n \in Nat
  BY <1>0, <1>1
<1>3. y \in 0..(2 * Indexes - 1)
  BY <1>1, <1>2
<1>4. n = w * (2 * Indexes) + y
  BY <1>0, <1>1, <1>2
<1>5. n = k * Each + z
  <2>1. w * (2 * Indexes) = k * Accounts * (2 * Indexes) + a * (2 * Indexes)
    BY <1>1, <1>2
  <2>2. k * Accounts * (2 * Indexes) = k * (Accounts * (2 * Indexes))
    BY <1>1
  <2>3. k * Each \in Nat /\ a * (2 * Indexes) \in Nat
    BY <1>1, <1>2
  <2>4. QED
    BY <1>1, <1>2, <1>3, <1>4, <2>1, <2>2, <2>3
<1>6. z \in 0..(Each - 1)
  <2>1. a * (2 * Indexes) + 2 * Indexes <= Accounts * (2 * Indexes)
    BY <1>1, <1>2, TimesGrows
  <2>2. a * (2 * Indexes) \in Nat
    BY <1>1, <1>2
  <2>3. QED
    BY <1>1, <1>3, <2>1, <2>2
<1> HIDE DEF y, z
<1>7. n \div Each = k /\ n < k * Each + Each
  <2>1. k * Each \in Nat
    BY <1>1
  <2>2. QED
    BY <1>1, <1>5, <1>6, <2>1, DividesOnce
<1>8. n \div (2 * Indexes) = w
  BY <1>1, <1>2, <1>3, <1>4, DividesOnce
<1>9. w % Accounts = a
  BY <1>1, DividesOnce
<1>10. n \div Indexes = v /\ n % Indexes = x
  BY <1>0, <1>1, <1>2, DividesOnce
<1>11. v % 2 = c
  BY <1>2
<1>12. QED
  BY <1>2, <1>7, <1>8, <1>9, <1>10, <1>11 DEF n

LEMMA PlaceBounds ==
  ASSUME NEW m \in Nat, NEW n \in Nat, n < m * Each
  PROVE  /\ n \div Each \in 0..(m - 1)
         /\ (n \div (2 * Indexes)) % Accounts \in 0..(Accounts - 1)
         /\ (n \div Indexes) % 2 \in {0, 1}
         /\ n % Indexes \in 0..(Indexes - 1)
<1> DEFINE q == n \div Each  r == n % Each
<1>1. /\ Accounts \in Nat \ {0} /\ Indexes \in Nat \ {0} /\ Each \in Nat \ {0}
      /\ 2 * Indexes \in Nat \ {0}
  BY EachIs
<1>2. q \in Nat /\ n = q * Each + r /\ r \in Nat
  BY <1>1, DividesTo
<1>3. q * Each \in Nat /\ m * Each \in Nat
  BY <1>1, <1>2
<1> HIDE DEF q, r
<1>4. ~(m + 1 <= q) /\ m # q
  <2>1. ASSUME m + 1 <= q PROVE FALSE
    <3>1. m * Each + Each <= q * Each
      BY <1>1, <1>2, <2>1, TimesGrows
    <3>2. QED
      BY <1>1, <1>2, <1>3, <3>1
  <2>2. ASSUME m = q PROVE FALSE
    <3>1. n < q * Each
      BY <2>2
    <3>2. QED
      BY <1>2, <1>3, <3>1
  <2>3. QED
    BY <2>1, <2>2
<1>5. q \in 0..(m - 1)
  BY <1>2, <1>4
<1>6. n \div (2 * Indexes) \in Nat /\ n \div Indexes \in Nat
  BY <1>1
<1>7. (n \div (2 * Indexes)) % Accounts \in 0..(Accounts - 1)
  BY <1>1, <1>6
<1>8. (n \div Indexes) % 2 \in {0, 1} /\ n % Indexes \in 0..(Indexes - 1)
  BY <1>1, <1>6
<1>9. QED
  BY <1>5, <1>7, <1>8 DEF q

(* An address tells its kind by its form, whichever coin it is of.         *)
CoinNames == {"bitcoin", "bitcoin-cash", "cosmos", "dash", "dogecoin", "ethereum",
              "ethereum-classic", "injective", "litecoin", "tron", "xrp", "zcash"}

LEMMA CoinsAre == Search!AllCoins = CoinNames /\ Search!Coins \in Seq(Search!AllCoins)
<1>1. \A c \in Search!AllCoins : c \in CoinNames
  BY DEF Search!AllCoins, Search!Coins, CoinNames
<1>2. \A c \in CoinNames : c \in Search!AllCoins
  BY DEF Search!AllCoins, Search!Coins, CoinNames
<1>3. Search!Coins \in Seq(Search!AllCoins)
  BY DEF Search!AllCoins, Search!Coins
<1>4. QED
  BY <1>1, <1>2, <1>3

Base58Forms == {"1", "3", "m", "2", "L", "M", "X", "D", "t1", "r", "T"}
EitherForms == {"bc1q", "bc1p", "tb1q", "tb1p", "ltc1q", "0x", "cosmos1", "inj1", "bitcoincash:q",
                "q", "dash1k", "tdash1k"}
TypeOf(look) ==
  IF look \in {"3", "2", "M"} THEN "P2shP2wpkh"
  ELSE IF look \in {"bc1q", "tb1q", "ltc1q"} THEN "P2wpkh"
  ELSE IF look \in {"bc1p", "tb1p"} THEN "P2tr"
  ELSE IF look \in {"T", "0x", "inj1"} THEN "Keccak"
  ELSE IF look \in {"dash1k", "tdash1k"} THEN "DashPlatform"
  ELSE "P2pkh"
TestForms == {"m", "2", "tb1q", "tb1p", "tdash1k"}

IsKind(k, forms) ==
  /\ k.form \in forms /\ k.type = TypeOf(k.form)
  /\ \/ k.form \in TestForms /\ k.testnet = TRUE
     \/ k.form \notin TestForms /\ k.testnet = FALSE

LEMMA KindsAre ==
  ASSUME NEW c_ \in Search!AllCoins
  PROVE  /\ \A k \in Search!SegwitKinds(c_) \cup Search!AccountKinds(c_) \cup Search!HexKinds(c_)
                      \cup Search!CashAddrKinds(c_) \cup Search!PlatformKinds(c_) :
              IsKind(k, EitherForms)
         /\ \A k \in Search!Base58Versions(c_) : IsKind(k, Base58Forms)
<1>1. c_ \in CoinNames
  BY CoinsAre
<1>2. \A k \in Search!SegwitKinds(c_) : IsKind(k, EitherForms)
  BY <1>1 DEF CoinNames, Search!SegwitKinds, Search!Kind, Search!TestKind, EitherForms, IsKind,
     TestForms, TypeOf
<1>3. \A k \in Search!AccountKinds(c_) : IsKind(k, EitherForms)
  BY <1>1 DEF CoinNames, Search!AccountKinds, Search!Kind, Search!TestKind, EitherForms, IsKind,
     TestForms, TypeOf
<1>4. \A k \in Search!HexKinds(c_) : IsKind(k, EitherForms)
  BY <1>1 DEF CoinNames, Search!HexKinds, Search!Kind, Search!TestKind, EitherForms, IsKind,
     TestForms, TypeOf
<1>5. \A k \in Search!CashAddrKinds(c_) : IsKind(k, EitherForms)
  BY <1>1 DEF CoinNames, Search!CashAddrKinds, Search!Kind, Search!TestKind, EitherForms, IsKind,
     TestForms, TypeOf
<1>6. \A k \in Search!PlatformKinds(c_) : IsKind(k, EitherForms)
  BY <1>1 DEF CoinNames, Search!PlatformKinds, Search!Kind, Search!TestKind, EitherForms, IsKind,
     TestForms, TypeOf
<1>7. \A k \in Search!Base58Versions(c_) : IsKind(k, Base58Forms)
  BY <1>1 DEF CoinNames, Search!Base58Versions, Search!Kind, Search!TestKind, Base58Forms, IsKind,
     TestForms, TypeOf
<1>8. QED
  BY <1>2, <1>3, <1>4, <1>5, <1>6, <1>7

LEMMA SecondOf == \A x, y : <<x, y>>[2] = y
  OBVIOUS

(* The target is an address shown, perhaps changed, or has no kind.        *)
IsShown(c_, k_, u_, account, chain, index) ==
  /\ c_ \in Search!AllCoins /\ k_ \in Search!Kinds(c_) /\ u_ \in Search!TypesUsed(c_, k_.testnet)
  /\ account \in Nat /\ chain \in {0, 1} /\ index \in Nat
  /\ target.coin = c_ /\ target.form = k_.form /\ target.class = Search!Class(k_.type)
  /\ target.path = Search!Path(Search!Root(k_.type, u_), account, Search!Hardened(k_.type), chain, index)

LEMMA SearchableIs ==
  ASSUME NEW s_ \in Search!Searchable
  PROVE  \E c_ \in Search!AllCoins : \E k_ \in Search!Kinds(c_) :
           \E u_ \in Search!TypesUsed(c_, k_.testnet), account \in 0..Accounts, chain \in {0, 1},
              index \in 0..Indexes :
             s_ = [coin |-> c_, form |-> k_.form, change |-> "none",
                   class |-> Search!Class(k_.type),
                   path |-> Search!Path(Search!Root(k_.type, u_), account,
                                        Search!Hardened(k_.type), chain, index)]
<1>1. PICK c_ \in Search!AllCoins :
        s_ \in UNION {{[coin |-> c_, form |-> kind.form, change |-> "none",
                        class |-> Search!Class(kind.type),
                        path |-> Search!Path(Search!Root(kind.type, u_), account,
                                             Search!Hardened(kind.type), chain, index)] :
                   u_ \in Search!TypesUsed(c_, kind.testnet), account \in 0 .. Accounts,
                   chain \in {0, 1}, index \in 0 .. Indexes} : kind \in Search!Kinds(c_)}
  BY DEF Search!Searchable
<1>2. PICK kind \in Search!Kinds(c_) :
        s_ \in {[coin |-> c_, form |-> kind.form, change |-> "none",
                        class |-> Search!Class(kind.type),
                        path |-> Search!Path(Search!Root(kind.type, u_), account,
                                             Search!Hardened(kind.type), chain, index)] :
                   u_ \in Search!TypesUsed(c_, kind.testnet), account \in 0 .. Accounts,
                   chain \in {0, 1}, index \in 0 .. Indexes}
  BY <1>1
<1>3. QED
  BY <1>2

LEMMA TargetIs ==
  ASSUME target \in Search!Targets
  PROVE  \/ \E c_, k_, u_, account, chain, index : IsShown(c_, k_, u_, account, chain, index)
         \/ /\ target.class = "none" /\ target.form \notin EitherForms \cup Base58Forms
            /\ target.path = Search!Path(<<>>, 0, FALSE, 0, 0)
<1>1. \/ target \in Search!Searchable
      \/ \E shown \in Search!Searchable : \E change \in Search!Changes :
           target = [shown EXCEPT !.change = change]
      \/ \E other \in Search!Unsearchable :
           target = [coin |-> other[1], form |-> other[2], change |-> "none", class |-> "none",
                     path |-> Search!Path(<<>>, 0, FALSE, 0, 0)]
  <2> DEFINE none == Search!Path(<<>>, 0, FALSE, 0, 0)
             Fewer == {each \in Search!Searchable : each.path.account = 0 /\ each.path.index = 0}
             Changed == {[shown EXCEPT !.change = change] : shown \in Fewer, change \in Search!Changes}
             Others == {[coin |-> other[1], form |-> other[2], change |-> "none", class |-> "none",
                         path |-> none] : other \in Search!Unsearchable}
  <2>1. target \in Search!Searchable \cup Changed \cup Others
    <3>1. Search!Targets = Search!Searchable \cup Changed \cup Others
      BY DEF Search!Targets
    <3> HIDE DEF Changed, Others
    <3>2. QED
      BY <3>1
  <2> HIDE DEF none
  <2>2. ASSUME target \in Changed
        PROVE  \E shown \in Search!Searchable : \E change \in Search!Changes :
                 target = [shown EXCEPT !.change = change]
    <3>1. \E shown \in Fewer, change \in Search!Changes : target = [shown EXCEPT !.change = change]
      BY <2>2
    <3>2. Fewer \subseteq Search!Searchable
      OBVIOUS
    <3> HIDE DEF Fewer
    <3>3. QED
      BY <3>1, <3>2
  <2>3. ASSUME target \in Others
        PROVE  \E other \in Search!Unsearchable :
                 target = [coin |-> other[1], form |-> other[2], change |-> "none", class |-> "none",
                           path |-> none]
    BY <2>3
  <2> HIDE DEF Changed, Others
  <2>4. QED
    BY <2>1, <2>2, <2>3, Zenon DEF none
<1>2. ASSUME NEW shown \in Search!Searchable, target.coin = shown.coin, target.form = shown.form,
             target.class = shown.class, target.path = shown.path
      PROVE  \E c_, k_, u_, account, chain, index : IsShown(c_, k_, u_, account, chain, index)
  <2>0. PICK c_ \in Search!AllCoins : \E k_ \in Search!Kinds(c_) :
           \E u_ \in Search!TypesUsed(c_, k_.testnet), account \in 0..Accounts, chain \in {0, 1},
              index \in 0..Indexes :
             shown = [coin |-> c_, form |-> k_.form, change |-> "none",
                      class |-> Search!Class(k_.type),
                      path |-> Search!Path(Search!Root(k_.type, u_), account,
                                           Search!Hardened(k_.type), chain, index)]
    BY SearchableIs
  <2>a. PICK k_ \in Search!Kinds(c_) :
           \E u_ \in Search!TypesUsed(c_, k_.testnet), account \in 0..Accounts, chain \in {0, 1},
              index \in 0..Indexes :
             shown = [coin |-> c_, form |-> k_.form, change |-> "none",
                      class |-> Search!Class(k_.type),
                      path |-> Search!Path(Search!Root(k_.type, u_), account,
                                           Search!Hardened(k_.type), chain, index)]
    BY <2>0
  <2>1. PICK u_ \in Search!TypesUsed(c_, k_.testnet), account \in 0..Accounts, chain \in {0, 1},
             index \in 0..Indexes :
             shown = [coin |-> c_, form |-> k_.form, change |-> "none",
                      class |-> Search!Class(k_.type),
                      path |-> Search!Path(Search!Root(k_.type, u_), account,
                                           Search!Hardened(k_.type), chain, index)]
    BY <2>a
  <2>2. account \in Nat /\ index \in Nat
    BY SearchAssumption
  <2>3. /\ shown.coin = c_ /\ shown.form = k_.form /\ shown.class = Search!Class(k_.type)
        /\ shown.path = Search!Path(Search!Root(k_.type, u_), account,
                                    Search!Hardened(k_.type), chain, index)
    BY <2>1
  <2>4. IsShown(c_, k_, u_, account, chain, index)
    BY <1>2, <2>2, <2>3 DEF IsShown
  <2>5. QED
    BY <2>4
<1>3. CASE target \in Search!Searchable
  BY <1>2, <1>3
<1>4. CASE \E shown \in Search!Searchable : \E change \in Search!Changes :
             target = [shown EXCEPT !.change = change]
  <2>1. PICK shown \in Search!Searchable, change \in Search!Changes :
          target = [shown EXCEPT !.change = change]
    BY <1>4
  <2>2. PICK c_, k_, p_, l_ : shown = [coin |-> c_, form |-> k_, change |-> "none", class |-> l_,
                                       path |-> p_]
    BY SearchableIs
  <2>3. /\ target.coin = shown.coin /\ target.form = shown.form
        /\ target.class = shown.class /\ target.path = shown.path
    BY <2>1, <2>2
  <2>4. QED
    BY <1>2, <2>3
<1>5. CASE \E other \in Search!Unsearchable :
             target = [coin |-> other[1], form |-> other[2], change |-> "none", class |-> "none",
                       path |-> Search!Path(<<>>, 0, FALSE, 0, 0)]
  <2>1. PICK other \in Search!Unsearchable :
             target = [coin |-> other[1], form |-> other[2], change |-> "none", class |-> "none",
                       path |-> Search!Path(<<>>, 0, FALSE, 0, 0)]
    BY <1>5
  <2>2. target.class = "none" /\ target.form = other[2] /\ target.path = Search!Path(<<>>, 0, FALSE, 0, 0)
    BY <2>1
  <2>3. other[2] \in {"zs1", "dash1z", "bc1q of a script", "bitcoincash:p"}
    BY SecondOf, Zenon DEF Search!Unsearchable
  <2>4. other[2] \notin EitherForms \cup Base58Forms
    BY <2>3, Zenon DEF EitherForms, Base58Forms
  <2>5. QED
    BY <2>2, <2>4
<1>6. QED
  BY <1>1, <1>3, <1>4, <1>5

LEMMA ParsedHasKind ==
  ASSUME NEW c_ \in Search!AllCoins, NEW a_ \in Search!Parse(c_, target)
  PROVE  /\ a_.coin = c_ /\ a_.type = TypeOf(target.form)
         /\ \/ target.form \in TestForms /\ a_.testnet = TRUE
            \/ target.form \notin TestForms /\ a_.testnet = FALSE
         /\ \/ target.form \in EitherForms /\ target.change \in {"none", "capitals"}
            \/ target.form \in Base58Forms /\ target.change = "none"
<1> DEFINE found_ == Search!ParseSegwit(c_, target) \cup Search!ParseBase58(c_, target)
                \cup Search!ParseAccount(c_, target) \cup Search!ParseHex(c_, target)
                \cup Search!ParseCashAddr(c_, target) \cup Search!ParsePlatform(c_, target)
<1>1. PICK k \in found_ : a_ = [coin |-> c_, type |-> k.type, testnet |-> k.testnet]
  BY DEF Search!Parse
<1>2. \/ /\ k \in Search!SegwitKinds(c_) \cup Search!AccountKinds(c_) \cup Search!HexKinds(c_)
                      \cup Search!CashAddrKinds(c_) \cup Search!PlatformKinds(c_)
         /\ k.form = target.form /\ target.change \in {"none", "capitals"}
      \/ /\ k \in Search!Base58Versions(c_)
         /\ k.form = target.form /\ target.change = "none"
  BY <1>1 DEF Search!ParseSegwit, Search!ParseBase58, Search!ParseAccount, Search!ParseHex,
     Search!ParseCashAddr, Search!ParsePlatform, Search!ReadBy, Search!EitherCase
<1>3. a_.coin = c_ /\ a_.type = k.type /\ a_.testnet = k.testnet
  BY <1>1
<1>4. \/ IsKind(k, EitherForms) /\ k.form = target.form /\ target.change \in {"none", "capitals"}
      \/ IsKind(k, Base58Forms) /\ k.form = target.form /\ target.change = "none"
  BY <1>2, KindsAre
<1>5. QED
  BY <1>3, <1>4, Zenon DEF IsKind

LEMMA AllKindsAre ==
  ASSUME NEW c_ \in Search!AllCoins, NEW k_ \in Search!Kinds(c_)
  PROVE  IsKind(k_, EitherForms) \/ IsKind(k_, Base58Forms)
  BY KindsAre DEF Search!Kinds

LEMMA ClassIsKnown ==
  \A look : Search!Class(TypeOf(look)) # "none"
  BY DEF TypeOf, Search!Class

LEMMA FormsApart == EitherForms \cap Base58Forms = {}
  BY DEF EitherForms, Base58Forms

(* Whatever reads the text reads the owner's kind.                         *)
LEMMA ParsedIs ==
  ASSUME target \in Search!Targets, NEW c_ \in Search!AllCoins, NEW a_ \in Search!Parse(c_, target)
  PROVE  /\ Search!IsItsAddress /\ a_.coin = c_ /\ Search!Class(a_.type) = target.class
         /\ Search!HardenedChains(a_) = target.path.hardened
<1>1. /\ a_.coin = c_ /\ a_.type = TypeOf(target.form)
      /\ \/ target.form \in EitherForms /\ target.change \in {"none", "capitals"}
         \/ target.form \in Base58Forms /\ target.change = "none"
  BY ParsedHasKind
<1>2. PICK o_, k_, u_, account, chain, index : IsShown(o_, k_, u_, account, chain, index)
  BY <1>1, TargetIs
<1>3. IsKind(k_, EitherForms) \/ IsKind(k_, Base58Forms)
  BY <1>2, AllKindsAre DEF IsShown
<1>4. k_.type = TypeOf(target.form)
  BY <1>2, <1>3 DEF IsShown, IsKind
<1>5. target.class = Search!Class(a_.type) /\ target.path.hardened = Search!Hardened(k_.type)
  BY <1>1, <1>2, <1>4 DEF IsShown, Search!Path
<1>6. Search!HardenedChains(a_) = target.path.hardened
  BY <1>1, <1>4, <1>5 DEF Search!HardenedChains
<1>7. target.class # "none"
  BY <1>1, <1>5, ClassIsKnown
<1>8. Search!IsItsAddress
  BY <1>1, <1>7 DEF Search!IsItsAddress, EitherForms
<1>9. QED
  BY <1>1, <1>5, <1>6, <1>8

LEMMA PairHas ==
  ASSUME NEW x, NEW y, NEW u \in {x, y}
  PROVE  \E i \in DOMAIN <<x, y>> : <<x, y>>[i] = u
<1>1. 1 \in DOMAIN <<x, y>> /\ 2 \in DOMAIN <<x, y>> /\ <<x, y>>[1] = x /\ <<x, y>>[2] = y
  OBVIOUS
<1>2. u = x \/ u = y
  OBVIOUS
<1>3. QED
  BY <1>1, <1>2, Zenon

LEMMA TypesAreUsed ==
  ASSUME NEW c_ \in Search!AllCoins, NEW u_
  PROVE  /\ u_ \in Search!TypesUsed(c_, TRUE) => u_ = 1
         /\ u_ \in Search!TypesUsed(c_, FALSE) =>
              \E i \in DOMAIN Search!CoinTypes(c_) : Search!CoinTypes(c_)[i] = u_
<1>1. c_ \in CoinNames
  BY CoinsAre
<1>2. u_ \in Search!TypesUsed(c_, TRUE) => u_ = 1
  BY DEF Search!TypesUsed
<1>3. 1 \in DOMAIN Search!CoinTypes(c_)
  <2>1. DOMAIN Search!CoinTypes(c_) \in {1..1, 1..2}
    BY <1>1 DEF CoinNames, Search!CoinTypes
  <2>2. QED
    BY <2>1
<1>4. CASE c_ \in {"bitcoin-cash", "ethereum-classic"}
  <2>1. CASE c_ = "bitcoin-cash"
    <3>1. Search!CoinTypes(c_) = <<145, 0>> /\ Search!TypesUsed(c_, FALSE) = {145, 0}
      BY <2>1 DEF Search!CoinTypes, Search!TypesUsed
    <3>2. \A u \in {145, 0} : \E i \in DOMAIN <<145, 0>> : <<145, 0>>[i] = u
      BY PairHas
    <3>3. QED
      BY <1>2, <3>1, <3>2, Zenon
  <2>2. CASE c_ = "ethereum-classic"
    <3>1. Search!CoinTypes(c_) = <<61, 60>> /\ Search!TypesUsed(c_, FALSE) = {61, 60}
      BY <2>2 DEF Search!CoinTypes, Search!TypesUsed
    <3>2. \A u \in {61, 60} : \E i \in DOMAIN <<61, 60>> : <<61, 60>>[i] = u
      BY PairHas
    <3>3. QED
      BY <1>2, <3>1, <3>2, Zenon
  <2>3. QED
    BY <1>4, <2>1, <2>2
<1>5. CASE c_ \notin {"bitcoin-cash", "ethereum-classic"}
  <2>1. u_ \in Search!TypesUsed(c_, FALSE) => u_ = Search!CoinTypes(c_)[1]
    BY <1>5 DEF Search!TypesUsed
  <2>2. QED
    BY <1>2, <1>3, <2>1
<1>6. QED
  BY <1>4, <1>5

(* An address as its wallet shows it is read, as that wallet's too.        *)
LEMMA ShownIsParsed ==
  ASSUME target \in Search!Targets, Search!IsItsAddress
  PROVE  /\ target.coin \in Search!AllCoins /\ Search!Parse(target.coin, target) # {}
         /\ \A a_ \in Search!Parse(target.coin, target) : target.path.root \in Search!RootsOf(a_)
<1>0. target.class # "none"
  BY DEF Search!IsItsAddress
<1>1. PICK o_, k_, u_, account, chain, index : IsShown(o_, k_, u_, account, chain, index)
  BY <1>0, TargetIs
<1>2. /\ target.coin \in Search!AllCoins /\ k_ \in Search!Kinds(target.coin) /\ target.form = k_.form
      /\ u_ \in Search!TypesUsed(target.coin, k_.testnet)
      /\ target.path.root = Search!Root(k_.type, u_)
  BY <1>1 DEF IsShown, Search!Path
<1> DEFINE c_ == target.coin
<1>3. \/ target.change = "none"
      \/ target.change = "capitals" /\ target.form \in EitherForms
  BY DEF Search!IsItsAddress, EitherForms
<1>4. k_ \in Search!ParseSegwit(c_, target) \cup Search!ParseBase58(c_, target)
                \cup Search!ParseAccount(c_, target) \cup Search!ParseHex(c_, target)
                \cup Search!ParseCashAddr(c_, target) \cup Search!ParsePlatform(c_, target)
  <2>1. CASE k_ \in Search!Base58Versions(c_)
    <3>1. target.form \in Base58Forms
      BY <1>2, <2>1, KindsAre DEF IsKind
    <3>2. target.change = "none"
      BY <1>3, <3>1, FormsApart
    <3>3. QED
      BY <1>2, <2>1, <3>2 DEF Search!ParseBase58, Search!ReadBy
  <2>2. CASE k_ \notin Search!Base58Versions(c_)
    <3>1. target.change \in Search!EitherCase
      BY <1>3 DEF Search!EitherCase
    <3>2. QED
      BY <1>2, <2>2, <3>1 DEF Search!Kinds, Search!ParseSegwit, Search!ParseAccount,
         Search!ParseHex, Search!ParseCashAddr, Search!ParsePlatform, Search!ReadBy
  <2>3. QED
    BY <2>1, <2>2
<1>5. Search!Parse(c_, target) # {}
  BY <1>4 DEF Search!Parse
<1>6. ASSUME NEW a_ \in Search!Parse(c_, target)
      PROVE  target.path.root \in Search!RootsOf(a_)
  <2>1. /\ a_.coin = c_ /\ a_.type = TypeOf(target.form)
        /\ \/ target.form \in TestForms /\ a_.testnet = TRUE
           \/ target.form \notin TestForms /\ a_.testnet = FALSE
    BY <1>2, ParsedHasKind
  <2>2. /\ k_.type = TypeOf(target.form)
        /\ \/ target.form \in TestForms /\ k_.testnet = TRUE
           \/ target.form \notin TestForms /\ k_.testnet = FALSE
    BY <1>2, AllKindsAre, Zenon DEF IsKind
  <2>3. \/ a_.testnet = TRUE /\ u_ \in Search!TypesUsed(c_, TRUE)
        \/ a_.testnet = FALSE /\ u_ \in Search!TypesUsed(c_, FALSE)
    BY <1>2, <2>1, <2>2, Zenon
  <2> DEFINE types == IF a_.testnet THEN <<1>> ELSE Search!CoinTypes(c_)
  <2>4. \E i \in DOMAIN types : types[i] = u_
    <3>1. CASE a_.testnet = TRUE /\ u_ \in Search!TypesUsed(c_, TRUE)
      <4>1. types = <<1>> /\ u_ = 1
        BY <1>2, <3>1, TypesAreUsed
      <4>2. 1 \in DOMAIN <<1>> /\ <<1>>[1] = 1
        OBVIOUS
      <4>3. QED
        BY <4>1, <4>2, Zenon
    <3>2. CASE a_.testnet = FALSE /\ u_ \in Search!TypesUsed(c_, FALSE)
      <4>1. types = Search!CoinTypes(c_)
        BY <3>2
      <4>2. QED
        BY <1>2, <3>2, <4>1, TypesAreUsed, Zenon
    <3>3. QED
      BY <2>3, <3>1, <3>2
  <2>5. Search!SearchRoots(a_) = [i \in DOMAIN types |-> Search!Root(a_.type, types[i])]
    BY <2>1 DEF Search!SearchRoots
  <2> HIDE DEF types
  <2>6. \E i \in DOMAIN Search!SearchRoots(a_) : Search!SearchRoots(a_)[i] = Search!Root(a_.type, u_)
    BY <2>4, <2>5
  <2>7. QED
    BY <1>2, <2>1, <2>2, <2>6 DEF Search!RootsOf
<1>7. QED
  BY <1>2, <1>5, <1>6

LEMMA RootsListed ==
  ASSUME NEW a_, a_.coin \in Search!AllCoins
  PROVE  /\ Search!SearchRoots(a_) \in Seq(Search!RootsOf(a_)) /\ Once(Search!SearchRoots(a_))
         /\ Search!RootsOf(a_) # {} /\ IsFiniteSet(Search!RootsOf(a_))
         /\ Members(Search!SearchRoots(a_)) = Search!RootsOf(a_)
<1> DEFINE types == IF a_.testnet THEN <<1>> ELSE Search!CoinTypes(a_.coin)
           s == Search!SearchRoots(a_)
<1>1. a_.coin \in CoinNames
  BY CoinsAre
<1>2. /\ DOMAIN Search!CoinTypes(a_.coin) \in {1..1, 1..2}
      /\ Once(Search!CoinTypes(a_.coin))
  BY <1>1 DEF CoinNames, Search!CoinTypes, Once
<1>3. DOMAIN types \in {1..1, 1..2} /\ Once(types)
  BY <1>2 DEF Once
<1>4. s = [i \in DOMAIN types |-> Search!Root(a_.type, types[i])]
  BY DEF Search!SearchRoots
<1> HIDE DEF types
<1>5. \A x, y : Search!Root(a_.type, x) = Search!Root(a_.type, y) => x = y
  BY DEF Search!Root
<1>6. Once(s)
  BY <1>3, <1>4, <1>5 DEF Once
<1> HIDE DEF s
<1>7. PICK n \in {1, 2} : DOMAIN s = 1..n
  BY <1>3, <1>4
<1>8. \A i \in 1..n : s[i] \in Search!RootsOf(a_)
  BY <1>7 DEF Search!RootsOf, s
<1>9. s = [i \in 1..n |-> s[i]]
  BY <1>4, <1>7
<1>10. s \in [1..n -> Search!RootsOf(a_)]
  BY <1>8, <1>9
<1>11. s \in Seq(Search!RootsOf(a_))
  BY <1>10
<1>12. Members(s) = Search!RootsOf(a_)
  BY DEF Members, Search!RootsOf, s
<1>13. Search!RootsOf(a_) # {}
  <2>1. 1 \in 1..n
    BY <1>7
  <2>2. QED
    BY <1>8, <2>1
<1>14. IsFiniteSet(Search!RootsOf(a_))
  <2>1. Search!RootsOf(a_) \subseteq {s[1], s[2]}
    BY <1>7, <1>12 DEF Members
  <2>2. IsFiniteSet({s[1], s[2]})
    <3>1. IsFiniteSet({s[1]})
      BY FS_Singleton
    <3>2. IsFiniteSet({s[1]} \cup {s[2]})
      BY <3>1, FS_AddElement
    <3>3. {s[1]} \cup {s[2]} = {s[1], s[2]}
      OBVIOUS
    <3>4. QED
      BY <3>2, <3>3
  <2>3. QED
    BY <2>1, <2>2, FS_Subset
<1>15. QED
  BY <1>6, <1>11, <1>12, <1>13, <1>14 DEF s

(* What the text is read as.                                               *)
Readable == UNION {Search!Parse(c, target) : c \in Search!AllCoins}

LEMMA ReadableIs ==
  ASSUME target \in Search!Targets, NEW a_ \in Readable
  PROVE  /\ Search!IsItsAddress /\ a_.coin \in Search!AllCoins
         /\ Search!Class(a_.type) = target.class
         /\ Search!HardenedChains(a_) = target.path.hardened
<1>1. PICK c_ \in Search!AllCoins : a_ \in Search!Parse(c_, target)
  BY DEF Readable
<1>2. QED
  BY <1>1, ParsedIs

LEMMA ReadIs ==
  ASSUME NEW name_
  PROVE  LET read == Search!ParseWith(name_, target) IN
         /\ read \in Seq(Readable)
         /\ \A c \in Search!AllCoins :
              name_ \in {"any", c} /\ Search!Parse(c, target) # {} =>
                \E i \in DOMAIN read : read[i] \in Search!Parse(c, target)
<1> DEFINE T == {c \in Search!AllCoins : name_ \in {"any", c} /\ Search!Parse(c, target) # {}}
           these == Search!Kept(Search!Coins, T)
           read == Search!ParseWith(name_, target)
<1>1. read = [i \in DOMAIN these |-> CHOOSE a \in Search!Parse(these[i], target) : TRUE]
  BY DEF Search!ParseWith
<1>2. KeptTo(Search!Coins, T, Len(Search!Coins), these)
  BY CoinsAre, KeptIs
<1> HIDE DEF these, read
<1>3. these \in Seq(T)
  <2>1. these \in Seq(Members(Search!Coins) \cap T)
    BY <1>2 DEF KeptTo
  <2> HIDE DEF T
  <2>2. QED
    BY <2>1
<1>4. \A i \in DOMAIN these : these[i] \in T
  <2> HIDE DEF T
  <2>1. QED
    BY <1>3
<1>5. \A i \in DOMAIN these : read[i] \in Search!Parse(these[i], target) /\ these[i] \in Search!AllCoins
  BY <1>1, <1>4
<1>6. read \in Seq(Readable)
  <2>1. \A i \in DOMAIN these : read[i] \in Readable
    BY <1>5 DEF Readable
  <2>2. PICK n \in Nat : DOMAIN these = 1..n
    <3> HIDE DEF T
    <3>1. QED
      BY <1>3
  <2>3. read = [i \in 1..n |-> read[i]]
    BY <1>1, <2>2
  <2>4. read \in [1..n -> Readable]
    BY <2>1, <2>2, <2>3
  <2>5. QED
    BY <2>4
<1>7. ASSUME NEW c \in Search!AllCoins, name_ \in {"any", c}, Search!Parse(c, target) # {}
      PROVE  \E i \in DOMAIN read : read[i] \in Search!Parse(c, target)
  <2>1. PICK k \in DOMAIN Search!Coins : Search!Coins[k] = c
    BY DEF Search!AllCoins
  <2>2. k \in 1..Len(Search!Coins)
    BY <2>1, CoinsAre
  <2>3. PICK i \in DOMAIN these : these[i] = c
    BY <1>2, <1>7, <2>1, <2>2 DEF KeptTo
  <2>4. i \in DOMAIN read
    BY <1>1
  <2>5. QED
    BY <1>5, <2>3, <2>4
<1>8. QED
  BY <1>6, <1>7 DEF read

(* The roots and the keys that are left of an address.                     *)
LeftOf(a, s) == Search!Kept(Search!SearchRoots(a), Search!RootsOf(a) \ s)

LEMMA LengthOfOnce ==
  ASSUME NEW S, NEW s \in Seq(S), Once(s)
  PROVE  IsFiniteSet(Members(s)) /\ Cardinality(Members(s)) = Len(s)
<1>1. Len(s) \in Nat /\ DOMAIN s = 1..Len(s)
  OBVIOUS
<1> DEFINE f == [i \in 1..Len(s) |-> s[i]]
<1>2. f \in Bijection(1..Len(s), Members(s))
  <2>1. f \in [1..Len(s) -> Members(s)]
    BY <1>1 DEF Members
  <2>2. \A i, j \in 1..Len(s) : f[i] = f[j] => i = j
    BY <1>1 DEF Once
  <2>3. \A x \in Members(s) : \E i \in 1..Len(s) : f[i] = x
    BY <1>1 DEF Members
  <2> HIDE DEF f
  <2>4. QED
    BY <2>1, <2>2, <2>3, Fun_IsBij
<1>3. IsFiniteSet(1..Len(s)) /\ Cardinality(1..Len(s)) = Len(s)
  BY <1>1, FS_Interval
<1> HIDE DEF f
<1>4. ExistsBijection(1..Len(s), Members(s))
  BY <1>2 DEF ExistsBijection
<1>5. QED
  BY <1>3, <1>4, FS_Bijection

LEMMA LeftHas ==
  ASSUME NEW a_, a_.coin \in Search!AllCoins, NEW s_, NEW root_ \in Search!RootsOf(a_) \ s_
  PROVE  \E j \in DOMAIN LeftOf(a_, s_) : LeftOf(a_, s_)[j] = root_
<1> DEFINE r == Search!SearchRoots(a_)  T == Search!RootsOf(a_) \ s_  t == LeftOf(a_, s_)
<1>1. /\ r \in Seq(Search!RootsOf(a_)) /\ Once(r) /\ Members(r) = Search!RootsOf(a_)
  BY RootsListed
<1>2. KeptTo(r, T, Len(r), t)
  BY <1>1, KeptIs DEF LeftOf
<1>3. DOMAIN r = 1..Len(r)
  BY <1>1
<1>4. QED
  BY <1>1, <1>2, <1>3 DEF KeptTo, Members

LEMMA LeftIs ==
  ASSUME NEW a_, a_.coin \in Search!AllCoins, NEW s_
  PROVE  /\ LeftOf(a_, s_) \in Seq(Search!RootsOf(a_) \ s_)
         /\ Cardinality(Search!RootsOf(a_) \ s_) = Len(LeftOf(a_, s_))
         /\ IsFiniteSet(Search!RootsOf(a_) \ s_)
<1> DEFINE r == Search!SearchRoots(a_)  T == Search!RootsOf(a_) \ s_  t == LeftOf(a_, s_)
<1>1. /\ r \in Seq(Search!RootsOf(a_)) /\ Once(r) /\ Members(r) = Search!RootsOf(a_)
  BY RootsListed
<1>2. KeptTo(r, T, Len(r), t)
  BY <1>1, KeptIs DEF LeftOf
<1>3. Members(r) \cap T = T
  BY <1>1
<1>4. t \in Seq(T) /\ Once(t)
  BY <1>1, <1>2, <1>3 DEF KeptTo
<1>5. \A root \in T : \E j \in DOMAIN t : t[j] = root
  BY LeftHas
<1> HIDE DEF T, t
<1>6. Members(t) = T
  <2>1. \A i \in DOMAIN t : t[i] \in T
    BY <1>4
  <2>2. QED
    BY <1>5, <2>1 DEF Members
<1>7. IsFiniteSet(T) /\ Cardinality(T) = Len(t)
  BY <1>4, <1>6, LengthOfOnce
<1>8. QED
  BY <1>4, <1>7 DEF T, t

LEMMA KeysAre ==
  ASSUME NEW a_, a_.coin \in Search!AllCoins
  PROVE  /\ Search!Keys(a_) = Len(LeftOf(a_, searched)) * Each
         /\ Search!Keys(a_) \in Nat
         /\ Search!RootsLeft(a_) = LeftOf(a_, searched)
<1>1. Search!RootsLeft(a_) = LeftOf(a_, searched)
  BY DEF Search!RootsLeft, LeftOf
<1> DEFINE l == Len(LeftOf(a_, searched))
<1>2. l \in Nat
  BY LeftIs
<1>3. Search!Keys(a_) = l * 2 * Accounts * Indexes
  BY <1>1 DEF Search!Keys
<1> HIDE DEF l
<1>4. Accounts \in Nat /\ Indexes \in Nat /\ Each \in Nat
  BY EachIs
<1>5. l * 2 * Accounts * Indexes = l * Each /\ l * Each \in Nat
  BY <1>2, <1>4 DEF Each
<1>6. QED
  BY <1>1, <1>3, <1>5 DEF l

LEMMA PathIsSomething ==
  ASSUME NEW r_, NEW a_, NEW h_, NEW c_, NEW i_
  PROVE  Search!Path(r_, a_, h_, c_, i_) # <<>>
<1>1. "root" \in DOMAIN Search!Path(r_, a_, h_, c_, i_)
  BY DEF Search!Path
<1>2. DOMAIN <<>> = {}
  OBVIOUS
<1>3. QED
  BY <1>1, <1>2

(* The path of the target lies within the limits.                          *)
WithinLimits == target.path.account < Accounts /\ target.path.index < Indexes

LEMMA PathParts ==
  ASSUME NEW r_, NEW a_ \in Nat, NEW h_, NEW c_ \in {0, 1}, NEW i_ \in Nat,
         target.path = Search!Path(r_, a_, h_, c_, i_)
  PROVE  /\ target.path.account \in Nat /\ target.path.index \in Nat
         /\ target.path.chain \in {0, 1}
         /\ target.path = Search!Path(target.path.root, target.path.account, target.path.hardened,
                                      target.path.chain, target.path.index)
         /\ target.path # <<>>
<1>1. /\ target.path.root = r_ /\ target.path.account = a_ /\ target.path.hardened = h_
      /\ target.path.chain = c_ /\ target.path.index = i_
  BY DEF Search!Path
<1>2. QED
  BY <1>1, PathIsSomething

LEMMA TargetPathIs ==
  ASSUME target \in Search!Targets
  PROVE  /\ target.path.account \in Nat /\ target.path.index \in Nat
         /\ target.path.chain \in {0, 1}
         /\ target.path = Search!Path(target.path.root, target.path.account, target.path.hardened,
                                      target.path.chain, target.path.index)
         /\ target.path # <<>>
<1>1. CASE \E c_, k_, u_, account, chain, index : IsShown(c_, k_, u_, account, chain, index)
  <2>1. PICK c_, k_, u_, account, chain, index : IsShown(c_, k_, u_, account, chain, index)
    BY <1>1
  <2>2. /\ account \in Nat /\ chain \in {0, 1} /\ index \in Nat
        /\ target.path = Search!Path(Search!Root(k_.type, u_), account, Search!Hardened(k_.type),
                                     chain, index)
    BY <2>1 DEF IsShown
  <2>3. QED
    BY <2>2, PathParts
<1>2. CASE target.path = Search!Path(<<>>, 0, FALSE, 0, 0)
  <2> DEFINE h_ == FALSE
  <2>1. target.path = Search!Path(<<>>, 0, h_, 0, 0)
    BY <1>2, Zenon
  <2> HIDE DEF h_
  <2>2. QED
    BY <2>1, PathParts
<1>3. QED
  BY <1>1, <1>2, TargetIs

(* A key below the count is that of a root left, and every one of these    *)
(* has a number.                                                           *)
LEMMA KeyIs ==
  ASSUME NEW a_, a_.coin \in Search!AllCoins, NEW n \in Nat, n < Search!Keys(a_)
  PROVE  /\ n \div Each + 1 \in DOMAIN LeftOf(a_, searched)
         /\ Search!Key(a_, n) =
              Search!Path(LeftOf(a_, searched)[n \div Each + 1], (n \div (2 * Indexes)) % Accounts,
                          Search!HardenedChains(a_), (n \div Indexes) % 2, n % Indexes)
         /\ (n \div (2 * Indexes)) % Accounts < Accounts /\ n % Indexes < Indexes
<1> DEFINE left == LeftOf(a_, searched)
<1>1. left \in Seq(Search!RootsOf(a_) \ searched) /\ Search!RootsLeft(a_) = left
      /\ Search!Keys(a_) = Len(left) * Each
  BY LeftIs, KeysAre
<1> HIDE DEF left
<1>2. Len(left) \in Nat /\ DOMAIN left = 1..Len(left)
  BY <1>1
<1>3. n \div Each \in 0..(Len(left) - 1)
  BY <1>1, <1>2, PlaceBounds
<1>4. /\ (n \div (2 * Indexes)) % Accounts \in 0..(Accounts - 1)
      /\ n % Indexes \in 0..(Indexes - 1)
  BY <1>1, <1>2, PlaceBounds
<1>5. n \div Each + 1 \in DOMAIN left
  BY <1>2, <1>3
<1>6. Search!Key(a_, n) =
              Search!Path(left[n \div Each + 1], (n \div (2 * Indexes)) % Accounts,
                          Search!HardenedChains(a_), (n \div Indexes) % 2, n % Indexes)
  BY <1>1 DEF Search!Key, Each
<1>7. Accounts \in Nat /\ Indexes \in Nat
  BY EachIs
<1>8. (n \div (2 * Indexes)) % Accounts < Accounts /\ n % Indexes < Indexes
  BY <1>4, <1>7
<1>9. QED
  BY <1>5, <1>6, <1>8 DEF left

LEMMA KeyIsWithin ==
  ASSUME NEW a_, a_.coin \in Search!AllCoins, NEW n \in Nat, n < Search!Keys(a_),
         Search!Key(a_, n) = target.path
  PROVE  WithinLimits
<1> DEFINE root == LeftOf(a_, searched)[n \div Each + 1]
           account_ == (n \div (2 * Indexes)) % Accounts
           index_ == n % Indexes
           chain_ == (n \div Indexes) % 2
<1>1. /\ target.path = Search!Path(root, account_, Search!HardenedChains(a_), chain_, index_)
      /\ account_ < Accounts /\ index_ < Indexes
  BY KeyIs
<1> HIDE DEF root, account_, index_, chain_
<1>2. target.path.account = account_ /\ target.path.index = index_
  BY <1>1 DEF Search!Path
<1>3. QED
  BY <1>1, <1>2 DEF WithinLimits

LEMMA EachIsLooked ==
  ASSUME target \in Search!Targets, NEW a_ \in Readable, WithinLimits,
         target.path.root \in Search!RootsOf(a_), target.path.root \notin searched
  PROVE  \E n \in Nat : n < Search!Keys(a_) /\ Search!Key(a_, n) = target.path
<1> DEFINE left == LeftOf(a_, searched)
<1>1. a_.coin \in Search!AllCoins /\ Search!HardenedChains(a_) = target.path.hardened
  BY ReadableIs
<1>2. left \in Seq(Search!RootsOf(a_) \ searched) /\ Search!Keys(a_) = Len(left) * Each
  BY <1>1, LeftIs, KeysAre
<1>b. target.path.root \in Search!RootsOf(a_) \ searched
  OBVIOUS
<1>3. PICK j_ \in DOMAIN left : left[j_] = target.path.root
  BY <1>1, <1>b, LeftHas
<1> HIDE DEF left
<1>4. Len(left) \in Nat /\ j_ \in 1..Len(left)
  BY <1>2
<1> DEFINE k_ == j_ - 1
<1>5. k_ \in Nat /\ k_ + 1 = j_ /\ k_ + 1 <= Len(left)
  BY <1>4
<1>6. /\ target.path.account \in 0..(Accounts - 1) /\ target.path.chain \in {0, 1}
      /\ target.path.index \in 0..(Indexes - 1)
  BY TargetPathIs, EachIs DEF WithinLimits
<1> DEFINE p_ == target.path.account  c_ == target.path.chain  x_ == target.path.index
           n_ == PlaceOf(k_, p_, c_, x_)
<1>a. p_ \in 0..(Accounts - 1) /\ c_ \in {0, 1} /\ x_ \in 0..(Indexes - 1)
  BY <1>6
<1> HIDE DEF k_, p_, c_, x_
<1>7. /\ n_ \in Nat /\ n_ < k_ * Each + Each
      /\ n_ \div Each = k_ /\ (n_ \div (2 * Indexes)) % Accounts = p_
      /\ (n_ \div Indexes) % 2 = c_ /\ n_ % Indexes = x_
  <2>1. k_ \in Nat
    BY <1>5
  <2>2. n_ \in Nat /\ n_ < k_ * Each + Each /\ n_ \div Each = k_
    BY <2>1, <1>a, PlaceIs
  <2>3. (n_ \div (2 * Indexes)) % Accounts = p_
    BY <2>1, <1>a, PlaceIs
  <2>4. (n_ \div Indexes) % 2 = c_
    BY <2>1, <1>a, PlaceIs
  <2>5. n_ % Indexes = x_
    BY <2>1, <1>a, PlaceIs
  <2>6. QED
    BY <2>2, <2>3, <2>4, <2>5
<1> HIDE DEF n_
<1>8. k_ * Each + Each <= Len(left) * Each
  BY <1>4, <1>5, TimesGrows, EachIs
<1>9. n_ < Search!Keys(a_)
  <2>1. k_ * Each \in Nat /\ Len(left) * Each \in Nat /\ Each \in Nat
    BY <1>4, <1>5, EachIs
  <2>2. QED
    BY <1>2, <1>7, <1>8, <2>1
<1>10. Search!Key(a_, n_) = Search!Path(left[k_ + 1], p_, Search!HardenedChains(a_), c_, x_)
  BY <1>1, <1>7, <1>9, KeyIs DEF left
<1>11. Search!Key(a_, n_) = target.path
  BY <1>1, <1>3, <1>5, <1>10, TargetPathIs DEF p_, c_, x_
<1>12. QED
  BY <1>7, <1>9, <1>11

(* The roots of what was read, and what is said of them.                   *)
RootsBefore(read, d) == UNION {Search!RootsOf(read[i]) : i \in 1..d}

LEMMA RootsAreFinite ==
  ASSUME target \in Search!Targets, NEW read \in Seq(Readable)
  PROVE  IsFiniteSet(Search!RootsIn(read))
<1> DEFINE f == [i \in 1..Len(read) |-> Search!RootsOf(read[i])]
           T == {Search!RootsOf(read[i]) : i \in DOMAIN read}
<1>1. Len(read) \in Nat /\ DOMAIN read = 1..Len(read) /\ \A i \in DOMAIN read : read[i] \in Readable
  OBVIOUS
<1>2. \A S \in T : IsFiniteSet(S)
  BY <1>1, ReadableIs, RootsListed
<1>3. f \in Surjection(1..Len(read), T)
  <2>1. f \in [1..Len(read) -> T] /\ \A S \in T : \E i \in 1..Len(read) : f[i] = S
    BY <1>1
  <2> HIDE DEF f, T
  <2>2. QED
    BY <2>1, Fun_IsSurj
<1>4. IsFiniteSet(1..Len(read))
  BY <1>1, FS_Interval
<1> HIDE DEF f, T
<1>5. IsFiniteSet(T)
  BY <1>3, <1>4, FS_Surjection
<1>6. QED
  BY <1>2, <1>5, FS_UNION DEF Search!RootsIn, T

LEMMA StatedIs ==
  ASSUME target \in Search!Targets, NEW read \in Seq(Readable), NEW only
  PROVE  Search!Stated(read, only) = IF read = <<>> THEN 0 ELSE IF only # <<>> THEN 1
                                     ELSE Cardinality(Search!RootsIn(read)) * Each
<1>1. Cardinality(Search!RootsIn(read)) \in Nat
  BY RootsAreFinite, FS_CardinalityType
<1> DEFINE q == Cardinality(Search!RootsIn(read))
<1>2. /\ read = <<>> => Search!Stated(read, only) = 0
      /\ read # <<>> /\ only # <<>> => Search!Stated(read, only) = 1
      /\ read # <<>> /\ only = <<>> => Search!Stated(read, only) = q * 2 * Accounts * Indexes
  <2>1. Search!Stated(read, only) = IF read = <<>> THEN 0 ELSE IF only # <<>> THEN 1
                                    ELSE Cardinality(Search!RootsIn(read)) * 2 * Accounts * Indexes
    <3>1. Cardinality(Search!RootsIn(read)) = Search!Cardinality(Search!RootsIn(read))
      BY DEF Cardinality, Search!Cardinality
    <3>2. QED
      BY <3>1 DEF Search!Stated
  <2> HIDE DEF q
  <2>2. QED
    BY <2>1 DEF q
<1>3. q \in Nat
  BY <1>1
<1> HIDE DEF q
<1>4. q * 2 * Accounts * Indexes = q * Each
  BY <1>3, EachIs DEF Each
<1>5. QED
  BY <1>2, <1>4 DEF q

(* The roots of one more address.                                          *)
LEMMA RootsAdd ==
  ASSUME NEW a_, a_.coin \in Search!AllCoins, NEW s_, IsFiniteSet(s_)
  PROVE  /\ IsFiniteSet(s_ \cup Search!RootsOf(a_)) /\ Cardinality(s_) \in Nat
         /\ Len(LeftOf(a_, s_)) \in Nat
         /\ Cardinality(s_ \cup Search!RootsOf(a_)) = Cardinality(s_) + Len(LeftOf(a_, s_))
<1> DEFINE T == Search!RootsOf(a_) \ s_
<1>1. IsFiniteSet(T) /\ Cardinality(T) = Len(LeftOf(a_, s_))
  BY LeftIs
<1>2. s_ \cap T = {} /\ s_ \cup Search!RootsOf(a_) = s_ \cup T
  OBVIOUS
<1> HIDE DEF T
<1>3. Cardinality(s_) \in Nat /\ Cardinality(T) \in Nat
  BY <1>1, FS_CardinalityType
<1>4. Cardinality(s_ \cap T) = 0
  BY <1>2, FS_EmptySet
<1>5. IsFiniteSet(s_ \cup T) /\ Cardinality(s_ \cup T) = Cardinality(s_) + Cardinality(T) - Cardinality(s_ \cap T)
  BY <1>1, FS_Union
<1>6. IsFiniteSet(s_ \cup Search!RootsOf(a_))
  BY <1>2, <1>5
<1>7. Cardinality(s_ \cup Search!RootsOf(a_)) = Cardinality(s_ \cup T)
  BY <1>2
<1>8. Cardinality(s_ \cup T) = Cardinality(s_) + Cardinality(T)
  BY <1>3, <1>4, <1>5
<1>9. QED
  BY <1>1, <1>3, <1>6, <1>7, <1>8

AddressRead == Search!ParseWith(named, target)

(* The first d of the addresses read were searched and not its path found, *)
(* and of the next the keys before `todo`.                                 *)
LookedTo(d) ==
  /\ addresses \in Seq(Readable) /\ Len(addresses) = Len(AddressRead) - d
  /\ \A i \in DOMAIN addresses : addresses[i] = AddressRead[d + i]
  /\ searched = RootsBefore(AddressRead, d)
  /\ WithinLimits => target.path.root \notin searched
  /\ todo \in Nat /\ derived = Cardinality(searched) * Each + todo
  /\ addresses = <<>> => todo = 0
  /\ addresses # <<>> => todo <= Search!Keys(addresses[1])
  /\ \A n \in Nat : n < todo => Search!Key(addresses[1], n) # target.path

IsToBeFound == IF path # <<>> THEN path = target.path ELSE WithinLimits

SearchBegun ==
  /\ seek \in {"begin", "asked", "searching", "done"}
  /\ seek # "begin" => target \in Search!Targets
  /\ seek # "done" => found = <<>>
  /\ seek \in {"begin", "asked"} => derived = 0 /\ promised = 0 /\ todo = 0 /\ searched = {}

SearchPromised ==
  seek \in {"searching", "done"} => promised = Search!Stated(AddressRead, path)

SearchGoesOn ==
  seek = "searching" =>
    /\ AddressRead # <<>>
    /\ path # <<>> => derived = 0 /\ addresses = AddressRead
    /\ path = <<>> => \E d \in 0..Len(AddressRead) : LookedTo(d)

SearchEnded ==
  seek = "done" =>
    /\ derived <= promised
    /\ found = <<>> => derived = promised
    /\ found # <<>> => found = target.path
    /\ named \in {"any", target.coin} /\ Search!IsItsAddress => ((found = target.path) <=> IsToBeFound)

SearchInv == SearchBegun /\ SearchPromised /\ SearchGoesOn /\ SearchEnded

LEMMA ReadAs ==
  /\ AddressRead \in Seq(Readable)
  /\ target \in Search!Targets /\ Search!IsItsAddress /\ named \in {"any", target.coin} =>
       \E i \in DOMAIN AddressRead : target.path.root \in Search!RootsOf(AddressRead[i])
<1>1. /\ AddressRead \in Seq(Readable)
      /\ \A c \in Search!AllCoins :
           named \in {"any", c} /\ Search!Parse(c, target) # {} =>
             \E i \in DOMAIN AddressRead : AddressRead[i] \in Search!Parse(c, target)
  BY ReadIs DEF AddressRead
<1>2. QED
  BY <1>1, ShownIsParsed

LEMMA RootsBeforeAre ==
  ASSUME NEW read, read \in Seq(Readable)
  PROVE  /\ RootsBefore(read, 0) = {} /\ RootsBefore(read, Len(read)) = Search!RootsIn(read)
         /\ \A d \in 0..Len(read) : RootsBefore(read, d) \subseteq Search!RootsIn(read)
         /\ \A d \in 0..Len(read) : d < Len(read) =>
              RootsBefore(read, d + 1) = RootsBefore(read, d) \cup Search!RootsOf(read[d + 1])
<1>1. Len(read) \in Nat /\ DOMAIN read = 1..Len(read)
  OBVIOUS
<1>2. ASSUME NEW d \in 0..Len(read) PROVE RootsBefore(read, d) \subseteq Search!RootsIn(read)
  BY <1>1 DEF RootsBefore, Search!RootsIn
<1>3. RootsBefore(read, 0) = {} /\ RootsBefore(read, Len(read)) = Search!RootsIn(read)
  BY <1>1 DEF RootsBefore, Search!RootsIn
<1>4. ASSUME NEW d \in 0..Len(read), d < Len(read)
      PROVE  RootsBefore(read, d + 1) = RootsBefore(read, d) \cup Search!RootsOf(read[d + 1])
  <2>1. 1..(d + 1) = (1..d) \cup {d + 1}
    BY <1>1, <1>4
  <2>2. QED
    BY <2>1 DEF RootsBefore
<1>5. QED
  BY <1>2, <1>3, <1>4

LEMMA Covered ==
  ASSUME target \in Search!Targets, NEW read, read \in Seq(Readable),
         searched \subseteq Search!RootsIn(read),
         NEW a_, a_ \in Readable, Search!RootsOf(a_) \subseteq Search!RootsIn(read),
         NEW t_ \in Nat, t_ <= Search!Keys(a_)
  PROVE  Cardinality(searched) * Each + t_ <= Cardinality(Search!RootsIn(read)) * Each
<1> DEFINE all == Search!RootsIn(read)  s_ == searched  more == s_ \cup Search!RootsOf(a_)
           l == Len(LeftOf(a_, searched))
           cs == Cardinality(s_)  cm == Cardinality(more)  ca == Cardinality(all)
<1>1. IsFiniteSet(all)
  BY RootsAreFinite
<1>2. s_ \subseteq all /\ more \subseteq all
  OBVIOUS
<1>3. a_.coin \in Search!AllCoins
  BY ReadableIs
<1> HIDE DEF all
<1>4. IsFiniteSet(s_)
  BY <1>1, <1>2, FS_Subset
<1>5. cs \in Nat /\ l \in Nat /\ cm = cs + l
  BY <1>3, <1>4, RootsAdd
<1> HIDE DEF more, s_
<1>6. ca \in Nat /\ cm <= ca
  BY <1>1, <1>2, FS_Subset, FS_CardinalityType
<1>7. Search!Keys(a_) = l * Each
  BY <1>3, KeysAre
<1>8. Each \in Nat
  BY EachIs
<1> HIDE DEF l, cs, cm, ca
<1>9. cs * Each + t_ <= ca * Each
  <2>1. t_ <= l * Each
    BY <1>7
  <2>2. cs * Each + l * Each = cm * Each
    BY <1>5, <1>8
  <2>3. cm * Each <= ca * Each
    <3>1. CASE cm = ca
      BY <3>1, <1>5, <1>8
    <3>2. CASE cm # ca
      <4>1. cm \in Nat /\ cm + 1 <= ca
        BY <1>5, <1>6, <3>2
      <4>2. cm * Each + Each <= ca * Each
        BY <4>1, <1>6, TimesGrows, EachIs
      <4>3. cm * Each \in Nat /\ ca * Each \in Nat
        BY <4>1, <1>6, <1>8
      <4>4. QED
        BY <4>2, <4>3, <1>8
    <3>3. QED
      BY <3>1, <3>2
  <2>4. cs * Each \in Nat /\ l * Each \in Nat /\ cm * Each \in Nat /\ ca * Each \in Nat
    BY <1>5, <1>6, <1>8
  <2>5. QED
    BY <2>1, <2>2, <2>3, <2>4
<1>10. QED
  BY <1>9 DEF cs, ca, all, s_

LEMMA MatchesIs ==
  ASSUME target \in Search!Targets, NEW a_ \in Readable, NEW at_
  PROVE  Search!Matches(a_, at_) <=> at_ = target.path
<1>1. Search!Class(a_.type) = target.class
  BY ReadableIs
<1>2. QED
  BY <1>1 DEF Search!Matches, Search!Program

LEMMA NothingIsNoPath == target \in Search!Targets => target.path # <<>>
  BY TargetPathIs

LEMMA SearchBegins == Search!Init => SearchInv
  BY DEF Search!Init, SearchInv, SearchBegun, SearchPromised, SearchGoesOn, SearchEnded

(* What has been searched is of what was read, and no more keys than told  *)
(* were derived.                                                           *)
LEMMA WithinPromise ==
  ASSUME target \in Search!Targets, path = <<>>, AddressRead # <<>>, SearchPromised,
         seek = "searching", NEW d \in 0..Len(AddressRead), LookedTo(d)
  PROVE  /\ promised = Cardinality(Search!RootsIn(AddressRead)) * Each
         /\ derived <= promised
         /\ IsFiniteSet(searched) /\ Cardinality(searched) \in Nat
         /\ addresses # <<>> =>
              /\ addresses[1] \in Readable /\ addresses[1] = AddressRead[d + 1] /\ d < Len(AddressRead)
              /\ searched \cup Search!RootsOf(addresses[1]) = RootsBefore(AddressRead, d + 1)
              /\ \A t \in Nat : t <= Search!Keys(addresses[1]) =>
                   Cardinality(searched) * Each + t <= promised
<1> DEFINE read == AddressRead  all == Search!RootsIn(read)
<1>1. read \in Seq(Readable) /\ Len(read) \in Nat /\ DOMAIN read = 1..Len(read)
  BY ReadAs
<1>2. promised = Cardinality(all) * Each
  BY StatedIs, <1>1 DEF SearchPromised
<1>3. searched = RootsBefore(read, d) /\ searched \subseteq all
  BY <1>1, RootsBeforeAre DEF LookedTo
<1>4. addresses \in Seq(Readable) /\ Len(addresses) = Len(read) - d
      /\ \A i \in DOMAIN addresses : addresses[i] = read[d + i]
  BY DEF LookedTo
<1>5. todo \in Nat /\ derived = Cardinality(searched) * Each + todo
  BY DEF LookedTo
<1> HIDE DEF read
<1>6. IsFiniteSet(all)
  BY <1>1, RootsAreFinite
<1>7. IsFiniteSet(searched) /\ Cardinality(searched) \in Nat /\ Cardinality(all) \in Nat
      /\ Cardinality(searched) <= Cardinality(all)
  BY <1>3, <1>6, FS_Subset, FS_CardinalityType
<1>8. ASSUME addresses # <<>>
      PROVE  /\ addresses[1] \in Readable /\ addresses[1] = read[d + 1] /\ d < Len(read)
             /\ searched \cup Search!RootsOf(addresses[1]) = RootsBefore(read, d + 1)
             /\ \A t \in Nat : t <= Search!Keys(addresses[1]) => Cardinality(searched) * Each + t <= promised
  <2>1. 1 \in DOMAIN addresses /\ Len(addresses) > 0
    BY <1>4, <1>8
  <2>2. addresses[1] \in Readable /\ addresses[1] = read[d + 1] /\ d < Len(read)
    BY <1>1, <1>4, <2>1
  <2>3. searched \cup Search!RootsOf(addresses[1]) = RootsBefore(read, d + 1)
    <3>1. \A e \in 0..Len(read) : e < Len(read) =>
            RootsBefore(read, e + 1) = RootsBefore(read, e) \cup Search!RootsOf(read[e + 1])
      BY <1>1, RootsBeforeAre, Zenon
    <3>2. d \in 0..Len(read)
      BY DEF read
    <3>3. RootsBefore(read, d + 1) = RootsBefore(read, d) \cup Search!RootsOf(read[d + 1])
      BY <2>2, <3>1, <3>2, Zenon
    <3>4. QED
      BY <1>3, <2>2, <3>3
  <2>4. d + 1 \in 0..Len(read)
    BY <1>1, <2>2
  <2>5. Search!RootsOf(addresses[1]) \subseteq all
    BY <1>1, <2>3, <2>4, RootsBeforeAre
  <2>6. \A t \in Nat : t <= Search!Keys(addresses[1]) => Cardinality(searched) * Each + t <= Cardinality(all) * Each
    BY <1>1, <1>3, <2>2, <2>5, Covered
  <2>7. QED
    BY <1>2, <2>2, <2>3, <2>6
<1>9. derived <= promised
  <2>1. CASE addresses = <<>>
    <3>1. todo = 0
      BY <2>1 DEF LookedTo
    <3> DEFINE cs == Cardinality(searched)  ca == Cardinality(all)
    <3>2. cs \in Nat /\ ca \in Nat /\ cs <= ca /\ derived = cs * Each + 0 /\ promised = ca * Each
      BY <1>2, <1>5, <1>7, <3>1
    <3> HIDE DEF cs, ca
    <3>3. Each \in Nat /\ cs * Each \in Nat /\ ca * Each \in Nat
      BY <3>2, EachIs
    <3>4. CASE cs = ca
      BY <3>2, <3>3, <3>4
    <3>5. CASE cs + 1 <= ca
      <4>1. cs * Each + Each <= ca * Each
        BY <3>2, <3>3, <3>5, TimesGrows
      <4>2. QED
        BY <3>2, <3>3, <4>1
    <3>6. QED
      BY <3>2, <3>4, <3>5
  <2>2. CASE addresses # <<>>
    <3>1. todo <= Search!Keys(addresses[1])
      BY <2>2 DEF LookedTo
    <3>2. QED
      BY <1>5, <1>8, <2>2, <3>1
  <2>3. QED
    BY <2>1, <2>2
<1>10. QED
  BY <1>2, <1>7, <1>8, <1>9 DEF read

LEMMA SearchTells == SearchInv => Search!AddressIsFound
<1> SUFFICES ASSUME SearchInv PROVE Search!AddressIsFound
  OBVIOUS
<1>1. SearchBegun /\ SearchPromised /\ SearchGoesOn /\ SearchEnded
  BY DEF SearchInv
<1>2. found # <<>> => found = target.path
  BY <1>1 DEF SearchBegun, SearchEnded
<1>3. ASSUME seek \notin {"begin", "asked"}, promised > 0 PROVE Search!IsItsAddress
  <2>1. seek \in {"searching", "done"} /\ target \in Search!Targets
    BY <1>1, <1>3 DEF SearchBegun
  <2>2. AddressRead \in Seq(Readable)
    BY ReadAs
  <2>3. AddressRead # <<>>
    <3>1. promised = Search!Stated(AddressRead, path)
      BY <1>1, <2>1 DEF SearchPromised
    <3>2. AddressRead = <<>> => promised = 0
      BY <2>1, <2>2, <3>1, StatedIs
    <3>3. QED
      BY <1>3, <3>2
  <2>4. AddressRead[1] \in Readable
    BY <2>2, <2>3
  <2>5. QED
    BY <2>1, <2>4, ReadableIs
<1>4. seek = "done" /\ named \in {"any", target.coin} /\ Search!IsItsAddress =>
       ((found = target.path) <=> IsToBeFound)
  BY <1>1 DEF SearchEnded
<1>5. Search!FoundWhereItIs
  BY <1>2, <1>3, <1>4 DEF Search!FoundWhereItIs, IsToBeFound, WithinLimits
<1>6. derived <= promised
  <2>1. CASE seek \in {"begin", "asked"}
    BY <1>1, <2>1 DEF SearchBegun
  <2>2. CASE seek = "done"
    BY <1>1, <2>2 DEF SearchEnded
  <2>3. CASE seek = "searching"
    <3>1. target \in Search!Targets /\ AddressRead # <<>>
      BY <1>1, <2>3 DEF SearchBegun, SearchGoesOn
    <3>2. CASE path # <<>>
      <4>1. derived = 0 /\ promised = Search!Stated(AddressRead, path)
        BY <1>1, <2>3, <3>2 DEF SearchGoesOn, SearchPromised
      <4>2. promised = 1
        BY <3>1, <3>2, <4>1, ReadAs, StatedIs
      <4>3. QED
        BY <4>1, <4>2
    <3>3. CASE path = <<>>
      <4>1. PICK d \in 0..Len(AddressRead) : LookedTo(d)
        BY <1>1, <2>3, <3>3 DEF SearchGoesOn
      <4>2. QED
        BY <1>1, <2>3, <3>1, <3>3, <4>1, WithinPromise
    <3>4. QED
      BY <3>2, <3>3
  <2>4. QED
    BY <1>1, <2>1, <2>2, <2>3 DEF SearchBegun
<1>7. seek = "done" /\ found = <<>> => derived = promised
  BY <1>1 DEF SearchEnded
<1>8. QED
  BY <1>5, <1>6, <1>7 DEF Search!AddressIsFound, Search!CoversWhatIsPromised

LEMMA SearchTypes == SearchInv /\ Search!Types => SearchInv'
  BY DEF Search!Types, SearchInv, SearchBegun, SearchPromised, SearchGoesOn, SearchEnded

LEMMA KeysAreSome ==
  ASSUME NEW a_, a_.coin \in Search!AllCoins, NEW s_
  PROVE  Len(LeftOf(a_, s_)) * 2 * Accounts * Indexes \in Nat
<1> DEFINE l == Len(LeftOf(a_, s_))
<1>1. l \in Nat
  BY LeftIs
<1> HIDE DEF l
<1>2. l * 2 * Accounts * Indexes \in Nat
  BY <1>1, EachIs
<1>3. QED
  BY <1>2 DEF l

LEMMA SearchDescribes == SearchInv /\ Search!Describes => SearchInv'
<1> SUFFICES ASSUME SearchInv, Search!Describes PROVE SearchInv'
  OBVIOUS
<1>1. /\ seek = "asked" /\ addresses' = Search!ParseWith(named', target)
      /\ promised' = Search!Stated(addresses', path')
      /\ seek' = IF addresses' = <<>> THEN "done" ELSE "searching"
      /\ UNCHANGED <<target, searched, todo, derived, found>>
  BY DEF Search!Describes
<1>2. target \in Search!Targets /\ found = <<>> /\ derived = 0 /\ todo = 0 /\ searched = {}
  BY <1>1 DEF SearchInv, SearchBegun
<1> DEFINE read == AddressRead'
<1>3. addresses' = read
  BY <1>1 DEF AddressRead
<1>4. /\ \A c \in Search!AllCoins :
           named' \in {"any", c} /\ Search!Parse(c, target) # {} =>
             \E i \in DOMAIN read : read[i] \in Search!Parse(c, target)
      /\ read \in Seq(Readable)
  <2>1. read = Search!ParseWith(named', target)
    BY <1>1, <1>3
  <2> HIDE DEF read
  <2>2. QED
    BY <2>1, ReadIs
<1> HIDE DEF read
<1>5. Len(read) \in Nat /\ DOMAIN read = 1..Len(read)
  BY <1>4
<1>6. SearchBegun'
  BY <1>1, <1>2 DEF SearchBegun
<1>7. SearchPromised'
  BY <1>1, <1>3 DEF SearchPromised, read
<1>8. SearchGoesOn'
  <2>1. ASSUME read # <<>>, path' = <<>> PROVE LookedTo(0)'
    <3>1. /\ searched' = RootsBefore(read, 0) /\ searched' = {}
      BY <1>1, <1>2, <1>4, RootsBeforeAre
    <3>2. /\ addresses' \in Seq(Readable') /\ Len(addresses') = Len(read) - 0
          /\ \A i \in DOMAIN (addresses') : addresses'[i] = read[0 + i]
      BY <1>1, <1>3, <1>4, <1>5 DEF Readable
    <3>3. todo' = 0 /\ derived' = Cardinality(searched') * Each + todo'
      BY <1>1, <1>2, <3>1, FS_EmptySet, EachIs
    <3>4. addresses' # <<>> => todo' <= Search!Keys(addresses[1])'
      <4>1. addresses'[1] \in Readable \/ addresses' = <<>>
        BY <1>3, <1>4
      <4> DEFINE a_ == addresses'[1]
      <4>2. CASE a_ \in Readable
        <5> DEFINE keys_ == Len(LeftOf(a_, searched')) * 2 * Accounts * Indexes
        <5>1. a_.coin \in Search!AllCoins
          BY <1>2, <4>2, ReadableIs
        <5>2. Search!Keys(addresses[1])' = keys_
          BY DEF Search!Keys, Search!RootsLeft, LeftOf
        <5> HIDE DEF a_
        <5>3. keys_ \in Nat
          BY <5>1, KeysAreSome
        <5> HIDE DEF keys_
        <5>4. QED
          BY <3>3, <5>2, <5>3
      <4>3. QED
        BY <4>1, <4>2
    <3>5. \A n \in Nat : ~ (n < todo')
      BY <3>3
    <3>6. QED
      BY <3>1, <3>2, <3>3, <3>4, <3>5 DEF LookedTo, read
  <2>2. 0 \in 0..Len(read)
    BY <1>5
  <2>3. QED
    BY <1>1, <1>2, <1>3, <2>1, <2>2 DEF SearchGoesOn, read
<1>9. SearchEnded'
  <2>1. ASSUME seek' = "done"
        PROVE  promised' = 0 /\ ~(named' \in {"any", target.coin} /\ Search!IsItsAddress)
    <3>1. read = <<>>
      BY <1>1, <1>3, <2>1
    <3>2. promised' = 0
      <4>1. promised' = Search!Stated(read, path')
        BY <1>1, <1>3
      <4>2. QED
        BY <1>2, <1>4, <3>1, <4>1, StatedIs
    <3>3. QED
      BY <1>2, <1>4, <3>1, <3>2, ShownIsParsed
  <2>2. Search!IsItsAddress' = Search!IsItsAddress
    BY <1>1 DEF Search!IsItsAddress
  <2>3. QED
    BY <1>1, <1>2, <2>1, <2>2 DEF SearchEnded
<1>10. QED
  BY <1>6, <1>7, <1>8, <1>9 DEF SearchInv

LEMMA ReadStays ==
  ASSUME UNCHANGED <<target, named>>
  PROVE  /\ AddressRead' = AddressRead /\ Readable' = Readable
         /\ Search!IsItsAddress' = Search!IsItsAddress /\ WithinLimits' = WithinLimits
  BY DEF AddressRead, Readable, Search!IsItsAddress, WithinLimits

(* A search that ends as it should.                                        *)
LEMMA SearchStops ==
  ASSUME SearchInv, seek = "searching", NEW result_, Search!Stops(result_),
         derived' <= promised, result_ = <<>> => derived' = promised,
         result_ # <<>> => result_ = target.path,
         named \in {"any", target.coin} /\ Search!IsItsAddress => ((result_ = target.path) <=> IsToBeFound)
  PROVE  SearchInv'
<1>1. /\ seek' = "done" /\ found' = result_
      /\ UNCHANGED <<target, named, path, addresses, searched, todo, promised>>
  BY DEF Search!Stops
<1>2. /\ AddressRead' = AddressRead /\ Search!IsItsAddress' = Search!IsItsAddress
      /\ IsToBeFound' = IsToBeFound
  BY <1>1, ReadStays DEF IsToBeFound, WithinLimits
<1>3. SearchBegun'
  BY <1>1 DEF SearchInv, SearchBegun
<1>4. SearchPromised'
  BY <1>1, <1>2 DEF SearchInv, SearchPromised
<1>5. SearchGoesOn'
  BY <1>1 DEF SearchGoesOn
<1>6. SearchEnded'
  BY <1>1, <1>2 DEF SearchEnded
<1>7. QED
  BY <1>3, <1>4, <1>5, <1>6 DEF SearchInv

LEMMA SearchLooksAtPath == SearchInv /\ Search!LooksAtPath => SearchInv'
<1> SUFFICES ASSUME SearchInv, Search!LooksAtPath PROVE SearchInv'
  OBVIOUS
<1> DEFINE result == IF \E i \in DOMAIN addresses : Search!Matches(addresses[i], path) THEN path ELSE <<>>
<1>1. seek = "searching" /\ path # <<>> /\ derived' = derived + 1 /\ Search!Stops(result)
  BY DEF Search!LooksAtPath
<1>2. target \in Search!Targets /\ AddressRead # <<>> /\ derived = 0 /\ addresses = AddressRead
  BY <1>1 DEF SearchInv, SearchBegun, SearchGoesOn
<1>3. promised = 1
  BY <1>1, <1>2, ReadAs, StatedIs DEF SearchInv, SearchPromised
<1>4. (\E i \in DOMAIN addresses : Search!Matches(addresses[i], path)) <=> path = target.path
  <2>1. \A i \in DOMAIN addresses : addresses[i] \in Readable
    BY <1>2, ReadAs
  <2>2. 1 \in DOMAIN addresses
    BY <1>2, ReadAs
  <2>3. \A i \in DOMAIN addresses : Search!Matches(addresses[i], path) <=> path = target.path
    BY <1>2, <2>1, MatchesIs
  <2>4. QED
    BY <2>2, <2>3
<1>5. target.path # <<>>
  BY <1>2, NothingIsNoPath
<1>6. result = IF path = target.path THEN path ELSE <<>>
  BY <1>4
<1> HIDE DEF result
<1>7. (result = target.path) <=> IsToBeFound
  BY <1>1, <1>5, <1>6 DEF IsToBeFound
<1>8. /\ derived' <= promised /\ derived' = promised
      /\ result # <<>> => result = target.path
  BY <1>1, <1>2, <1>3, <1>6
<1>9. QED
  BY <1>1, <1>7, <1>8, SearchStops

LEMMA SearchEndsIt == SearchInv /\ Search!Ends => SearchInv'
<1> SUFFICES ASSUME SearchInv, Search!Ends PROVE SearchInv'
  OBVIOUS
<1> DEFINE read == AddressRead  result == <<>>
<1>1. seek = "searching" /\ path = <<>> /\ addresses = <<>> /\ derived' = derived /\ Search!Stops(result)
  BY DEF Search!Ends
<1>2. target \in Search!Targets /\ read # <<>>
  BY <1>1 DEF SearchInv, SearchBegun, SearchGoesOn
<1>3. PICK d \in 0..Len(read) : LookedTo(d)
  BY <1>1 DEF SearchInv, SearchGoesOn
<1>4. read \in Seq(Readable) /\ Len(read) \in Nat
  BY ReadAs
<1>5. d = Len(read)
  <2>1. Len(addresses) = Len(read) - d /\ Len(addresses) = 0
    BY <1>1, <1>3 DEF LookedTo
  <2> HIDE DEF read
  <2>2. QED
    BY <1>4, <2>1
<1>6. searched = Search!RootsIn(read)
  BY <1>3, <1>4, <1>5, RootsBeforeAre DEF LookedTo
<1>7. derived = promised
  <2>1. promised = Cardinality(Search!RootsIn(read)) * Each
        /\ Cardinality(searched) \in Nat
    BY <1>1, <1>2, <1>3, WithinPromise DEF SearchInv
  <2>2. derived = Cardinality(searched) * Each + 0
    BY <1>1, <1>3 DEF LookedTo
  <2> DEFINE cs == Cardinality(searched)
  <2>3. cs * Each \in Nat
    <3>1. cs \in Nat
      BY <2>1
    <3> HIDE DEF cs
    <3>2. QED
      BY <3>1, EachIs
  <2>4. promised = cs * Each /\ derived = cs * Each + 0
    BY <1>6, <2>1, <2>2
  <2> HIDE DEF cs
  <2>5. QED
    BY <2>3, <2>4
<1>8. result # target.path
  BY <1>2, NothingIsNoPath
<1>9. ASSUME named \in {"any", target.coin}, Search!IsItsAddress PROVE ~IsToBeFound
  <2>1. PICK i \in DOMAIN read : target.path.root \in Search!RootsOf(read[i])
    BY <1>2, <1>9, ReadAs
  <2>2. target.path.root \in searched
    BY <1>6, <2>1 DEF Search!RootsIn
  <2>3. QED
    BY <1>1, <1>3, <2>2 DEF IsToBeFound, LookedTo
<1>10. derived \in Nat
  <2>1. Cardinality(searched) \in Nat
    BY <1>1, <1>2, <1>3, WithinPromise DEF SearchInv
  <2> DEFINE cs == Cardinality(searched)
  <2>2. derived = cs * Each + 0
    BY <1>1, <1>3 DEF LookedTo
  <2>3. cs \in Nat
    BY <2>1
  <2> HIDE DEF cs
  <2>4. QED
    BY <2>2, <2>3, EachIs
<1>11. derived' <= promised /\ derived' = promised
  BY <1>1, <1>7, <1>10
<1>12. named \in {"any", target.coin} /\ Search!IsItsAddress => ((result = target.path) <=> IsToBeFound)
  BY <1>8, <1>9
<1>13. result # <<>> => result = target.path
  OBVIOUS
<1> HIDE DEF result
<1>14. QED
  BY <1>1, <1>11, <1>12, <1>13, SearchStops

LEMMA SearchLooksAtKey == SearchInv /\ Search!LooksAtKey => SearchInv'
<1> SUFFICES ASSUME SearchInv, Search!LooksAtKey PROVE SearchInv'
  OBVIOUS
<1> DEFINE a_ == addresses[1]  here == Search!Key(a_, todo)
<1>1. /\ seek = "searching" /\ path = <<>> /\ addresses # <<>>
      /\ todo < Search!Keys(a_) /\ derived' = derived + 1
      /\ Search!Matches(a_, here) => Search!Stops(here)
      /\ ~Search!Matches(a_, here) =>
           /\ todo' = todo + 1
           /\ UNCHANGED <<seek, target, named, path, addresses, searched, promised, found>>
  BY DEF Search!LooksAtKey
<1>2. target \in Search!Targets /\ AddressRead # <<>>
  BY <1>1 DEF SearchInv, SearchBegun, SearchGoesOn
<1>3. PICK d \in 0..Len(AddressRead) : LookedTo(d)
  BY <1>1 DEF SearchInv, SearchGoesOn
<1>4. todo \in Nat /\ derived = Cardinality(searched) * Each + todo
  BY <1>3 DEF LookedTo
<1>5. /\ a_ \in Readable /\ Cardinality(searched) \in Nat
      /\ \A t \in Nat : t <= Search!Keys(a_) => Cardinality(searched) * Each + t <= promised
  BY <1>1, <1>2, <1>3, WithinPromise DEF SearchInv
<1>6. a_.coin \in Search!AllCoins
  BY <1>2, <1>5, ReadableIs
<1>7. Search!Keys(a_) \in Nat
  BY <1>6, KeysAre
<1>8. Search!Matches(a_, here) <=> here = target.path
  BY <1>2, <1>5, MatchesIs
<1> HIDE DEF a_, here
<1>9. todo + 1 \in Nat /\ todo + 1 <= Search!Keys(a_)
  BY <1>1, <1>4, <1>7
<1> DEFINE cs == Cardinality(searched)
<1>10. cs * Each + (todo + 1) <= promised
  BY <1>5, <1>9
<1>11. derived' = cs * Each + (todo + 1)
  <2>1. cs \in Nat /\ derived = cs * Each + todo
    BY <1>4, <1>5
  <2> HIDE DEF cs
  <2>2. cs * Each \in Nat
    BY <2>1, EachIs
  <2>3. QED
    BY <1>1, <1>4, <2>1, <2>2
<1>12. CASE here = target.path
  <2>1. target.path # <<>>
    BY <1>2, NothingIsNoPath
  <2>2. WithinLimits
    BY <1>1, <1>4, <1>6, <1>12, KeyIsWithin DEF here
  <2>3. Search!Stops(here)
    BY <1>1, <1>8, <1>12
  <2>4. derived' <= promised
    BY <1>10, <1>11
  <2>5. IsToBeFound
    BY <1>1, <2>2 DEF IsToBeFound
  <2>6. QED
    BY <1>1, <1>12, <2>1, <2>3, <2>4, <2>5, SearchStops
<1>13. CASE here # target.path
  <2>1. /\ todo' = todo + 1
        /\ UNCHANGED <<seek, target, named, path, addresses, searched, promised, found>>
    BY <1>1, <1>8, <1>13
  <2>2. AddressRead' = AddressRead /\ Readable' = Readable /\ WithinLimits' = WithinLimits
    BY <2>1, ReadStays
  <2>3. /\ Search!Keys(addresses[1])' = Search!Keys(a_)
        /\ \A n : Search!Key(addresses[1], n)' = Search!Key(a_, n)
    BY <2>1 DEF Search!Keys, Search!Key, Search!RootsLeft, a_
  <2>4. \A n \in Nat : n < todo' => Search!Key(a_, n) # target.path
    <3>1. \A n \in Nat : n < todo => Search!Key(a_, n) # target.path
      BY <1>3 DEF LookedTo, a_
    <3>2. Search!Key(a_, todo) # target.path
      BY <1>13 DEF here
    <3>3. \A n \in Nat : n < todo + 1 => n < todo \/ n = todo
      BY <1>4
    <3>4. QED
      BY <2>1, <3>1, <3>2, <3>3
  <2>5. LookedTo(d)'
    <3>1. /\ addresses \in Seq(Readable) /\ Len(addresses) = Len(AddressRead) - d
          /\ \A i \in DOMAIN addresses : addresses[i] = AddressRead[d + i]
          /\ searched = RootsBefore(AddressRead, d)
          /\ WithinLimits => target.path.root \notin searched
      BY <1>3 DEF LookedTo
    <3>2. todo' \in Nat /\ derived' = Cardinality(searched') * Each + todo'
      BY <1>9, <1>11, <2>1
    <3>3. todo' <= Search!Keys(addresses[1])'
      BY <1>9, <2>1, <2>3
    <3>4. \A n \in Nat : n < todo' => Search!Key(addresses[1], n)' # target.path'
      BY <2>1, <2>3, <2>4
    <3>5. QED
      BY <1>1, <2>1, <2>2, <3>1, <3>2, <3>3, <3>4 DEF LookedTo
  <2>6. SearchGoesOn'
    BY <1>1, <1>2, <2>1, <2>2, <2>5 DEF SearchGoesOn
  <2>7. SearchBegun' /\ SearchPromised' /\ SearchEnded'
    BY <1>1, <2>1, <2>2 DEF SearchInv, SearchBegun, SearchPromised, SearchEnded
  <2>8. QED
    BY <2>6, <2>7 DEF SearchInv
<1>14. QED
  BY <1>12, <1>13

LEMMA SearchNextAddress == SearchInv /\ Search!NextAddress => SearchInv'
<1> SUFFICES ASSUME SearchInv, Search!NextAddress PROVE SearchInv'
  OBVIOUS
<1> DEFINE read == AddressRead  a_ == addresses[1]  more == searched \cup Search!RootsOf(a_)
           l == Len(LeftOf(a_, searched))
           cs == Cardinality(searched)  cm == Cardinality(more)
<1>1. /\ seek = "searching" /\ path = <<>> /\ addresses # <<>> /\ todo = Search!Keys(a_)
      /\ searched' = more /\ addresses' = Tail(addresses) /\ todo' = 0
      /\ UNCHANGED <<seek, target, named, path, derived, promised, found>>
  BY DEF Search!NextAddress
<1>2. target \in Search!Targets /\ read # <<>>
  BY <1>1 DEF SearchInv, SearchBegun, SearchGoesOn
<1>3. PICK d \in 0..Len(read) : LookedTo(d)
  BY <1>1 DEF SearchInv, SearchGoesOn
<1>4. /\ addresses \in Seq(Readable) /\ Len(addresses) = Len(read) - d
      /\ \A i \in DOMAIN addresses : addresses[i] = read[d + i]
      /\ WithinLimits => target.path.root \notin searched
      /\ derived = cs * Each + todo
      /\ \A n \in Nat : n < todo => Search!Key(a_, n) # target.path
  BY <1>1, <1>3 DEF LookedTo
<1>5. /\ a_ \in Readable /\ d < Len(read) /\ IsFiniteSet(searched)
      /\ more = RootsBefore(read, d + 1)
  BY <1>1, <1>2, <1>3, WithinPromise DEF SearchInv
<1>6. a_.coin \in Search!AllCoins
  BY <1>2, <1>5, ReadableIs
<1>7. AddressRead' = read /\ Readable' = Readable /\ WithinLimits' = WithinLimits
  BY <1>1, ReadStays
<1>8. Len(read) \in Nat /\ d \in Nat
  BY ReadAs
<1> HIDE DEF read
<1>9. d + 1 \in 0..Len(read)
  BY <1>5, <1>8
<1>10. /\ addresses' \in Seq(Readable) /\ Len(addresses') = Len(read) - (d + 1)
       /\ \A i \in DOMAIN (addresses') : addresses'[i] = read[(d + 1) + i]
  <2>1. /\ Len(addresses) \in Nat /\ Len(addresses) > 0 /\ DOMAIN addresses = 1..Len(addresses)
        /\ addresses' \in Seq(Readable) /\ Len(addresses') = Len(addresses) - 1
        /\ DOMAIN (addresses') = 1..(Len(addresses) - 1)
        /\ \A i \in 1..(Len(addresses) - 1) : addresses'[i] = addresses[i + 1]
    BY <1>1, <1>4
  <2>2. \A i \in DOMAIN (addresses') : i + 1 \in DOMAIN addresses /\ d + (i + 1) = (d + 1) + i
    BY <1>8, <2>1
  <2>3. \A i \in DOMAIN (addresses') : addresses'[i] = read[(d + 1) + i]
    BY <1>4, <2>1, <2>2
  <2>4. Len(addresses') = Len(read) - (d + 1)
    BY <1>4, <1>8, <1>9, <2>1
  <2>5. QED
    BY <2>1, <2>3, <2>4
<1>11. WithinLimits => target.path.root \notin more
  <2>1. ASSUME WithinLimits, target.path.root \in Search!RootsOf(a_) PROVE FALSE
    <3>1. target.path.root \notin searched
      BY <1>4, <2>1
    <3>2. PICK n \in Nat : n < Search!Keys(a_) /\ Search!Key(a_, n) = target.path
      BY <1>2, <1>5, <2>1, <3>1, EachIsLooked
    <3>3. QED
      BY <1>1, <1>4, <3>2
  <2>2. QED
    BY <1>4, <2>1
<1>12. derived = cm * Each + 0
  <2>1. cs \in Nat /\ l \in Nat /\ cm = cs + l
    BY <1>5, <1>6, RootsAdd
  <2>2. derived = cs * Each + l * Each
    BY <1>1, <1>4, <1>6, KeysAre
  <2> HIDE DEF cs, cm, l
  <2>3. cm * Each \in Nat /\ cs * Each + l * Each = cm * Each
    BY <2>1, EachIs
  <2>4. QED
    BY <2>2, <2>3
<1> HIDE DEF cs, cm, l
<1>13. addresses' # <<>> => todo' <= Search!Keys(addresses[1])'
  <2> DEFINE b_ == addresses'[1]
  <2>1. ASSUME addresses' # <<>> PROVE b_ \in Readable
    BY <1>10, <2>1
  <2>2. ASSUME addresses' # <<>> PROVE b_.coin \in Search!AllCoins
    BY <1>2, <2>1, <2>2, ReadableIs
  <2> HIDE DEF b_
  <2>3. addresses' # <<>> => Len(LeftOf(b_, searched')) * 2 * Accounts * Indexes \in Nat
    BY <2>2, KeysAreSome
  <2>4. Search!Keys(addresses[1])' = Len(LeftOf(b_, searched')) * 2 * Accounts * Indexes
    BY DEF Search!Keys, Search!RootsLeft, LeftOf, b_
  <2> DEFINE keys_ == Len(LeftOf(b_, searched')) * 2 * Accounts * Indexes
  <2> HIDE DEF keys_
  <2>5. addresses' # <<>> => keys_ \in Nat
    BY <2>3 DEF keys_
  <2>6. QED
    BY <1>1, <2>4, <2>5 DEF keys_
<1>14. LookedTo(d + 1)'
  <2>1. \A n \in Nat : ~ (n < todo')
    BY <1>1
  <2>2. searched' = RootsBefore(AddressRead', d + 1)
    BY <1>1, <1>5, <1>7
  <2>3. derived' = Cardinality(searched') * Each + todo'
    BY <1>1, <1>12 DEF cm
  <2>4. WithinLimits' => target'.path.root \notin searched'
    BY <1>1, <1>7, <1>11
  <2> HIDE DEF more
  <2>5. QED
    BY <1>1, <1>7, <1>10, <1>13, <2>1, <2>2, <2>3, <2>4 DEF LookedTo
<1>15. SearchGoesOn'
  BY <1>1, <1>2, <1>7, <1>9, <1>14 DEF SearchGoesOn
<1>16. SearchBegun' /\ SearchPromised' /\ SearchEnded'
  BY <1>1, <1>2, <1>7 DEF SearchInv, SearchBegun, SearchPromised, SearchEnded, read
<1>17. QED
  BY <1>15, <1>16 DEF SearchInv

LEMMA SearchStutters == SearchInv /\ UNCHANGED searchVars => SearchInv'
<1> SUFFICES ASSUME SearchInv, UNCHANGED searchVars PROVE SearchInv'
  OBVIOUS
<1>1. UNCHANGED <<seek, target, named, path, addresses, searched, todo, derived, promised, found>>
  BY DEF searchVars
<1>2. /\ AddressRead' = AddressRead /\ Readable' = Readable /\ WithinLimits' = WithinLimits
      /\ Search!IsItsAddress' = Search!IsItsAddress /\ IsToBeFound' = IsToBeFound
  BY <1>1, ReadStays DEF IsToBeFound, WithinLimits
<1>3. \A d : LookedTo(d)' = LookedTo(d)
  <2>1. /\ Search!Keys(addresses[1])' = Search!Keys(addresses[1])
        /\ \A n : Search!Key(addresses[1], n)' = Search!Key(addresses[1], n)
    BY <1>1 DEF Search!Keys, Search!Key, Search!RootsLeft
  <2>2. QED
    BY <1>1, <1>2, <2>1 DEF LookedTo
<1>4. SearchBegun' /\ SearchPromised' /\ SearchEnded'
  BY <1>1, <1>2 DEF SearchInv, SearchBegun, SearchPromised, SearchEnded
<1>5. SearchGoesOn'
  BY <1>1, <1>2, <1>3 DEF SearchInv, SearchGoesOn
<1>6. QED
  BY <1>4, <1>5 DEF SearchInv

LEMMA SearchKeeps == SearchInv /\ Search!Next => SearchInv'
  BY SearchTypes, SearchDescribes, SearchLooksAtPath, SearchLooksAtKey, SearchNextAddress,
     SearchEndsIt DEF Search!Next

LEMMA OnlySearchRuns ==
  [PartsNext]_partsVars /\ running = "search" => Search!Next \/ UNCHANGED searchVars
  BY DEF PartsNext, partsVars, OthersStay, RekeyRuns, SearchRuns, DrawRuns, EntryRuns, WordsRun,
         MakingRuns, ListRuns, LineRuns, PageRuns, InputRuns, AnswersRun, RequestRun, ReferenceRuns,
         HuntRuns

(* An address that a wallet of its coin derived within the limits is found *)
(* at its path, whatever other coins share its form, and no other path is  *)
(* given for it; the search covers the keys it said it would, no more, and *)
(* no fewer where the address was not found.                               *)
THEOREM AddressesAreFound == PartsSpec => []AddressIsFound
<1> DEFINE Inv == running = "search" => SearchInv
<1>1. PartsInit => Inv
  BY SearchBegins DEF PartsInit
<1>2. Inv /\ [PartsNext]_partsVars => Inv'
  <2> SUFFICES ASSUME SearchInv, running = "search", [PartsNext]_partsVars PROVE SearchInv'
    BY PartStays
  <2>1. CASE Search!Next
    BY <2>1, SearchKeeps
  <2>2. CASE UNCHANGED searchVars
    BY <2>2, SearchStutters
  <2>3. QED
    BY <2>1, <2>2, OnlySearchRuns
<1>3. Inv => AddressIsFound
  BY SearchTells DEF AddressIsFound
<1>4. QED
  BY <1>1, <1>2, <1>3, PTL DEF PartsSpec
=============================================================================
