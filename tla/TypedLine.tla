----------------------------- MODULE TypedLine -----------------------------
(***************************************************************************)
(* A line that a person types on a private screen: the editor of           *)
(* src/bin/mhfe/hidden_input.rs (LineEditor) and what it shows             *)
(* (LineScreen of typed_line.rs), on a terminal that carries out what is   *)
(* written to it.  The editor never reads the terminal back: what it       *)
(* redraws follows from its own count of cells.                            *)
(*                                                                         *)
(* A character is told by the cells it takes and the bytes it has: a       *)
(* letter, a space, a wide character, a combining mark, a control          *)
(* character, which is kept but not shown, and bytes that are not UTF-8.   *)
(***************************************************************************)
EXTENDS Integers, Sequences, SequencesExt, TLC

CONSTANTS Columns,      \* of the terminal
          Starts,       \* the widths a prompt may have
          Capacity,     \* LINE_CAPACITY, a bound
          MaxHint,      \* rows of a hint, a bound
          OfWords       \* whether the line is one of words, which Tab completes

VARIABLES
  entries,     \* LineEditor.entries: the characters of the line as they were taken
  arriving,    \* the character whose first byte has come, "none" for none
  reading,     \* "line", "rest" of one that is too long, "ended", "closed" or "refused"
  unread,      \* whether bytes of this line may still come to the next prompt
  screen       \* LineScreen, and the terminal it writes to

vars == <<entries, arriving, reading, unread, screen>>

Shown      == {"letter", "space", "wide", "mark"}
Multibyte  == {"wide", "mark"}
Characters == Shown \cup {"control", "byte", "bytes"}

Cells(c) == CASE c = "mark" -> 0 [] c = "wide" -> 2 [] OTHER -> 1
Bytes(c) == IF c \in Multibyte \cup {"bytes"} THEN 2 ELSE 1

LineBytes == FoldSeq(LAMBDA c, n : n + Bytes(c), 0, entries)
             + (IF arriving = "none" THEN 0 ELSE 1)

-----------------------------------------------------------------------------
(* The terminal.  Its cells are a function on the positions that are not   *)
(* blank.  A row that is full keeps the cursor (wrap) until the next       *)
(* character comes, or moves it on at once; `keeps` says which terminal.   *)

NextRow(t) == [t EXCEPT !.row = @ + 1, !.col = 0, !.wrap = FALSE]
Without(t, positions) ==
  [t EXCEPT !.cell = [p \in DOMAIN @ \ positions |-> @[p]]]

(* Writes a character, or a blank, of w cells.                             *)
Put(t, c, w) ==
  LET u    == IF t.wrap THEN NextRow(t) ELSE t
      v    == IF u.col + w > Columns THEN NextRow(u) ELSE u
      at   == {<<v.row, v.col + i>> : i \in 0 .. w - 1}
      left == Without(v, at)
      put  == IF c = "blank" THEN left
              ELSE [left EXCEPT !.cell = [p \in at |-> <<c, p[2] - v.col, 0>>] @@ @]
  IN IF v.col + w < Columns THEN [put EXCEPT !.col = @ + w]
     ELSE IF t.keeps THEN [put EXCEPT !.col = Columns - 1, !.wrap = TRUE]
     ELSE NextRow(put)

(* A combining mark joins the character before it, over all of its cells.  *)
Join(t) ==
  LET p  == IF t.wrap THEN <<t.row, t.col>>
            ELSE IF t.col > 0 THEN <<t.row, t.col - 1>> ELSE <<t.row - 1, Columns - 1>>
      q  == IF p \in DOMAIN t.cell /\ t.cell[p][2] = 1 THEN <<p[1], p[2] - 1>> ELSE p
  IN IF q \in DOMAIN t.cell THEN [t EXCEPT !.cell[q][3] = @ + 1] ELSE t

Write(t, c) == IF c = "mark" THEN Join(t) ELSE Put(t, c, Cells(c))

Backspace(t)   == [t EXCEPT !.col = @ - 1, !.wrap = FALSE]
Up(t, n)       == [t EXCEPT !.row = @ - n, !.wrap = FALSE]
ToColumn(t, n) == [t EXCEPT !.col = n, !.wrap = FALSE]
EraseBelow(t)  ==
  Without(t, {p \in DOMAIN t.cell : p[1] > t.row \/ (p[1] = t.row /\ p[2] >= t.col)})

(* A space, which wraps, then a backspace.                                 *)
SpaceBack(t) == Backspace(Put(t, "blank", 1))

-----------------------------------------------------------------------------
(* LineScreen: [start, shown, advances, pending, hints, term].             *)

RowOf(s, cells)    == (s.start + cells) \div Columns
ColumnOf(s, cells) == (s.start + cells) % Columns

(* A prompt just written, whose last character may have filled its row.    *)
Screen(start, hints, keeps) ==
  LET full == start > 0 /\ start % Columns = 0
      term == [cell |-> <<>>, keeps |-> keeps, hint |-> 0, wrap |-> full /\ keeps,
               row |-> IF full /\ keeps THEN (start \div Columns) - 1 ELSE start \div Columns,
               col |-> IF full /\ keeps THEN Columns - 1 ELSE start % Columns]
  IN [start |-> start, shown |-> 0, advances |-> <<>>, pending |-> full,
      hints |-> hints, term |-> term]

Settle(s) == IF s.pending THEN [s EXCEPT !.pending = FALSE, !.term = SpaceBack(@)] ELSE s

AddSlip(s, c) ==
  LET u       == Settle(s)
      advance == Cells(c)
      full    == advance > 0 /\ ColumnOf(u, u.shown + advance) = 0
      written == Write(u.term, c)
  IN [u EXCEPT !.shown = @ + advance, !.advances = Append(@, advance),
               !.term = IF full THEN SpaceBack(written) ELSE written]

Add(s, c) ==
  LET u       == Settle(s)
      skipped == IF Cells(c) = 2 /\ ColumnOf(u, u.shown) = Columns - 1 THEN 1 ELSE 0
      advance == skipped + Cells(c)
      full    == advance > 0 /\ ColumnOf(u, u.shown + advance) = 0
      written == Write(u.term, c)
  IN [u EXCEPT !.shown = @ + advance, !.advances = Append(@, advance),
               !.term = IF full THEN SpaceBack(written) ELSE written]

(* Takes the last n shown characters off, with any hint below them.        *)
TakeOff(s, n) ==
  LET u    == Settle(s)
      keep == Len(u.advances) - n
      kept == u.shown - FoldSeq(+, 0, SubSeq(u.advances, keep + 1, Len(u.advances)))
      up   == Up(u.term, RowOf(u, u.shown) - RowOf(u, kept))
  IN [u EXCEPT !.shown = kept, !.advances = SubSeq(@, 1, keep),
               !.term = [EraseBelow(ToColumn(up, ColumnOf(u, kept))) EXCEPT !.hint = 0]]

(* A hint of so many rows below the cursor, none as wide as the terminal,  *)
(* in place of the hint before.                                            *)
Hint(s, rows) ==
  LET u == Settle(s)
      Row(t, i) == Put(ToColumn([t EXCEPT !.row = @ + 1], 0), "hint", 1)
      below == FoldSeq(LAMBDA i, t : Row(t, i), EraseBelow(u.term), [i \in 1 .. rows |-> i])
      back  == IF rows = 0 THEN below ELSE ToColumn(Up(below, rows), ColumnOf(u, u.shown))
  IN IF s.hints THEN [u EXCEPT !.term = [back EXCEPT !.hint = rows]] ELSE s

(* Clears the hint once the line is done.                                  *)
Finish(s) == IF s.hints THEN [s EXCEPT !.term = [EraseBelow(@) EXCEPT !.hint = 0]] ELSE s

-----------------------------------------------------------------------------
(* LineEditor.                                                             *)

Init ==
  /\ entries = <<>> /\ arriving = "none"
  /\ reading = "line" /\ unread = TRUE
  /\ \E start \in Starts, hints, keeps \in BOOLEAN : screen = Screen(start, hints, keeps)

AddShown(s, c) == IF c \in Shown THEN Add(s, c) ELSE s

(* push and take: a whole character is kept, shown and hinted.  Bytes that *)
(* are not UTF-8 are kept, so that the whole answer is refused.            *)
Takes(c) ==
  /\ entries' = Append(entries, c) /\ arriving' = "none"
  /\ IF c \in {"byte", "bytes"} THEN UNCHANGED screen
     ELSE \E rows \in 0 .. MaxHint : screen' = Hint(AddShown(screen, c), rows)

Types ==
  /\ LineBytes < Capacity
  /\ \/ arriving = "none" /\ \E c \in Characters \ (Multibyte \cup {"bytes"}) : Takes(c)
     \/ /\ arriving = "none" /\ arriving' \in Multibyte
        /\ UNCHANGED <<entries, screen>>
     \/ arriving # "none" /\ (Takes(arriving) \/ Takes("bytes"))
  /\ UNCHANGED <<reading, unread>>

(* The last n characters that are shown, of those the line keeps.          *)
ShownOf(line) == SelectSeq(line, LAMBDA c : c \in Shown)

(* last_cell: the marks at the end and the character they combine with.    *)
LastCell(line) ==
  LET shown == ShownOf(line)
      bases == {i \in DOMAIN shown : shown[i] # "mark"}
      first == IF bases = {} THEN 1 ELSE CHOOSE i \in bases : \A j \in bases : j <= i
  IN SubSeq(shown, first, Len(shown))

(* remove: the character before a mark that is taken off is drawn again.   *)
Removes(n) ==
  LET kept == SubSeq(entries, 1, Len(entries) - n)
      off  == ShownOf(SubSeq(entries, Len(kept) + 1, Len(entries)))
      cell == IF "mark" \in ToSet(off) THEN LastCell(kept) ELSE <<>>
      gone == IF off = <<>> THEN screen ELSE TakeOff(screen, Len(off) + Len(cell))
  IN /\ entries' = kept /\ arriving' = "none"
     /\ \E rows \in 0 .. MaxHint :
          screen' = Hint(FoldLeft(Add, gone, cell), rows)

(* Ctrl+W: the spaces at the end and the word before them, in a line that  *)
(* is UTF-8 so far.                                                        *)
LastWord ==
  LET InWord(i) == entries[i] # "space"
      words == {i \in DOMAIN entries : InWord(i)}
      last  == IF words = {} THEN 0 ELSE CHOOSE i \in words : \A j \in words : j <= i
      gaps  == {i \in 1 .. last : ~InWord(i)}
      gap   == IF gaps = {} THEN 0 ELSE CHOOSE i \in gaps : \A j \in gaps : j <= i
  IN IF ToSet(entries) \cap {"byte", "bytes"} # {} THEN 0
     ELSE IF last = 0 THEN Len(entries) ELSE Len(entries) - gap

Erases ==
  /\ \/ arriving # "none" /\ arriving' = "none" /\ UNCHANGED <<entries, screen>>
     \/ arriving = "none" /\ Removes(IF entries = <<>> THEN 0 ELSE 1)
     \/ Removes(Len(entries))
     \/ OfWords /\ Removes(LastWord)
  /\ UNCHANGED <<reading, unread>>

(* Tab: the letters the words share, and a space after a whole word.  They *)
(* are pushed one by one; one too many refuses the line at once, and       *)
(* restore (TCSAFLUSH) discards what has come of the rest until then, which*)
(* of a long paste need not be all of it.                                  *)
Completions == {<<"letter">>, <<"space">>, <<"letter", "space">>}

Completes ==
  /\ OfWords /\ arriving = "none"
  /\ ToSet(SubSeq(entries, Len(entries) - LastWord + 1, Len(entries))) = {"letter"}
  /\ \E letters \in Completions, rows \in 0 .. MaxHint :
       LET fit == SubSeq(letters, 1, Min({Len(letters), Capacity - LineBytes})) IN
       /\ entries' = entries \o fit
       /\ screen' = IF fit = <<>> THEN screen
                    ELSE Hint(FoldLeft(LAMBDA s, c : Hint(Add(s, c), 0), screen, fit), rows)
       /\ IF Len(letters) > Len(fit) THEN reading' = "refused" /\ unread' \in BOOLEAN
          ELSE UNCHANGED <<reading, unread>>
  /\ UNCHANGED arriving

Ends ==
  /\ reading' = "ended" /\ unread' = FALSE
  /\ screen' = Finish(screen) /\ UNCHANGED <<entries, arriving>>

Closes ==
  /\ LineBytes = 0 /\ reading' = "closed" /\ unread' = FALSE
  /\ UNCHANGED <<entries, arriving, screen>>

(* A byte more than the line can hold.                                     *)
TooLong ==
  /\ LineBytes = Capacity /\ reading' = "rest"
  /\ UNCHANGED <<entries, arriving, unread, screen>>

(* drop_rest_of_line reads up to and with the Enter.                       *)
DropsRest ==
  /\ reading = "rest" /\ reading' = "refused" /\ unread' = FALSE
  /\ UNCHANGED <<entries, arriving, screen>>

Next ==
  \/ reading = "line" /\ (Types \/ Erases \/ Completes \/ Ends \/ Closes \/ TooLong)
  \/ DropsRest

Spec == Init /\ [][Next]_vars

-----------------------------------------------------------------------------
(* Properties.                                                             *)

(* Where the characters of a line belong, without regard to how they came  *)
(* there: one after the other, a wide one never across the end of a row, a *)
(* mark on the character before it.                                        *)
Placed(layout, c) ==
  LET from == IF c = "wide" /\ layout.at % Columns = Columns - 1 THEN layout.at + 1 ELSE layout.at
      base == {p \in DOMAIN layout.cells :
                 /\ layout.cells[p][2] = 0
                 /\ p + Cells(layout.cells[p][1]) = layout.at}
  IN IF c = "mark"
     THEN [layout EXCEPT !.cells = [p \in DOMAIN @ |->
             IF p \in base THEN <<@[p][1], 0, @[p][3] + 1>> ELSE @[p]]]
     ELSE [at    |-> from + Cells(c),
           cells |-> [p \in from .. from + Cells(c) - 1 |-> <<c, p - from, 0>>] @@ layout.cells]

Layout(line, start) == FoldLeft(Placed, [at |-> start, cells |-> <<>>], line)

(* After every key the screen shows the line as it is, every character in  *)
(* its cell with its marks, nothing of what was taken off, and the hint on *)
(* the rows below; and the cursor stands where the next character goes     *)
(* ("every change redraws only what follows it").                          *)
ScreenShowsLine ==
  LET layout == Layout(ShownOf(entries), screen.start)
      t      == screen.term
      row    == layout.at \div Columns
      Pos(p) == <<p \div Columns, p % Columns>>
      hints  == {<<row + i, 0>> : i \in 1 .. t.hint}
  IN /\ DOMAIN t.cell = {Pos(p) : p \in DOMAIN layout.cells} \cup hints
     /\ \A p \in DOMAIN layout.cells : t.cell[Pos(p)] = layout.cells[p]
     /\ ~screen.pending => ~t.wrap /\ <<t.row, t.col>> = Pos(layout.at)

(* A line that is refused as too long is read to its end: "the rest of the *)
(* line is read and dropped up to its Enter, so that it does not become    *)
(* the next answer".                                                       *)
RestIsDropped == reading = "refused" => ~unread
=============================================================================
