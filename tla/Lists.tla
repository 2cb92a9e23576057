------------------------------- MODULE Lists --------------------------------
(***************************************************************************)
(* Questions with a list of answers (choice.rs, terminal.rs), the entries  *)
(* of the start menu (menu.rs, choose) and the screen that scrolls through *)
(* what a recovery has shown (scroll.rs).                                  *)
(*                                                                         *)
(* A block of lines is redrawn by moving the cursor up over its rows, so   *)
(* what the code counts must be what the terminal shows, also once its     *)
(* width has changed: a terminal wraps the lines of its main screen again, *)
(* those of the alternate screen stay as drawn.                            *)
(***************************************************************************)
EXTENDS Integers, Sequences, SequencesExt, FiniteSets, FiniteSetsExt

VARIABLES
  list,       \* "none", "asked", "scrolling", then "answered", "cancelled" or "refused"
  form,       \* "question", "own" (without a default), "menu" or "numbered"
  alternate,  \* whether the alternate screen is shown
  columns,    \* of the terminal
  ahead,      \* keys typed before the list appeared that still wait
  fresh,      \* whether the list has appeared less than 200 ms ago
  marked,     \* the answer highlighted, 0 for none
  lines,      \* the widths of the lines drawn, and the columns they were drawn at
  rows,       \* the rows those lines take on the terminal
  off,        \* rows that an erasure left, or took from above the block
  pressed,    \* the keys that the person pressed at the list
  taken,      \* the answer taken, 0 for none
  top,        \* the first line that the scrolling screen shows
  fills       \* how many it shows

vars == <<list, form, alternate, columns, ahead, fresh, marked, lines, rows, off, pressed, taken,
          top, fills>>

Widths  == {2, 4}     \* columns of a terminal
Answers == 1 .. 3
Block   == <<1, 4, 3>>  \* the widths of the lines of a question with its answers
Lines   == <<1, 3, 4, 1, 5>>  \* what a recovery has shown
Room    == 3            \* rows left for them

RowsOf(width, at) == IF width = 0 THEN 1 ELSE (width + at - 1) \div at
RowsAt(widths, at) == FoldSeq(LAMBDA width, n : RowsOf(width, at) + n, 0, widths)

Nothing == [widths |-> <<>>, at |-> 4]

-----------------------------------------------------------------------------
(* DrawnRows.                                                              *)

Draw(widths) == lines' = [widths |-> widths, at |-> columns] /\ rows' = RowsAt(widths, columns)

(* rows: where the terminal wraps again, the rows of the width it has now. *)
CountedSlip == RowsAt(lines.widths, columns)
Counted     == RowsAt(lines.widths, IF alternate THEN lines.at ELSE columns)

(* The menu has cleared the whole screen where the width changed.          *)
Erase ==
  off' = IF form = "menu" /\ columns # lines.at THEN off ELSE off + (rows - Counted)

-----------------------------------------------------------------------------

Init ==
  /\ list = "none" /\ form = "question" /\ alternate = FALSE /\ columns = 4 /\ ahead = {} /\ fresh = FALSE
  /\ marked = 0 /\ lines = Nothing /\ rows = 0 /\ off = 0 /\ pressed = {} /\ taken = 0
  /\ top = 0 /\ fills = 0

Keys == {"up", "down", "enter", "digit", "help", "quit"}

(* choose, choose_here and without a default: a list where the terminal    *)
(* can redraw, else numbered answers, and a script's line.                 *)
Asks ==
  /\ list = "none" /\ list' = "asked" /\ form' \in {"question", "own", "menu"}
  /\ alternate' \in BOOLEAN /\ (form' = "menu" => ~alternate') /\ columns' \in Widths
  /\ \E keys \in SUBSET Keys : Cardinality(keys) <= 1 /\ ahead' = keys
  /\ fresh' = TRUE /\ marked' = (IF form' = "own" THEN 0 ELSE 1)
  /\ lines' = [widths |-> Block, at |-> columns'] /\ rows' = RowsAt(Block, columns')
  /\ UNCHANGED <<off, pressed, taken, top, fills>>

AsksNumbered ==
  /\ list = "none" /\ list' = "asked" /\ form' = "numbered"
  /\ UNCHANGED <<alternate, columns, ahead, fresh, marked, lines, rows, off, pressed, taken,
                 top, fills>>

(* The owner changes the size of the window.                               *)
Resizes ==
  /\ list = "asked" /\ form # "numbered" /\ columns' \in Widths
  /\ rows' = IF alternate THEN rows ELSE RowsAt(lines.widths, columns')
  /\ UNCHANGED <<list, form, alternate, ahead, fresh, marked, lines, off, pressed, taken, top, fills>>

(* A key typed ahead is read at once; a person's comes later.              *)
Reads(key) ==
  /\ list = "asked" /\ form # "numbered"
  /\ \/ fresh /\ key \in ahead /\ ahead' = {} /\ UNCHANGED <<fresh, pressed>>
     \/ ahead = {} /\ pressed' = pressed \cup {key} /\ fresh' = FALSE /\ UNCHANGED ahead

(* run_list: a list whose answer must be the person's own takes no key     *)
(* that was typed before it appeared, but for the one that cancels.        *)
IgnoredSlip(key) == form = "own" /\ fresh /\ fresh' /\ key \in {"enter", "digit"}
Ignored(key)     == form = "own" /\ fresh /\ fresh' /\ key # "quit"

Skips(key) ==
  /\ Reads(key)
  /\ Ignored(key) \/ (key = "enter" /\ marked = 0) \/ (key = "help" /\ form = "menu")
  /\ UNCHANGED <<list, form, alternate, columns, marked, lines, rows, off, taken, top, fills>>

Moved(key) ==
  IF key = "up" THEN IF marked <= 1 THEN Cardinality(Answers) ELSE marked - 1
  ELSE IF key = "down" THEN (marked % Cardinality(Answers)) + 1 ELSE marked

(* The block is erased and drawn again, below the explanation that ? asks  *)
(* for.                                                                    *)
Redraws(key) ==
  /\ key \in {"up", "down", "help"} /\ Reads(key) /\ ~Ignored(key)
  /\ key = "help" => form # "menu"
  /\ marked' = Moved(key) /\ Draw(Block)
  /\ Erase
  /\ UNCHANGED <<list, form, alternate, columns, taken, top, fills>>

(* Enter takes the marked answer, a digit its own.                         *)
Takes(key) ==
  /\ key \in {"enter", "digit"} /\ Reads(key) /\ ~Ignored(key)
  /\ list' = "answered"
  /\ \/ key = "enter" /\ marked # 0 /\ taken' = marked
     \/ key = "digit" /\ taken' \in Answers
  /\ Erase
  /\ lines' = Nothing /\ rows' = 0
  /\ UNCHANGED <<form, alternate, columns, marked, top, fills>>

Cancels ==
  /\ Reads("quit") /\ list' = "cancelled"
  /\ Erase
  /\ lines' = Nothing /\ rows' = 0
  /\ UNCHANGED <<form, alternate, columns, marked, taken, top, fills>>

(* choose_numbered: a number of the list, or nothing for the first where   *)
(* there is a default; at a terminal anything else is asked again, and     *)
(* Ctrl+D cancels, in a script both refuse.                                *)
Numbers ==
  /\ list = "asked" /\ form = "numbered"
  /\ \/ list' = "answered" /\ taken' \in Answers /\ pressed' = {"digit"}
     \/ list' \in {"cancelled", "refused"} /\ UNCHANGED <<taken, pressed>>
  /\ UNCHANGED <<form, alternate, columns, ahead, fresh, marked, lines, rows, off, top, fills>>

-----------------------------------------------------------------------------
(* scroll.rs.                                                              *)

HeightOf(from, to, at) == RowsAt(SubSeq(Lines, from, to), at)

(* last_top: the first line from which the rest fits; a line taller than   *)
(* the room is shown alone.                                                *)
TooMuch(at) == {i \in DOMAIN Lines : HeightOf(i, Len(Lines), at) > Room}

LastTopSlip(at) == IF TooMuch(at) = {} THEN 1 ELSE Max(TooMuch(at))
LastTop(at) ==
  IF TooMuch(at) = {} THEN 1
  ELSE IF Len(Lines) \in TooMuch(at) THEN Len(Lines) ELSE Max(TooMuch(at)) + 1

(* draw: as many of the lines from the top as fit, at least one.           *)
Shown(from, at) ==
  Cardinality({i \in from .. Len(Lines) : i = from \/ HeightOf(from, i, at) <= Room})

Displays(from, at) ==
  LET first == IF from > LastTop(at) THEN LastTop(at) ELSE from
  IN top' = first /\ fills' = Shown(first, at)

(* scroll: once the keys typed before were discarded.                      *)
Scrolls ==
  /\ list = "none" /\ list' = "scrolling" /\ alternate' = TRUE /\ Displays(1, columns)
  /\ UNCHANGED <<form, columns, ahead, fresh, marked, lines, rows, off, pressed, taken>>

Up(by) == IF top > by THEN top - by ELSE 1

(* Drawn again for every key, it follows a change of the width too.        *)
Moves ==
  /\ list = "scrolling" /\ columns' \in Widths
  /\ \E to \in {Up(1), top + 1, Up(fills), top + fills} : Displays(to, columns')
  /\ UNCHANGED <<list, form, alternate, ahead, fresh, marked, lines, rows, off, pressed, taken>>

Leaves ==
  /\ list = "scrolling" /\ list' = "answered"
  /\ pressed' = pressed \cup {"enter"} /\ top' = 0 /\ fills' = 0
  /\ UNCHANGED <<form, alternate, columns, ahead, fresh, marked, lines, rows, off, taken>>

Next ==
  \/ Asks \/ AsksNumbered \/ Resizes \/ Cancels \/ Numbers \/ Scrolls \/ Moves \/ Leaves
  \/ \E key \in Keys : Skips(key) \/ Redraws(key) \/ Takes(key)

Spec == Init /\ [][Next]_vars

-----------------------------------------------------------------------------
(* Properties.                                                             *)

(* Every erasure takes the rows of the block, and no other: no line of a   *)
(* question is left, and what stands above it, such as a phrase shown for  *)
(* comparison, stays.                                                      *)
OnlyTheBlockIsErased == off = 0

(* An answer without a default is one that the person marked or chose      *)
(* after the question had appeared.                                        *)
OwnAnswerIsTheirs ==
  (list = "answered" /\ form = "own") =>
     "digit" \in pressed \/ ("enter" \in pressed /\ pressed \cap {"up", "down"} # {})

(* The scrolling screen shows no more than fits, can scroll on until the   *)
(* last line is shown, and then shows as much as fits above it.            *)
EveryLineCanBeRead ==
  list = "scrolling" =>
    /\ fills > 1 => HeightOf(top, top + fills - 1, columns) <= Room
    /\ top = LastTop(columns) <=> top + fills = Len(Lines) + 1
    /\ (top = LastTop(columns) /\ top > 1) => HeightOf(top - 1, Len(Lines), columns) > Room

ListsAreSound == OnlyTheBlockIsErased /\ OwnAnswerIsTheirs /\ EveryLineCanBeRead
=============================================================================
