--------------------------- MODULE TerminalInput ----------------------------
(***************************************************************************)
(* What the command line tool reads (src/bin/mhfe/hidden_input.rs,         *)
(* terminal.rs, raw_io.rs): the keys of a choice and the lines of a person *)
(* at a terminal, who types when they like, and the lines of a script.     *)
(*                                                                         *)
(* The terminal keeps what nobody has read.  A press of a key sends its    *)
(* bytes at once.  What a line's bytes become is TypedLine's, what a key   *)
(* does that of Lists.                                                     *)
(***************************************************************************)
EXTENDS Naturals, Sequences, SequencesExt

CONSTANTS Capacity,   \* LINE_CAPACITY, with the line break
          Hurried     \* whether keys come with Escape, typed ahead or sent for Alt

VARIABLES
  feed,      \* "begin", where the answers come from, or "refused", "closed"
  system,    \* "unix" or "windows"
  prompt,    \* its number
  reads,     \* what is read: "nothing", "keys", "line" without echo, "visible", "restore"
  queue,     \* bytes typed, or of a script, that nobody has read
  pending,   \* the rest of a character that a console gave whole
  held,      \* bytes of the key or the line being read
  key,       \* the key last read, and its bytes
  answer,    \* the answer last read: what became of it, and its bytes
  presses,   \* typed so far
  script     \* the lines of the script

vars == <<feed, system, prompt, reads, queue, pending, held, key, answer, presses, script>>

MaxPresses == 3
MaxPrompts == 2

(* The bytes of a press: a control sequence of an arrow without and with a *)
(* modifier, Page Up, Alt with a letter, which a terminal sends as Escape  *)
(* and the letter, Alt with Page Up, and a letter of two bytes.            *)
Sent(press) ==
  CASE press = "digit"     -> <<"5">>
    [] press = "enter"     -> <<"\n">>
    [] press = "escape"    -> <<"ESC">>
    [] press = "up"        -> <<"ESC", "[", "A">>
    [] press = "upInMode"  -> <<"ESC", "O", "A">>
    [] press = "ctrlUp"    -> <<"ESC", "[", "1", ";", "5", "A">>
    [] press = "pageUp"    -> <<"ESC", "[", "5", "~">>
    [] press = "altLetter" -> <<"ESC", "x">>
    [] press = "altPageUp" -> <<"ESC", "ESC", "[", "5", "~">>
    [] press = "wide"      -> <<"C3", "A9">>

Usual   == {"digit", "enter", "up", "upInMode", "ctrlUp", "pageUp", "altLetter", "wide"}
Presses == Usual \cup {"escape"} \cup IF Hurried THEN {"altPageUp"} ELSE {}

(* A script's line: the length of its answer, and how it ends.             *)
Line(length, ending) == [length |-> length, ending |-> ending]
Breaks == [lf |-> <<"\n">>, crlf |-> <<"\r", "\n">>, none |-> <<>>]
Scripts ==
  {<<first, second>> :
     first \in {Line(n, ending) : n \in 0 .. Capacity, ending \in {"lf", "crlf"}},
     second \in {Line(n, ending) : n \in 0 .. Capacity, ending \in {"lf", "crlf", "none"}}}

(* A byte with where it comes from: the press or line, its number, whether *)
(* it is the press's last, and the prompt that read without echo meanwhile *)
(* or 0.                                                                   *)
Byte(byte, press, number, last, at) ==
  [byte |-> byte, press |-> press, number |-> number, last |-> last, at |-> at]

Bytes(sent, press, number, at) ==
  [i \in 1 .. Len(sent) |-> Byte(sent[i], press, number, i = Len(sent), at)]

BytesOfLine(line, number) ==
  Bytes([i \in 1 .. line.length |-> "x"] \o Breaks[line.ending], "line", number, 0)

NoKey    == [key |-> "none", bytes |-> <<>>]
NoAnswer == [came |-> "none", bytes |-> <<>>]

Init ==
  /\ feed = "begin" /\ system = "unix" /\ prompt = 0 /\ reads = "nothing"
  /\ queue = <<>> /\ pending = <<>> /\ held = <<>> /\ key = NoKey /\ answer = NoAnswer
  /\ presses = 0 /\ script = <<>>

(* Input::new: a script only off a terminal; no terminal and no --stdin is *)
(* refused where a secret or an answer is asked.                           *)
Begins ==
  /\ feed = "begin"
  /\ \E atTerminal, fromStandardInput \in BOOLEAN :
       feed' = IF atTerminal THEN "terminal"
               ELSE IF fromStandardInput THEN "script" ELSE "refused"
  /\ system' \in {"unix", "windows"}
  /\ IF feed' = "script"
     THEN /\ script' \in Scripts
          /\ queue' = BytesOfLine(script'[1], 1) \o BytesOfLine(script'[2], 2)
     ELSE UNCHANGED <<script, queue>>
  /\ UNCHANGED <<prompt, reads, pending, held, key, answer, presses>>

-----------------------------------------------------------------------------
(* The terminal.                                                           *)

Switched == reads \in {"keys", "line", "restore"}

(* Escape alone: the person presses it at a choice, and no other key until *)
(* it has been read.                                                       *)
Lone == \E i \in DOMAIN queue : queue[i].press = "escape"
MayPress(press) ==
  \/ Hurried
  \/ ~Lone /\ (press = "escape" => reads = "keys" /\ held = <<>> /\ queue = <<>>)

Types ==
  /\ feed = "terminal" /\ presses < MaxPresses
  /\ Hurried \/ \A i \in DOMAIN held : held[i].press # "escape"
  /\ \E press \in Presses :
       /\ MayPress(press)
       /\ queue' = queue \o Bytes(Sent(press), press, presses + 1,
                                  IF Switched THEN prompt ELSE 0)
  /\ presses' = presses + 1
  /\ UNCHANGED <<feed, system, prompt, reads, pending, held, key, answer, script>>

(* A prompt: with_keys and a line without echo switch the terminal, which  *)
(* keeps what was typed ahead (TCSANOW).  A prompt has a reader of its own.*)
Asks ==
  /\ feed = "terminal" /\ reads = "nothing" /\ prompt < MaxPrompts
  /\ reads' \in {"keys", "line", "visible"} /\ prompt' = prompt + 1
  /\ pending' = <<>> /\ held' = <<>> /\ answer' = NoAnswer /\ key' = NoKey
  /\ UNCHANGED <<feed, system, queue, presses, script>>

(* Reader::read of one byte: a console gives a character whole, whose      *)
(* other bytes wait in the reader.                                         *)
Takes(byte) ==
  IF pending # <<>> THEN byte = Head(pending) /\ pending' = Tail(pending) /\ UNCHANGED queue
  ELSE /\ queue # <<>> /\ byte = Head(queue)
       /\ IF system = "windows" /\ byte.press = "wide" /\ ~byte.last
          THEN pending' = <<queue[2]>> /\ queue' = Tail(Tail(queue))
          ELSE queue' = Tail(queue) /\ UNCHANGED pending
NextByte == IF pending # <<>> THEN Head(pending) ELSE Head(queue)
HasByte  == pending # <<>> \/ queue # <<>>

-----------------------------------------------------------------------------
(* Keys.                                                                   *)

(* @ to ~: the letters, [ and O among them.                                *)
FinalBytes == {"A", "O", "[", "x", "~"}
Texts == [i \in DOMAIN held |-> held[i].byte]

ArrowOf(byte) == IF byte = "A" THEN "Up" ELSE "Other"

(* The key of a control sequence: its parameter bytes, then the final one. *)
ControlKeySlip(parameters, byte) ==
  IF parameters = <<>> THEN ArrowOf(byte)
  ELSE IF parameters[1] = "5" THEN "PageUp" ELSE ArrowOf(byte)
ControlKey(parameters, byte) ==
  IF parameters = <<>> THEN ArrowOf(byte)
  ELSE IF parameters = <<"5">> /\ byte = "~" THEN "PageUp" ELSE "Other"

(* The key that a byte ends, after the bytes held, or "more".              *)
KeyWithSlip(before, byte) ==
  IF before = <<>>
  THEN CASE byte \in {"\r", "\n"} -> "Enter" [] byte = "5" -> "Digit"
         [] byte = "ESC" -> "more" [] OTHER -> "Other"
  ELSE IF before = <<"ESC">> THEN IF byte \in {"[", "O"} THEN "more" ELSE "Other"
  ELSE ArrowOf(byte)
KeyWith(before, byte) ==
  IF before = <<>>
  THEN CASE byte \in {"\r", "\n"} -> "Enter" [] byte = "5" -> "Digit"
         [] byte = "ESC" -> "more" [] OTHER -> "Other"
  ELSE IF before = <<"ESC">> THEN IF byte \in {"[", "O"} THEN "more" ELSE "Other"
  ELSE IF before[2] = "O" THEN ArrowOf(byte)
  ELSE IF byte \in FinalBytes THEN ControlKey(SubSeq(before, 3, Len(before)), byte)
  ELSE "more"

(* What the choice does with a key: these end it (Lists).                  *)
EndsChoice(name) == name \in {"Enter", "Digit", "Quit"}

Gives(name, bytes) ==
  /\ key' = [key |-> name, bytes |-> bytes] /\ held' = <<>>
  /\ IF EndsChoice(name)
     THEN reads' = "restore" /\ answer' = [came |-> "given", bytes |-> bytes]
     ELSE UNCHANGED <<reads, answer>>

(* read_key, a byte at a time.                                             *)
ReadsKey ==
  /\ reads = "keys" /\ HasByte /\ Takes(NextByte)
  /\ LET name == KeyWith(Texts, NextByte.byte)
         bytes == Append(held, NextByte) IN
     IF name = "more" THEN held' = bytes /\ UNCHANGED <<key, reads, answer>>
     ELSE Gives(name, bytes)
  /\ UNCHANGED <<feed, system, prompt, presses, script>>

(* input_within: the system alone is asked, not what the reader keeps.     *)
NothingFollows == queue = <<>>

(* more_within: nothing follows an Escape for ESCAPE_DELAY.                *)
EscapeAlone ==
  /\ reads = "keys" /\ Texts = <<"ESC">> /\ NothingFollows /\ held[1].last
  /\ Gives("Quit", held)
  /\ UNCHANGED <<feed, system, prompt, queue, pending, presses, script>>

-----------------------------------------------------------------------------
(* Lines.                                                                  *)

(* A line without echo, to its Enter.                                      *)
ReadsByte ==
  /\ reads = "line" /\ HasByte /\ Takes(NextByte)
  /\ IF NextByte.byte = "\n"
     THEN reads' = "restore" /\ answer' = [came |-> "given", bytes |-> held] /\ UNCHANGED held
     ELSE held' = Append(held, NextByte) /\ UNCHANGED <<reads, answer>>
  /\ UNCHANGED <<feed, system, prompt, key, presses, script>>

(* restore (TCSAFLUSH, FlushConsoleInputBuffer): what was typed and not    *)
(* read is discarded.                                                      *)
LeftAfterSlip(typed) == typed
LeftAfter(typed) == <<>>

Restores ==
  /\ reads = "restore" /\ reads' = "nothing"
  /\ queue' = LeftAfter(queue) /\ pending' = <<>> /\ held' = <<>>
  /\ UNCHANGED <<feed, system, prompt, key, answer, presses, script>>

(* strip_line_ending: the line break and nothing else.                     *)
StrippedSlip(line) == IF line # <<>> /\ Last(line).byte = "\n" THEN Front(line) ELSE line
Stripped(line) ==
  IF line = <<>> \/ Last(line).byte # "\n" THEN line
  ELSE IF Len(line) > 1 /\ line[Len(line) - 1].byte = "\r"
  THEN SubSeq(line, 1, Len(line) - 2) ELSE Front(line)

(* read_bounded_line: the bytes up to a line break, the capacity or the    *)
(* end.                                                                    *)
ToBreak(bytes) == SelectInSeq(bytes, LAMBDA b : b.byte = "\n")
TakenOf(bytes) ==
  LET first == ToBreak(bytes)
      end == IF first = 0 THEN Len(bytes) ELSE first IN
  SubSeq(bytes, 1, IF end < Capacity THEN end ELSE Capacity)

ReadLine(line) ==
  IF Len(line) = Capacity /\ Last(line).byte # "\n" THEN [came |-> "too long", bytes |-> <<>>]
  ELSE IF line = <<>> THEN [came |-> "ended", bytes |-> <<>>]
  ELSE [came |-> "given", bytes |-> Stripped(line)]

(* A visible answer at a terminal, which gives a line when it is whole.    *)
(* A refused one is asked again.                                           *)
ReadsVisible ==
  /\ reads = "visible" /\ ToBreak(queue) # 0
  /\ queue' = SubSeq(queue, Len(TakenOf(queue)) + 1, Len(queue))
  /\ answer' = ReadLine(TakenOf(queue))
  /\ reads' = IF answer'.came = "given" THEN "nothing" ELSE reads
  /\ UNCHANGED <<feed, system, prompt, pending, held, key, presses, script>>

(* read_script_line, which ends the command for an answer too long and for *)
(* none.                                                                   *)
ReadsScript ==
  /\ feed = "script" /\ prompt < Len(script) + 1
  /\ prompt' = prompt + 1
  /\ queue' = SubSeq(queue, Len(TakenOf(queue)) + 1, Len(queue))
  /\ answer' = ReadLine(TakenOf(queue))
  /\ feed' = IF answer'.came = "given" THEN feed ELSE "closed"
  /\ UNCHANGED <<system, reads, pending, held, key, presses, script>>

Next == \/ Begins \/ Types \/ Asks \/ ReadsKey \/ EscapeAlone \/ ReadsByte \/ Restores
        \/ ReadsVisible \/ ReadsScript

Spec == Init /\ [][Next]_vars

-----------------------------------------------------------------------------
(* Properties.                                                             *)

Meant(press) ==
  CASE press = "digit" -> "Digit" [] press = "enter" -> "Enter" [] press = "escape" -> "Quit"
    [] press \in {"up", "upInMode"} -> "Up" [] press = "pageUp" -> "PageUp" [] OTHER -> "Other"

(* "no byte of it, such as the 5 of Ctrl+Up, is taken for a key of its     *)
(* own": a digit that answers a choice is one the person pressed.          *)
DigitIsPressed == key.key = "Digit" => key.bytes[1].press = "digit"

(* A key is one press, read to its end and for what it is; of a letter of  *)
(* several bytes each is another key that means nothing.                   *)
KeysAreWhole ==
  key # NoKey =>
    /\ \A i \in DOMAIN key.bytes : key.bytes[i].number = key.bytes[1].number
    /\ Last(key.bytes).last \/ Last(key.bytes).press = "wide"
    /\ key.key = Meant(key.bytes[1].press)

(* What is typed while a prompt reads without echo reaches no later one,   *)
(* nor the shell.                                                          *)
NothingIsLeft ==
  /\ \A i \in DOMAIN answer.bytes : answer.bytes[i].at \in {0, prompt}
  /\ reads = "nothing" => \A i \in DOMAIN queue : queue[i].at = 0

(* A script's answers are its lines one by one, each whole and without its *)
(* line break, and nothing after an answer is read.                        *)
LinesOneByOne ==
  feed \in {"script", "closed"} /\ prompt > 0 =>
    LET line == IF prompt \in DOMAIN script THEN script[prompt] ELSE Line(0, "none") IN
    /\ answer.came = "given" =>
         /\ Len(answer.bytes) = line.length
         /\ \A i \in DOMAIN answer.bytes : answer.bytes[i].number = prompt
         /\ \A i \in DOMAIN queue : queue[i].number > prompt
    /\ answer.came = "ended" <=> line = Line(0, "none")
    /\ answer.came = "too long" <=> line.length + Len(Breaks[line.ending]) >= Capacity
                                    /\ ~(line.length + Len(Breaks[line.ending]) = Capacity
                                         /\ line.ending # "none")

(* What is read is what the person, or the script, gave for it.            *)
InputIsTheirs == KeysAreWhole /\ NothingIsLeft /\ LinesOneByOne
=============================================================================
