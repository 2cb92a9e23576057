----------------------------- MODULE Recoveries -----------------------------
(***************************************************************************)
(* mhfe decrypt with one or several passwords (src/bin/mhfe/decrypt.rs),   *)
(* and what its steps leave on the main screen (src/bin/mhfe/flow.rs).     *)
(*                                                                         *)
(* The main screen must not tell how many passwords were typed             *)
(* (AUD-007-SEC005).  The module runs the command beside the same one with *)
(* the first password alone: what both do is done to both.                 *)
(***************************************************************************)
EXTENDS Naturals, Sequences, SequencesExt

CONSTANTS MaxPasswords,   \* passwords typed, a bound
          MaxLevel        \* memory levels are 0..MaxLevel, a bound

VARIABLES
  decrypt,    \* the next step of run; where the command ended it stays
  setting,    \* whether a private screen can show the phrases, whether a stated
              \* length has a built-in check, and whether this is Windows
  levels,     \* the memory level of each password typed
  reserved,   \* the level whose memory the engine holds, or None
  flow,       \* the steps of the command
  alone,      \* those of the command with one password
  answers,    \* what came of each password so far
  exit        \* "none", "success", "no match", "resources", "failure", "cancelled"

vars == <<decrypt, setting, levels, reserved, flow, alone, answers, exit>>

Levels == 0..MaxLevel
None == MaxLevel + 1

-----------------------------------------------------------------------------
(* flow.rs.  Lines are kept for the summary, which the main screen gets at *)
(* the end; without steps the caller writes them there as they come.       *)

Fresh(on) == [on |-> on, summary |-> <<>>, last |-> "none", shown |-> "later",
              pending |-> <<>>, recording |-> TRUE]

Joins(f, kind) == f.last \in {"none", kind} \/ (f.last = "result" /\ kind = "fact")

KeepLinesSlip(f, kind, line, shown) ==
  [f EXCEPT !.summary = (IF Joins(f, kind) THEN @ ELSE Append(@, "")) \o <<line>>,
            !.last = kind, !.shown = shown,
            !.pending = IF shown = "next" THEN Append(@, line) ELSE @]

(* keep_lines, and its caller where it keeps nothing outside a flow.       *)
KeepLines(f, kind, line, shown) ==
  IF ~f.on THEN [f EXCEPT !.summary = Append(@, line)]
  ELSE IF f.recording
  THEN [f EXCEPT !.summary = (IF Joins(f, kind) THEN @ ELSE Append(@, "")) \o <<line>>,
                 !.last = kind, !.shown = shown,
                 !.pending = IF shown = "next" THEN Append(@, line) ELSE @]
  ELSE IF shown = "next"
  THEN [f EXCEPT !.pending = Append(@, line), !.shown = "next"]
  ELSE [f EXCEPT !.shown = "now"]

KeepLink(f, line) ==
  [f EXCEPT !.summary = IF f.recording THEN Append(@, line) ELSE @,
            !.pending = IF f.on /\ f.shown = "next" THEN Append(@, line) ELSE @]

(* step() shows what is pending and clears it.                             *)
Line(kind, line, shown) == [do |-> "keep", kind |-> kind, line |-> line, shown |-> shown]
Link(line) == [do |-> "link", line |-> line]
Step == [do |-> "step"]
Recording(on) == [do |-> "record", on |-> on]

Does(f, act) ==
  CASE act.do = "keep" -> KeepLines(f, act.kind, act.line, act.shown)
    [] act.do = "link" -> KeepLink(f, act.line)
    [] act.do = "step" -> [f EXCEPT !.pending = <<>>]
    [] act.do = "record" -> [f EXCEPT !.recording = act.on \/ ~f.on]

(* Acts of the command that it does with one password too, and of the      *)
(* further passwords alone.                                                *)
Both(acts) == flow' = FoldLeft(Does, flow, acts) /\ alone' = FoldLeft(Does, alone, acts)
Further(acts) == flow' = FoldLeft(Does, flow, acts) /\ UNCHANGED alone
Acts(further, acts) == IF further THEN Further(acts) ELSE Both(acts)

Record(line) == Line("record", line, "later")
Warn(line)   == Line("notice", line, "next")

-----------------------------------------------------------------------------
Init ==
  /\ decrypt = "begin" /\ setting = [private |-> FALSE, checked |-> FALSE, windows |-> FALSE]
  /\ levels = <<>> /\ reserved = None /\ flow = Fresh(FALSE) /\ alone = Fresh(FALSE)
  /\ answers = <<>> /\ exit = "none"

TypeOK ==
  /\ setting \in [private : BOOLEAN, checked : BOOLEAN, windows : BOOLEAN]
  /\ levels \in Seq(Levels) /\ Len(levels) <= MaxPasswords /\ Len(answers) <= Len(levels)
  /\ reserved \in Levels \cup {None} /\ {flow.recording, alone.recording} \subseteq BOOLEAN

(* run up to the first password and the passphrase of the 16-bit check,    *)
(* which belongs to the original phrase and comes before other passwords.  *)
Reads ==
  /\ decrypt = "begin" /\ decrypt' = "adding"
  /\ setting' \in [private : BOOLEAN, checked : BOOLEAN, windows : BOOLEAN]
  /\ \E level \in Levels : levels' = <<level>>
  /\ \E passphrase \in BOOLEAN :
       LET start == FoldLeft(Does, Fresh(setting'.private),
             <<Line("fact", "settings", "later"), Step, Record("container"), Step,
               Record("password"), Step>>
             \o (IF passphrase /\ ~setting'.checked THEN <<Step, Record("passphrase")>> ELSE <<>>))
       IN flow' = start /\ alone' = start
  /\ UNCHANGED <<reserved, answers, exit>>

(* add_passwords asks only where the phrases are shown privately, and a    *)
(* stated length of a built-in check takes one password.                   *)
Asks == setting.private /\ ~setting.checked
Question == <<Recording(FALSE), Warn("all shown"), Step>>

Adds ==
  /\ decrypt = "adding" /\ Asks /\ Len(levels) < MaxPasswords
  /\ \E level \in Levels : levels' = Append(levels, level)
  /\ Further(Question \o <<Step, Step, Record("password")>>)
  /\ UNCHANGED <<decrypt, setting, reserved, answers, exit>>

GoesOn ==
  /\ decrypt = "adding" /\ decrypt' = "reserving"
  /\ Both(IF Asks THEN Question \o <<Recording(TRUE)>> ELSE <<>>)
  /\ UNCHANGED <<setting, levels, reserved, answers, exit>>

-----------------------------------------------------------------------------
(* reserve_largest and settings::reserve_engine.                           *)

Largest == CHOOSE level \in ToSet(levels) : \A other \in ToSet(levels) : other <= level

(* The memory of a level is reserved; Windows may not lock it, and the     *)
(* person is asked whether to go on (ask_to_go_on); further where the      *)
(* reservation is not one of the command with one password.                *)
DiskAsked(answer) == <<Warn("disk"), Link("safe computer"), Record(answer)>>

Granted(level, further, before, after) ==
  /\ reserved' = level
  /\ \/ Acts(further, before \o after)
     \/ setting.windows /\ Acts(further, before \o DiskAsked("yes") \o after)

(* The person says No, or nobody can be asked.                             *)
Declined(further, before) ==
  /\ setting.windows /\ exit' = "failure"
  /\ \/ Acts(further, before \o DiskAsked("no"))
     \/ ~setting.private /\ Acts(further, before)

ReservesFirst ==
  /\ decrypt = "reserving" /\ UNCHANGED <<setting, levels, answers>>
  /\ \/ /\ Granted(levels[1], FALSE, <<>>, <<>>) /\ UNCHANGED exit
        /\ decrypt' = IF Largest > levels[1] THEN "reserving largest" ELSE "warning"
     \/ Declined(FALSE, <<>>) /\ UNCHANGED <<decrypt, reserved>>
     \/ exit' = "resources" /\ UNCHANGED <<decrypt, reserved, flow, alone>>

(* The first area is released, the larger one tried off the record, and    *)
(* where the system refuses it the first one reserved again.               *)
ReservesLargest ==
  /\ decrypt = "reserving largest" /\ UNCHANGED <<setting, levels, answers>>
  /\ \/ /\ Granted(Largest, TRUE, <<Recording(FALSE)>>, <<Recording(TRUE)>>)
        /\ UNCHANGED exit /\ decrypt' = "warning"
     \/ Declined(TRUE, <<Recording(FALSE)>>) /\ UNCHANGED <<decrypt, reserved>>
     \/ decrypt' = "falling back" /\ reserved' = None
        /\ Further(<<Recording(FALSE)>>) /\ UNCHANGED exit

FallsBack ==
  /\ decrypt = "falling back" /\ UNCHANGED <<setting, levels, answers>>
  /\ \/ /\ Granted(levels[1], TRUE, <<>>, <<Recording(TRUE)>>)
        /\ UNCHANGED exit /\ decrypt' = "warning"
     \/ Declined(TRUE, <<>>) /\ UNCHANGED <<decrypt, reserved>>
     \/ exit' = "resources" /\ UNCHANGED <<decrypt, reserved, flow, alone>>

WarnsOfPhrase ==
  /\ decrypt = "warning" /\ decrypt' = "recovering"
  /\ Both(<<Warn("will be shown"), Step>>)
  /\ UNCHANGED <<setting, levels, reserved, answers, exit>>

-----------------------------------------------------------------------------
(* recover_and_show.                                                       *)

Number == Len(answers) + 1

(* The progress line, and what show() says of the phrase, beside it and    *)
(* for the summary.                                                        *)
Shown(status) ==
  <<Line("result", "recovered", "later")>>
  \o (IF status = "verified" THEN <<Line("result", status, "now")>>
      ELSE <<Line("notice", status, "now"), Link("decrypt")>>)

(* Everything after the first password's phrase is off the record.         *)
Tells(acts) ==
  IF Number = 1 THEN Both(acts) ELSE Further(<<Recording(FALSE)>> \o acts)

RecoversSlip ==
  /\ decrypt = "recovering" /\ Number <= Len(levels)
  /\ \E status \in {"verified", "not verified"} : Tells(Shown(status))
  /\ answers' = Append(answers, "shown")
  /\ UNCHANGED <<decrypt, setting, levels, reserved, exit>>

Recovers ==
  /\ decrypt = "recovering" /\ Number <= Len(levels) /\ levels[Number] <= reserved
  /\ \E status \in {"verified", "not verified"} : Tells(Shown(status))
  /\ answers' = Append(answers, "shown")
  /\ UNCHANGED <<decrypt, setting, levels, reserved, exit>>

Skips ==
  /\ decrypt = "recovering" /\ Number <= Len(levels) /\ levels[Number] > reserved
  /\ Tells(<<Line("notice", "not recovered", "now")>>)
  /\ answers' = Append(answers, "too large")
  /\ UNCHANGED <<decrypt, setting, levels, reserved, exit>>

(* The check of a stated length fails, or Argon2 does.                     *)
Breaks ==
  /\ decrypt = "recovering" /\ Number <= Len(levels) /\ levels[Number] <= reserved
  /\ exit' \in {"failure"} \cup (IF setting.checked THEN {"no match"} ELSE {})
  /\ UNCHANGED <<decrypt, setting, levels, reserved, flow, alone, answers>>

Finishes ==
  /\ decrypt = "recovering" /\ Number > Len(levels) /\ exit' = "success"
  /\ Both(<<Recording(TRUE)>>)
  /\ UNCHANGED <<decrypt, setting, levels, reserved, answers>>

Cancels ==
  /\ decrypt # "begin" /\ exit' = "cancelled"
  /\ UNCHANGED <<decrypt, setting, levels, reserved, flow, alone, answers>>

Next ==
  /\ exit = "none"
  /\ \/ Reads \/ Adds \/ GoesOn \/ ReservesFirst \/ ReservesLargest \/ FallsBack
     \/ WarnsOfPhrase \/ Recovers \/ Skips \/ Breaks \/ Finishes \/ Cancels

Spec == Init /\ [][Next]_vars

-----------------------------------------------------------------------------
(* Properties.                                                             *)

(* At every moment, so at every end, Ctrl+C and failures too, the summary  *)
(* is that of the command with the first password alone: the main screen   *)
(* tells nothing of further passwords, nor of their settings               *)
(* (AUD-007-SEC005, AUD-047-SEC002).                                       *)
SummaryOfOne == flow.summary = alone.summary

(* No refusal of memory follows a phrase that was shown, the first         *)
(* password is always recovered, and each further one is, unless it needs  *)
(* more memory than could be reserved, which it is told; phrases of        *)
(* several passwords come out on a private screen only.                    *)
EveryPasswordIsAnswered ==
  /\ exit = "resources" => answers = <<>>
  /\ exit = "success" => Len(answers) = Len(levels) /\ answers[1] = "shown"
  /\ \A i \in DOMAIN answers : answers[i] = "shown" <=> levels[i] <= reserved
  /\ Len(levels) > 1 => setting.private

(* Every password is answered, and the summary tells of one.               *)
AnsweredAsOne == SummaryOfOne /\ EveryPasswordIsAnswered
=============================================================================
