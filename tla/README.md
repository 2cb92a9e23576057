# MHFE: specifications and proofs

MHFE encrypts an English BIP39 seed phrase with a password into a container that is a valid
BIP39 phrase itself, and turns it back. The repository has a Rust library, a command line tool, and
a browser package that runs the library as WebAssembly in Web Workers. What the cipher computes is
settled by published vectors. This project is about the rest: calls in any order, workers that
end at any moment, threads, signals between two statements, and the rules that decide which of
several phrases may leave a recovery, the questions of the tool's dialogs, and what a self-check that
passes is worth. It holds TLA+ modules translated from the source, model
checked with TLC on small instances, and theorems checked with TLAPS for every value of the
constants.

Contents: [the system](#the-system), [modules and runs](#modules-and-runs),
[fairness](#fairness), [bounds](#bounds), [what is proved](#what-is-proved),
[where code and comments differ](#where-code-and-comments-differ),
[what is not modelled](#what-is-not-modelled), [plan](#plan), [files](#files).

Paths below are those of the repository, without the leading `src/` that `PROJECT.json` puts before
them.

## The system

### Components

| Component | State it keeps | Operations | What makes it correct |
| --- | --- | --- | --- |
| Worker job (`web/runtime.js` `WorkerJob`, `web/worker-runtime.js`) | the promise, the worker, a limit's timer, the question being answered, bytes of secrets | run, cancel, each message, both limits, callbacks, answers | settles once, frees the slot once, kills no worker that loads WebAssembly, leaves no worker and no secret behind |
| Slot and checks of a class (`OperationSlot`, `PackageCheck`) | the call that holds the slot, the startup checks kept, the failure that closes the class | a long or quick call, selfTest, fullCheck, startupCheck, cancel | one long operation at a time; nothing begins unchecked, in a class that closed, or after its cancel |
| Self-check sets (`src/self_check.rs`, `worker-runtime.js`, `core-worker.js`) | the parts run, the report, the parts that passed on the page | run a set, leave out what passed, keep a pass | a pass kept for another class was earned by the same code; a wrong answer always shows |
| Rekey (`src/rekey.rs`, `src/rehearsal.rs`, `src/wasm_api/core.rs`) | the recovered state, the lengths offered, the phrase confirmed | recover, confirm, confirm again, the owner's answer, seal | only the owner's phrase is sealed again |
| Hidden wallets (`src/hidden.rs`, `web/client.js`, `web/core-worker.js`) | the passwords used, the open that waits, the worker's question | open, close, cancel | each open gets its own wallet or its end, close ends the session |
| Container search (`src/search.rs`) | next candidate, stop, abort, the best match, the first error | compare the candidates on threads or in turn, report, stop | the answer is that of the comparison in turn |
| Terminal (`terminal.rs`, `hidden_input.rs`, `flow.rs`, `scroll.rs`) | saved settings, the private screen, the drawing lock, the unverified container | prompts, private screens, steps, drawing, the handler of Ctrl+C | the echo comes back, no secret is left on a screen |
| Start menu (`menu.rs`, `protect.rs`) | the number of the running command, stopped | run a command, pass a stop on | a stop ends command and tool, the menu comes back to a clean terminal |
| Typed line (`hidden_input.rs`, `typed_line.rs`) | the characters kept, their cells | type, erase, complete, hint | the screen shows the line |
| Encryption (`src/mhfe.rs`, `src/operation.rs`, `encrypt.rs`) | the container before its check, the card, what a stop warns of | encrypt with its own recovery, show, check, report, keep | nothing unchecked is taken for checked; what is kept recovers the phrase |
| Recovery at a terminal (`decrypt.rs`, `flow.rs`) | the passwords, the reserved memory, the lines of the summary | reserve, recover one after another, show | each password is answered; the main screen tells nothing of further ones |
| Rehearsal (`src/rehearsal.rs`, `src/detection.rs`, `check.rs`) | a recovered state | compare with a reference, and again with a stated length | the result is true, and says what a rekey would take |
| Rekey dialog (`bin/mhfe/rekey.rs`) | the container, the settings and password, the confirmation | recover, confirm in one of four ways, ask again, seal, rehearse | the new container holds the owner's wallet; a recovery is not run in vain |
| Container, card and search (`container_repair.rs`, `container_search.rs`, `src/repair.rs`) | the words typed, what a repair or a search put in their place | read, repair, search, show, agree | what is used is what the person saw |
| New wallets (`src/wallet_check.rs`, `src/word_wishes.rs`, `src/random.rs`) | the draws so far, the source's probes | draw until a check passes and a wish is met | every phrase that meets the wishes is equally likely |
| Passwords (`check_word.rs`, `new_password.rs`, `eff.rs`, `strength.rs`, `word_hints.rs`) | the text typed, the words drawn or rolled | make, enter, review, repair, hint, estimate | the password used is the owner's; nothing told of one is too much |
| Addresses (`wallet.rs`) | the roots and paths still to search | read an address, state the search, search | an address of the wallet is found where it is |
| Operations and requests of a page (`web/client.js`, `wallet.js`, `passwords.js`, `repair.js`, `src/wasm_api/`) | the copies of the secrets, the engine between its two known answers | check the arguments, copy, send, compute, answer, wipe | no copy stays, no answer rests on a wrong build, page and library refuse alike |
| Self-test and known answers (`self_test.rs`, `self_check/sets.rs`, `known_answers.rs`) | the parts tried, the findings | run a set at a tier, run the vectors | a pass vouches for what is computed; a fault is where it is said to be |
| Keys and lines (`hidden_input.rs`, `raw_io.rs`, `choice.rs`, `scroll.rs`) | the bytes nobody has read, the rows drawn | read a key or a line, draw a list, scroll | what is read is what the person gave; a block redrawn leaves nothing of the old |
| Process (`main.rs`, `protect.rs`, `startup.rs`, `settings.rs`, `engine*`, `memory.rs`) | isolation of its threads, swap, the reserved memory | prepare, restart without swap, check, reserve | no secret is asked for before the protection is there or its gap is told |
| Page server (`serve.rs`) | the count of connections, the page read | read, compare, accept, answer, close | the count never leaks a place; only the checked page is served |
| Data (`container.rs`, `phrase.rs`, `packing.rs`) | none | pure functions | vectors and round trips |

`PROJECT.json` lists every component with its sources, and every hazard at the line where it bites.

### How they interact

- A page calls a class. The class waits for its self-check (`PackageCheck.require`), takes its slot
  (`OperationSlot`) and runs one `WorkerJob`, whose worker calls the WebAssembly bindings, which call
  the library. News and questions come back as messages; a callback of the page may fail, and
  `cancel()` may come between any two tasks.
- Rekey and hidden wallets keep a session in the worker across questions: each answer of the page
  is another call into `src/wasm_api/core.rs`.
- The tool's commands call the library directly. A long operation reports every round to a callback
  that may stop it. Everything a command shows goes through `style.rs`, `flow.rs` and
  `terminal.rs`, beside a second thread that handles Ctrl+C and the signals that end a process.
- The start menu runs each command as a process of its own on the same terminal, and passes on a
  stop that reaches the menu alone.

### What is hard here

Page and worker interleave, and a worker must not be terminated while it loads the WebAssembly, so an
ended job waits for its worker under a limit. A class closes on any failed part while calls wait on
other checks. The page of a rekey may call in any order, each confirmation may be refused, and by chance
several lengths of a container pass their check. The search shares three atomics and two mutexes among
its threads. A rule that the library has is repeated by the page in another language, in another order,
and the list of fields that hold secrets is kept in two files. A draw is uneven by one word of a list,
and no test of single draws shows it. The handler of Ctrl+C writes to the same terminal as the command,
and `process::exit` ends the command between any two statements.

## Modules and runs

A definition named `...Slip` or `...Lost` is a plausible mistake in the definition it stands
before. The properties that notice it are listed under `mutants` in `PROJECT.json`: put in the
place of the definition, each makes TLC report its property as violated.

### Job, WorkerJob: one operation in a worker

`WorkerJob` models the class of that name in `web/runtime.js` with `serveOperations` of
`web/worker-runtime.js` and the messages between them. `Compiles`, `Starts`, `StartSettles` are the
two awaits of `run()`; `Stop` is `stop()` with the kept worker; `TimerFires` either limit;
`Receives` the message handler with every kind of message; the worker posts `ready`, news,
questions and its end, or dies. `requestSecrets` and `answerSecrets` say where the bytes of the
secrets are: in the page, moved to the worker, or wiped.

`Job` is the contract for whoever started the operation: the promise settles once and for good, no
worker starts for an operation that has ended, and a worker left over is stopped in the end.

Run `worker_job` (two news, two questions) checks `TimerDiscipline` (a limit runs exactly while a
worker may be loading), `NoForeignResult` (a worker of another build never gives the result),
`SecretsLeaveThePage`, `NeverKilledWhileLoading`, `Settles` (a job settles unless its worker
computes for ever or its page never answers) and `KeepsContract`, that `FairSpec` implements `Job`
under the mapping `outcome`, `life`.

### LongOperations: the slot and the checks of a class

The calls of one class: those that hold the slot and wait for a check, `selfTest`, which waits for
none, and quick calls without the slot. `checks` is the sequence of checks started, `startups` the
kept ones, `failed` the report or part that closed the class. `Required` is the continuation of
`require`, `Begins` the start of the job, `Cancel` the race with `cancel()`. The page finishes its
continuations before the next message (`Quiet`); a check's worker may send a failed part and die
before its report.

`long_operations` checks `OneAtATime` (the slot belongs to exactly the call that waits or runs with it,
so no way of ending leaves the class `BUSY`), `WhatEndedStaysEnded` (`FailureCloses` and
`CancelledNeverRuns`), `NothingBeginsUnchecked` (a waiting call begins only where a check has passed and
no part has failed, also one that another, concurrent check found), `ChecksAgain`, and under fairness
`EveryCallSettles`.

### SelfChecks: the known answers that classes share

Runs of the sets of several classes of a page: the parts in their order, the ones left out because they
passed for another class, the build of Argon2 that starts or falls back, traps and dead workers, and the
report. `kept` is `passedOnPage`, each pass with its identity: the WebAssembly, and for Argon2 the
script of the build. `earned` and `wrong` are history. `self_checks` checks `AnswersAreEarned` (what a
class leaves out or reports as passed gave the right answer on this page, by its own build) and
`WrongIsTold` (a wrong answer closes its class and fails its report). `MCSelfChecks` gives two clients
with different scripts, and a wallet class without Argon2.

### Readings, RekeyGuard, Rekey: the re-encryption guard

`Readings` holds the length rules as operators: which readings a recovered state has for a stated
length (`ReadingsOf`), what a reference is compared with (`EveryReading`), why a single one cannot be
told (`OneReadingRefusal`), and `RecoveredForRekey::confirm` (`Confirm`). `Rekey` is the session of
`wasm_api/core.rs` over `rekey.rs`: `Recover`, each kind of confirmation, the refusals after which
the page may confirm again on the same recovery, the owner's yes or no, the seal, and every call out
of order. A state is chosen at the start: which lengths pass their check, and the owner's phrase.

`RekeyGuard` is what the guard promises: a phrase is sealed only after exactly that phrase was
confirmed, a phrase shown is confirmed only by the owner's yes, nothing twice.

`parts` (below) checks `RekeyIsSafe`, which is `SealsTheWallet` (what is sealed is the owner's phrase;
the one exception the code accepts is a short length that the owner states wrongly and whose check alone
passes by chance), `RefusalsLeaveAWay` (a refusal that offers another confirmation kept the recovery,
each length it offers the owner shows exactly one phrase, and the wallet's address still confirms) and
`PhraseIsDropped` together, and `KeepsGuard`, the refinement.

### HiddenSession: a session of hidden wallets

The handle of `openHiddenWallets` with its open and close, the continuation of the job's end, the
worker's loop of questions (`core-worker.js`) and the passwords used (`src/hidden.rs`). A password
may be one whose wallet would pass a check, which is refused (rule I29 of the specification).
`hidden_session` checks `OpensInTurn`, which is `OneTurnAtATime` (page and worker agree whose turn it
is) and `WalletsMatchTheirOpens` (the wallet of one open is never given to another), and
`SessionEnds`: `NothingOpensAfterClose`, `CloseEnds` and `OpensSettle`.

### CandidateSearch: the comparison of candidates

`compare_candidates` with a step for each access to an atomic or a mutex: a worker looks at `stop`,
takes an index, compares, keeps a match or an error and counts; the calling thread sleeps between its
looks at the workers that finished, reports, stops, joins and concludes. Threads may be refused, some or all;
then `compare_in_turn`. `candidate_search` checks `LowestMatchWins` (the named candidate matches and
every earlier one was found wrong; "none" only when none matches), `EachCandidateOnce` (the comparison
of a candidate begins at most once in the whole search, which `begun`, a history variable that no step
reads, counts; `done` is at every moment the number of candidates taken that no worker is busy with; the
progress reported claims no more than are over), `StopIsHeard` (a search that was stopped gives no
answer, and reports no progress after it) and `SearchEnds`.

### PrivateScreen: the terminal and the handler of Ctrl+C

Two threads: the command, which enters and leaves private screens and steps, prompts with the echo
off and draws, and the handler, which takes the locks, leaves the screens, restores the settings and
exits. Locks, flags and writes are separate steps. It runs as a part of `Tool`, where `LeftClean` is
`EchoComesBack` (a tool
that ended, in whichever way, has left the terminal echoing), `SecretsStayPrivate` (nothing drawn
under `DRAWING`, the typed line and the phrase, comes to the main screen); `StopEnds` is a part of
`StopsAndConnectionsEnd`. Two more runs show where the code does less than its comments say; see below.

### Tool: the process, its menu and its commands

`Tool` is the process of `main.rs`: it chooses the start menu or one command, then takes the steps of
that part, each an instance of a module of its own. The commands share the exit code. Run `tool`
checks what each module promises; a property of `Tool` conjoins the named properties of its module.

*MenuCommand*: `run_command`, the handler's thread with `pass_on_stop`, and the command's process,
which ends, stops, crashes or is halted by Ctrl+Z, with signals to the group or to the menu alone.
Checked: `MenuComesBackClean`, and `PassedOnStopEnds` in `StopsAndConnectionsEnd`.

*Sealing* (`encrypt`, `new`): twelve rounds, the callback with the unchecked container, twelve more, the
comparison. The reader is a script, a redirected person, a person at a plain terminal or one with
steps; writes, rounds and the check may fail and Ctrl+C may come anywhere. Where nothing was shown
before the check, to whichever reader, its failure ends the command (`GivesOut`). `SealedIsChecked`:
`OnlyCheckedIsFinal` (a program or a file gets, and success means, a container that turns back),
`NotReliedOnUnchecked` (a person who has seen an unchecked container is told so at every end, but for
a stop in the two windows described below) and `KeepIsEnough` (the list of what to keep, which names
the length only where that is needed, recovers the original).

*Recoveries* (`decrypt`): the memory of one password after another, with the fallback when the larger
area is refused, the recoveries, and the record of `flow.rs` that becomes the summary. The module runs
the command beside itself with the first password alone. `AnsweredAsOne`: `SummaryOfOne` says that
their main screens are the same at every moment, `EveryPasswordIsAnswered` that no refusal of memory
follows a phrase that was shown and that a password is passed over only for memory that could not be
had.

*Rehearsal* (`check`): the comparison with the readings of `Readings`, the evidence, the length asked
after a detection without result, and the lines of the report. `ResultIsTrue`: `LinesAreTrue` compares
each line with the phrase and the wallet, `RekeyTakesIt` with `Confirm`, the guard of a rekey: a match
without reserve is what `mhfe rekey` takes, and nothing else is.

*RekeyDialog* (`rekey`): how a person states the length, confirms by the built-in check, an address, the
fingerprint or the written backup, is refused and asked again on the same recovery, gives new settings
and a new password, and rehearses the new container. `DialogRekeysTheWallet`: `RecoveryIsNotWasted` and
`NewContainerIsTheWallet`.

*ContainerReading* (every command that reads a container, `repair`, `repair-words`): words typed, typed
again, repaired with the card, found by a search with the decoy wallet or the own one, shown and agreed
to. `ContainerIsTheirs`: `UsedAsSeen` (words put in the place of those typed are never used before they
were seen, and a search's password belongs to this container), `OfferedIsSearched`, `RepairIsShown`.

*Settings*: the level asked for, the figures of the computer and of every control group read anew
before the check and the reservation, the hint of a level that fits, locked memory and the page file
of Windows. `MemoryIsThere`: `NothingForLackOfMemory` and `UnlockedIsChosen`. Run `disk_warning` uses the
same module.

*Protection* (`prepare` of `main.rs`): isolation, the decision on swap areas and the devices under them,
the restart in a scope without swap, and the checks of the parts, some of which start threads, in the
four steps of `run_named`: the part is kept for the panic hook, its check runs, gives its outcome, and
the part is let go. A swap area has the last component of its path and the device it lies on, which the
code reads for different questions. `Protected`: `SwapIsDecided` (swap that can reach a disk in clear
needs a limit or the person's word, but where every area has the name of a device in memory, see below),
`EveryThreadIsIsolated` (the later threads too, and the network, closed only to a process of one thread,
is closed wherever the system closes it), `AskedOnceSound` (every part passed, and the gaps were told),
`TheRunningPartIsNamed` (the message names the part under way when the program stopped, or else the first
that failed).

*SelfTest* (`self-test`): the parts at the full tier and the published vectors watched call by call, with a
fault that may fall before, in or after any Argon2id call. `SelfTestIsTrue`: `FaultIsWhereItSays`,
`PassIsEarned`.

*Serve* (`serve`): the page compared with its checksum file while the files may change, the accepting
thread with its accesses to the atomic count as steps, and a thread with a deadline for each client.
`ServesTheChecked`: `PlacesAreCounted` and `OnlyTheCheckedPage`; `ConnectionsEnd` is in
`StopsAndConnectionsEnd`.

### Parts: what a command or a page calls

`Parts` puts the parts that share no state beside the rekey session: a behaviour of run `parts` is one
of them. Each is a module with an `Init` and a `Next` of its own.

*AddressSearch* (`wallet.rs`): an address read as every coin whose form it has, by a reader for each
encoding (SegWit, Base58, account, hexadecimal, CashAddr, Platform), the statement of what is
searched, and the derivation of each root in turn, shared ones once. The address is typed as the wallet
shows it, in the other letter case, in mixed case, with a wrong checksum or with wrong padding bits, or
is of a form no search covers. `AddressIsFound`: `FoundWhereItIs` and `CoversWhatIsPromised`.

*MissingWords* (`search.rs`, `rehearsal.rs`, `container_search.rs`): one search for words typed as `?`: the
odometer over the missing places and the checksum that leaves the candidates, the scan gap asked or
given, the scope said before the work, and the comparison of each candidate with the container's own
wallet, the original wallet or its own checks. The candidates are taken in turn; `CandidateSearch` has
the threads. `WordsAreFound` is its `SearchIsSound`: `ListsEach` (the candidates are every phrase with
the words typed that passes the checksum, each once, against a set that owes nothing to the odometer),
`FoundIsTheirs`,
`MissedIsElsewhere` (a search that finds nothing leaves no candidate of the wallet, unless the address
lies past what was said to be searched or something typed is not that wallet's) and `WaitsAsTold`.
The lengths of phrase and list, the gaps and the default limits are constants; the checksum is a
predicate on words of which nothing is used but that it is one.

*ReferenceEntry* (`check.rs`, `decrypt.rs`, `container_search.rs`, `rehearsal.rs`): how each command asks for
a passphrase and a reference, the step of a prompt on the main screen with the rows it counts and
erases, and the reference the recovery is compared with. A person may type a seed phrase where an
address is asked for. `ReferenceIsTheirs`: `OnlyAnswersAreLeft` and `ComparedAsSaid`.

*NewPhrase* (`wallet_check.rs`, `word_wishes.rs`, `random.rs`): the probes of the source, the draws by
rejection, the wishes laid over the entropy, the check and the limit of draws. `DrawIsSound`:
`GivenAsAsked`, and `EvenDraws`, of which `EveryPhraseIsAsLikely` counts, for every wish, the entropies
that give each phrase and `NumbersAreEven`, for every bound, the values that give each number. The
values of a byte, of the last word's entropy and of the checksum are constants.

*PasswordEntry* (`check_word.rs`): a password made, written down, typed with a slip, reviewed and
repaired by its check word. `OwnersPassword`, in `AnswersAreTrue`: `OneSlipIsRepaired`, `UsedIsTheOwners`.

*PasswordMaking* (`new_password.rs`, `eff.rs`, `diceware.rs`): a password from random numbers or from
dice, shown on the private screen; dice, list, alphabet and the bounds of weak passwords are
constants. `MadeAsTold`: `RollsMakeIt`, `StrengthIsTrue`, `LeavesNoTrace`.

*WordTools* (`word_hints.rs`, `strength.rs`): the hint and completion of a word and the estimate of a
password, against definitions that read the list and the text whole. `WordsAreToldRight`, in
`AnswersAreTrue`: `HintsAreTrue`, `StrengthIsNotOverstated`.

*Lists* (`choice.rs`, `menu.rs`, `scroll.rs`): questions with a list, drawn again after keys and resizes
on a terminal that wraps its rows anew. `ListsAreSound`: `OnlyTheBlockIsErased`, `OwnAnswerIsTheirs`,
`EveryLineCanBeRead`.

*TypedLine* (`hidden_input.rs` `LineEditor`, `typed_line.rs`): the editor keeps characters; what it shows
is relative: it writes, goes back by its own count of cells and erases. The module has the terminal
too: cells, a cursor, rows that wrap at once or at the next character, marks that join the character
before. `ScreenShowsLine`: after any keys the cells of the terminal are exactly those of the line laid
out anew, with nothing of what was erased, the hint on the rows below, and the cursor where the next
character goes. The layout is a definition of its own that shares nothing with the editor's count.
With `ListsAreSound`, `InputIsTheirs` and `ReferenceIsTheirs` it is `TerminalIsTrue`.

*TerminalInput* (`hidden_input.rs`, `raw_io.rs`, `terminal.rs`): the bytes that a terminal holds until
someone reads them, the keys of a choice, lines with and without echo, and the lines of a script.
`InputIsTheirs`: `KeysAreWhole`, `NothingIsLeft`, `LinesOneByOne`. A sequence's bytes come together, and
in the passing run Escape is pressed alone; run `alt_key_digit` lifts that.

*PageOperations* (`web/core-worker.js`, `wasm_api/core.rs`, `engine/browser.rs`): an encryption, a
recovery, a check with the length asked after it, the searches and the self-test, between the two known
answers of the page's Argon2 build, which may go wrong from any round on. `ToldOnlyIfEarned`:
`RoundsWereRight`, `LengthIsNamed`, `ChecksAreTrue`, `SearchesAreTrue`.

*KnownCases*, *KnownAnswers* (every `known_answers.rs`; `self_check/sets.rs`, `self_check.rs`): the
cases of every part, each with the comparisons it makes in their order and the self-check that runs it;
the sets of each front end, the run and the report. The build or the computer has at most one fault: the
first or the last comparison of a case differs, alone or with all that follow in its part.
`PassTellsTheTruth`: `PassVouches` (a report that passes had no fault but in cases of the full
self-test, or names the part as not checked, or another class of the page has checked it), `WhollyRun`,
`NothingLeftOut`, and `FailureIsPlaced` (a failure names the first comparison that differs, by its
number among those of its list that ran). Long lists of vectors that differ only in their values are
kept as a few: three of phrases, one password of each kind. The cases that the code reads from files of
the specification, a submodule, are taken as the code runs them: the fourth of the settings is one that
must be refused. What no case compares no self-check can tell: two missing words of a container search,
the wallet search of a candidate, the odds of a wish, the corrections of a review and the choice after
one.

*PageRequests* (`web/client.js`, `wallet.js`, `passwords.js`, `repair.js`, `runtime.js`, and the bindings):
every method with its arguments in the order the page checks them, the startup check, the copies of
the secrets, the transfer, and the order in which the core reads them. A call has at most two wrong
arguments, or another reference and one argument beside it. `RequestsAreSound`: `NoCopyIsLeft`
(whatever refuses a call, no copy of a secret stays in page or worker), `UsedAsAsked` (no secret goes to
a core of other limits; a password is one typed twice; who asks for the wallet check gets it),
`PageAgreesWithCore` (the page's refusals are the library's, and what it lets by keeps the limits) and
`OneReference` (a reference names exactly one thing of those its method takes). Unknown keys of a
reference are ignored, as in the code.

`AnswersAreTrue` is the conjunction of `PassTellsTheTruth`, `RequestsAreSound`, `OwnersPassword` and
`WordsAreToldRight`, each while its part runs.

## Fairness

- *The page* (`WorkerJob`, `LongOperations`, `HiddenSession`): the event loop runs continuations, due
  timers and messages, as a browser does; a compilation ends. In `LongOperations` a check and a
  job end, which `WorkerJob!Settles` grounds for workers that answer. Nothing is assumed
  of `cancel()`, of the page's callbacks and answers, or of the twelve Argon2 rounds.
- *The search*: every thread the system granted, and the caller, keep running. A comparison ends.
- *The terminal*: a command that holds a lock goes on (it draws, it does not wait for a person under
  a lock), and the handler gets a lock that is free again and again (strong fairness: between two
  drawings a command computes or waits for a key). A person may leave a prompt waiting for ever.
- *The tool* (`Tool!Spec`): the menu's two threads go on, and so does a command that is stopping
  (`MenuCommand!Fairness`); the accepting thread and the threads of the page server go on, and a
  connection's deadline passes (`Serve!Fairness`). A running or halted command is not assumed to do
  anything, and nothing is assumed of a command that a person answers.
- *The parts* (`Parts`): none is assumed, and no property of theirs needs it.
- A contract's own fairness (`Job`) is shown from these, never assumed.

## Bounds

| Constant | Value | Why it is enough |
| --- | --- | --- |
| `MaxNews`, `MaxAsks` | 2 | the second message of a kind meets everything the first left: a pending callback, an answer under way |
| `Long`, `Quick`, `SelfTests` | 2, 1, 1 | two calls compete for the slot while a third waits on the same check and a fourth needs none |
| `MaxChecks` | 2 | two checks overlap, one may fail as the other passes |
| `Runs`, clients | 2 of 3 classes | one class passes on, another leaves out; the identity differs or not |
| `Shorts` | 12, 15, 18 (of four) | none, one, two or three lengths pass; the stated one among them or not |
| `Opens`, `Passwords` | 3, 2 | one before, one after, and one that repeats a password |
| `Count`, `Workers` | 3, 2 | an earlier and a later candidate under comparison while one is left |
| `MaxNested` | 2 | a private screen within another |
| `MaxSignals` | 3 | one for the menu, one for the command, one more while either stops |
| `MaxPasswords`, `MaxLevel` | 3, 2 | one that fits, one that is granted after a fallback, one that is too large; the first may be any |
| `Clients`, `MaxConnections` | 2, 1 | one client has the only place while another is refused; the count goes to the limit and over |
| `Columns`, `Capacity` | 3, 5 bytes | rows that end before, in and after a wide character, up to three rows; a line that is full |
| `Accounts`, `Indexes` | 2, 1 | the first and last account of a root, and one past the end of each |
| `ByteValues`, `LastValues`, `Checksums` | 4, 2, 2 | a bound that divides the values of a byte and one that does not; two phrases that differ in the shared word alone; one word chosen, one forbidden, others left |
| list of `PasswordEntry` | 3 words | the word meant, one it is misread as, and another |
| `Faces`, `WordBits`, `GlyphBits`, `Glyphs` | 2, 2, 1, 3 | two dice of two faces for five of six: each word of four by one roll; characters that are no power of two |
| `MostWords`, `MostGlyphs`, `FewWords`, `FewGlyphs`, `CheckedWords`, `MostRefused` | 3, 3, 2, 2, 2, 1 | sizes below, at and above weak, with a check word and without; a group refused before or between words |
| `PhraseWords`, `ListWords`, `TypedWords` | 3, 3, 2 | one, two or three words missing; a checksum that two of three phrases pass |
| `MostGap`, `DecoyGap`, `LongGap`, `DefaultAccounts`, `DefaultIndexes` | 3, 1, 2, 2, 2 | a gap below, at and above the wallet's; an address in the second account and one past the last index |
| `MaxTries`, columns of `ReferenceEntry` | 3, 4 | two answers refused before one that is read; answers of less than a row, a full row and more; the window keeps its width during a step |
| words of `WordTools` | 3 letters, 5 read | lengths at, below and above each rule's limit |
| lists of `Lists` | up to 3 entries, 2 widths | a row that wraps in one width and not in the other; a list longer than the screen |
| presses, prompts of `TerminalInput` | 3, 2 | a key typed ahead and one typed late, for a prompt and the next |
| rounds, candidates of `PageOperations` | 2, 2 | a build wrong from the first or the last round; a match before or after another |
| faults of `KnownAnswers` | 1 | two parts fail or pass each by its own |
| wrong arguments of `PageRequests` | 2 | one refused with a copy of an earlier one made, in every pair of orders of page and core |

The theorems hold without these bounds. `CHECK_DEADLOCK FALSE` is set where the system really stops:
an operation, a search, a command and a part end.

## What is proved

Every theorem below is a theorem of the specification (`Spec => []...`) for all constants that
satisfy the module's assumptions. In a proof module of one component `IInv` is the inductive
invariant: `InitIInv`, one lemma per action or group of actions, `StepIInv`, and the theorems that
follow. The modules about `Parts` and `Tool` have one invariant for each part or command instead. It
holds while that one runs, or none was chosen yet (`Inv` of each theorem); `PartStays` and
`OneCommandRuns` say that no other takes its place.

| Module | Theorems | What the invariant adds |
| --- | --- | --- |
| `WorkerJobProofs` | `TypeCorrect`, `TimersAreExact`, `EndsOnce`, `ForeignResultsUnused`, `SecretsGone`, `LoadingWorkersAreLeft`, `EndedJobsAreSilent`, `StepsKeepContract` | where `run()` stands tells whether a worker exists and who has the secrets; the first message comes first, which the timers rest on |
| `PartsProofs`, a rekey | `RekeyKeepsTheWallet` (the whole of `RekeyIsSafe`), `TypeCorrect`, `SealedIsTheWallets`, `OffersAreGood`, `ReferenceIsNeverShutOut`, `RefusalsLeave`, `PhraseLeavesWithTheRekey`, `AnswerHolds`, `ImplementsGuard` | the confirmed phrase is the wallet's, however it was confirmed; a refusal is only in a state with readings to tell apart |
| a new password | `PasswordsAreMadeAsTold` (`MadeAsTold`) | `MakingInv`: the words so far are those of the groups that fit, in their order; a made password of dice has all of them. As many texts as there are draws: a bijection, and a count by powers |
| a page's operation | `PagesAreToldTheTruth` (`ToldOnlyIfEarned`) | `PageInv`: what the library gives is true wherever no round was wrong, and it concludes only after the comparison that shows one |
| missing words | `MissingWordsAreFound` (`WordsAreFound`) | `HuntInv`: the candidates are the vectors that pass among those before the one tried, each once; the candidates compared so far did not match; what was typed stays as it was said |
| `WalletProofs`, a new phrase | `DrawsAreSound` (`DrawIsSound`) | `DrawInv`: a phrase drawn is of the wishes. Even draws rest on it only for the wish; they are bijections between the entropies of any two phrases, and a division with remainder |
| an address | `AddressesAreFound` (`AddressIsFound`) | `SearchInv`: the roots searched are a beginning of those promised, none of them had the address, and the keys derived are as many as they have |
| `LongOperationsProofs` | `EndedStaysEnded` (the whole of `WhatEndedStaysEnded`), `TypeCorrect`, `SlotIsExclusive`, `FailuresClose`, `CancelsHold`, `NothingUnchecked`, `TriesAgain` | a call whose race has ended in "ready" still finds the class open or closed as its continuation sees it; a kept check is one a call may wait for |
| `CandidateSearchProofs` | `TypeCorrect`, `LowestMatch`, `ComparedOnce`, `StopIsKept`, `StaysSilent`, `StopHeard` | every index taken is under comparison, judged, or lost to a stop that has a reason; the best match is found and no earlier one is open; the candidates whose comparison began are those below `next`, and `done` of them are over |
| `SelfChecksProofs` | `TypeCorrect`, `PassesEarned`, `ReportsEarned`, `AnswersEarned`, `WrongCloses`, `WrongFails`, `WrongTold` | what a run has found or left out was earned under the identity it has; a wrong part is in the run's findings or its class is closed |
| `HiddenSessionProofs` | `TypeCorrect`, `OpensKeepTurns` (the whole of `OpensInTurn`), `ClosedStaysClosed` (`NothingOpensAfterClose`) | the worker waits exactly while no open is under way; the passwords used are those of the opens that got a wallet |
| `ToolProofs` | `MenuFindsTheTerminalClean`, `TerminalIsLeftClean` | who may have switched what of the terminal while a command runs; which thread holds each lock, and that a screen is private at every depth of nesting until the handler has left it |
| Sealing | `OnlyTheCheckedIsSealed` | a result is told by its check alone; a container that was shown unchecked has its alarm armed until then |
| Settings | `MemoryIsHeld` | a level that was accepted, and one that is hinted at, was compared with the figures read last |
| ContainerReading | `ContainerIsSeen` | words that are not those typed are under review until the person agreed |
| Serve | `OnlyTheCheckedIsServed` | the atomic count is the number of threads with a place, and one more only between two accesses of the accepting thread |
| RekeyDialog | `DialogKeepsTheWallet` | a recovery is asked for only where a confirmation can follow; what is confirmed is the wallet's, or a length stated wrongly that passes by chance |
| Rehearsal | `CheckTellsTheTruth` | each line of a result comes from the evidence about phrase, length and wallet, however often a length was asked |
| Protection | `ProtectedBeforeSecrets` | threads are isolated from the moment they start; the decision on swap is that of the devices under each area, found by descent; the part kept for the panic hook is the one whose check is next or under way, and the first failure is the first in the list of outcomes |
| Recoveries | `EachIsAnsweredAsOne` | the record of the steps, folded over the passwords so far, ends as that of the first password alone |
| SelfTest | `SelfTestTellsTheTruth` | the parts tried are a beginning of the merged list; while the state is as published no fault happened, and a state that is not has its fault at the witness, before the next call, or after the last |

The invariants of the commands in `ToolProofs`, in this order: `SealingInv`, `SettingsInv`,
`ContainerInv`, `ServeInv`, `DialogInv`, `CheckInv`, `ProtectInv`, `RecoverInv` and `TestInv`; TLC
checked each on run `tool`'s instance before it was proved. Three of the proofs need facts about
definitions that recur: the devices under a swap area (`EncryptedIs`), the fold over what a command
shows (`FoldStages`, from `HasAll`, an induction over the naturals by their least element) and the merge
of the parts (`EveryPartIs`). Such a definition is a recursive function; the lemma exhibits the function
and shows that it solves the equation.

The odometer of `MissingWords` is the longest argument of those about `Parts`. `Before` is the order of
the values, by the first place where two differ (`FirstDiffers`); `AdvanceIs` says which place grows and
which go back to 0; `AdvancedCovers` that the values before the next are those before this one and this
one; `AllUpToLast` that after the last nothing is left. So the list ends as every phrase with the words
typed that passes (`EachIsListed`). A search by recoveries keeps that no candidate so far was the
wallet, and its count; a search with the decoy looks at all at once.

`ImplementsGuard` proves the refinement of `RekeyGuard` whole. `StepsKeepContract` proves that every
step of `WorkerJob` is a step of `Job` or a stutter; the fairness of `Job` stays with the run.

Assumptions are named in the modules: bounds are naturals, the kinds of calls are disjoint, "none" is
no index, the short lengths are finitely many and not the full one. TLC evaluates them in every run.

Only model checked:

- liveness (`Settles`, `EveryCallSettles`, `SessionEnds`, `SearchEnds`, `StopsAndConnectionsEnd`) and
  the fairness of `Job`: liveness and `ENABLED` are beyond the prover.
- `AnswersAreTrue` and `TerminalIsTrue`. Their parts `PasswordEntry`, `WordTools`, `Lists`,
  `KnownCases`, `KnownAnswers`, `PageRequests` and `ReferenceEntry` have no constants: run `parts` looks
  at every state of the model there is, and a proof would repeat it. `TerminalInput` has the capacity of
  a line and the Boolean `Hurried`, and its sequences of keys are bounded by definitions. `TypedLine`
  has constants; its `ScreenShowsLine` compares two folds over the characters of a line (`FoldLeft`),
  and what a fold gives for every sequence is an induction over data, which the installed provers cannot
  do: the library's induction theorems take an operator as their parameter.

A type invariant that a theorem proves is not listed again in the runs.

## Where code and comments differ

Each has a run that TLC ends with a counterexample to what the comment says.

| Run | The comment | The code |
| --- | --- | --- |
| `unguarded_renderers` | every secret is drawn under `DRAWING` (`hidden_input.rs`, AUD-045) | `scroll.rs` and the password headings of `decrypt.rs` draw without it, and may follow the handler onto the main screen |
| `left_behind` | Ctrl+C leaves the private screen (`terminal.rs`) | `leave_private_screen` takes the flag back before it writes the sequence; a stop between finds nothing to leave |
| `disk_warning` | a warning is shown at the top of the next step, so that it is read before the person goes on (`flow.rs`) | in steps the warning of the page file is kept, and its question follows at once (`settings.rs`, Windows) |
| `alt_key_digit` | no byte of an escape sequence is taken for a key of its own (`hidden_input.rs`) | after a second Escape the rest of the sequence is read as keys, and its digit answers a choice |
| `typed_line_tab` | the rest of a line that is too long is dropped (`hidden_input.rs`) | a completion that overruns the capacity refuses the line before the rest is read |

The first two are windows of a few statements, the third is on Windows alone, the fourth needs a second
Escape before a key, the fifth a full line of 4 KiB; none touches what is sealed or recovered. The
passing runs leave out a second Escape (`Hurried = FALSE` in `Parts.cfg`) and look only at what the other
four do not break. Further places
are in the models, and no property that holds says more about them:

- A stop between the container and its flag, or between the flag's end and the report
  (`show_before_the_check`, `show_sealing`), is told as any other; `NotReliedOnUnchecked` names both.
- A swap file whose name is that of a device in memory which the computer has too (`/swap/zram0`) counts
  as memory: `swap_on_disk_under` goes by the last component of the path (`protect.rs`), while its
  comment is about swap that can reach a disk. Where every area is so named, the process neither starts
  again without swap nor asks; `SwapIsDecided` leaves that case out.
- A stop between the spawn of a command and the store of its number reaches only the menu, and so does
  one after its wait (`run_command`).
- A visible line that is too long leaves its rest as the next answer (`hidden_input.rs`).
- One capital together with a misread word is not offered as a repair, as the capital is then read as
  the word left out (`check_word.rs`); `OneSlipIsRepaired` names it.
- A word spelled only in digits counts for more in the estimate than its digits, and `aAa` for one bit
  less than `aaa` (`strength.rs`).
- For `confirmAgain`, an owner's length of 13 is `INVALID_WORD_COUNT` in the page and `INVALID_REQUEST` in
  the core; the page is first, and `PageAgreesWithCore` leaves this answer out.

## What is not modelled

- What the cipher, Argon2, the checksums, the derivations and the encodings compute: pure functions
  with published vectors. The modules take their outcomes: a round fails or not, a length's check
  passes or not, a reference matches or not.
- The texts, colours and layout, except where a property is about them (`TypedLine`, `Lists`): the steps
  and progress bars of `terminal.rs`, the reports of `style.rs`, help texts, and the JSON of the answers.
- Of the operating system only its answers: figures of memory, groups and devices, calls that fail.
  The statistics behind the cutoffs of the random generator's health tests.
- On Windows the console modes and the handler's thread differ in the calls used; the order of
  steps modelled is that of Unix, but for `Settings` and `TerminalInput`, which have both.
- Weak memory: the search's Relaxed stores are visible at once in the model, which can only bring a
  worker's exit forward.
- The build fault of `PageOperations` stays once it is there; one that shows only with much memory is left
  to the self-test, as in the code. Unicode normalisation of passwords and the sum behind the check word
  (the cipher crate's) are outcomes.
- Tests, documents, developer tools (`xtask`), workflows, packaging, vendored Argon2: two fifths of the
  repository's lines. The tables of the published vectors are data, of which `KnownCases` keeps what
  each compares.

## Plan

What is left, in this order.

1. `TypedLine` with a statement of the screen that is kept key by key, so that no fold has to be unfolded,
   and its proof for every width.
2. Composition: `LongOperations` with a `Job` for each call instead of its fair end.
3. The steps' screen (`terminal.rs` `Step`, `Progress`, `style.rs`): what is drawn again after a resize.
4. Inside the readers of an address (`wallet.rs`): lengths, versions and checksums, of which
   `AddressSearch` has the outcome.

## Files

| Module | Extends | Runs |
| --- | --- | --- |
| `Job.tla` | | contract of `WorkerJob` |
| `WorkerJob.tla`, `WorkerJobProofs.tla` | `Job` as an instance | `WorkerJob.cfg` |
| `LongOperations.tla`, `LongOperationsProofs.tla` | | `LongOperations.cfg` |
| `SelfChecks.tla`, `MCSelfChecks.tla`, `SelfChecksProofs.tla` | | `MCSelfChecks.cfg` |
| `HiddenSession.tla`, `HiddenSessionProofs.tla` | | `HiddenSession.cfg` |
| `CandidateSearch.tla`, `CandidateSearchProofs.tla` | | `CandidateSearch.cfg` |
| `Readings.tla`, `RekeyGuard.tla` | | operators, contract of `Rekey` |
| `Rekey.tla` | `Readings`, `RekeyGuard` as an instance | in `Parts` |
| `Parts.tla`, `PartsProofs.tla`, `WalletProofs.tla` | `Rekey`; the parts below as instances | `Parts.cfg` |
| `AddressSearch.tla`, `NewPhrase.tla`, `PasswordEntry.tla`, `PasswordMaking.tla`, `WordTools.tla`, `Lists.tla`, `KnownCases.tla`, `KnownAnswers.tla`, `PageRequests.tla`, `ReferenceEntry.tla`, `MissingWords.tla` | | in `Parts` |
| `PageOperations.tla` | `Readings` | in `Parts` |
| `TypedLine.tla`, `TerminalInput.tla` | | in `Parts`; `TypedLineTab.cfg`, `TerminalInputAlt.cfg` |
| `Tool.tla`, `ToolProofs.tla` | `Readings`; the commands below as instances | `Tool.cfg` |
| `MenuCommand.tla`, `Recoveries.tla`, `Serve.tla`, `SelfTest.tla`, `Protection.tla`, `ContainerReading.tla` | | in `Tool` |
| `Sealing.tla`, `Rehearsal.tla`, `RekeyDialog.tla` | `Readings` | in `Tool` |
| `PrivateScreen.tla`, `Settings.tla` | | in `Tool`; `PrivateScreenUnguarded.cfg`, `PrivateScreenLeft.cfg`, `DiskWarning.cfg` |
