# Mach9 in TLA+

Mach9 is a relocatable, signed Wine for Apple Silicon with a launcher that
plays Windows games. This directory models the parts of it that have state and
other processes to reckon with, checks the models with TLC and proves what
matters most about them with TLAPS. Paths below are relative to the
repository; `app/` stands for `launcher/app/src/` and `core/` for
`launcher/core/src/`.

## The system

| component | state | operations | talks to |
| --- | --- | --- | --- |
| launch flow (`app/main.rs`, `bundle.rs`, `update.rs`, `cli.rs`) | the command line, whether the process is registered with the window server | setup, update check, relaunch, exec | every component below |
| game files (`core/games.rs`, `app/config/`) | `games/<Name>.toml`, `selection` | list, select, create, read, set the executable | Dock tile, user's editor, other launches |
| settings (`app/config/`, `app/cli.rs`, `app/rules.rs`) | the text of `gamelauncher.toml` and of the game file, the command line, what was typed into a window | read, check, top up from the templates, normalize, merge, overlay, make the rules, set the environment | game files, compatibility rules, launch flow |
| wine session (`app/session.rs`, `registry.rs`) | the wineserver lock, `user.reg`, the stamp `prefix-session` | reuse, stop, lock, stamp, write or `reg add` | wineserver, wine, other launches |
| log pump (`app/launch.rs`) | a pty, the log, the SIGTERM handler | start, copy, drain, kill, wait | wine and what it starts, Force Quit |
| file replacement (`core/fsutil.rs`) | a file and its temporary sibling | write, rename | all writers and readers of launcher files |
| Dock tile plug-in (`launcher/docktile`) | none of its own | show the games, select and open | game files, launch flow |
| compatibility rules (`compatdb/core`) | none: values | parse, table, encode, resolve | launch flow, wine's processes |
| rules in a process (`compatdb/src`) | the process's environment and command line | gather, match, rewrite | ntdll |
| command line words, DPI, retina (`app/words.rs`, `dpi.rs`, `retina.rs`) | none | split, quote, parse, choose | settings |
| windows (`app/ui.rs`) | registered or not | ask, show | the user |
| build and bundle scripts (`bin/`), smoke tests, CI, docs | files | build | - |

What is hard in it:

- **The session.** The launcher, `wineserver -k`, `wine reg add`, wineserver,
  other launchers and terminals work on one prefix, and nothing but one
  advisory file lock, which a death releases, keeps them apart. A running
  session cannot be asked how it booted; a stamp file with a time in whole
  seconds has to tell. A launch is correct if the session its game joins has
  the mode it wants, and nobody's change to `user.reg` is lost.
- **The pump.** Two processes, a signal handler that interrupts one of them, a
  pty that fills up, programs that outlive wine. Correct: the log is what wine
  wrote, to the end; Force Quit works for as long as wine runs; wine never
  waits for a reader that is not coming; the pump ends.
- **The files.** They are read, thought about (for as long as a window is
  open) and written back, by launches, the Dock and an editor, without a lock.
- **The launch.** A process that has shown a window must not become wine, so
  what the user asked for travels through fresh processes, by command line and
  by files.
- **The settings.** Three layers (the command line, the game file, the
  defaults) say the same things in several forms and cases; values that are
  ignored must hide nothing, lists add up or replace, and the file is edited
  line by line while it is read as a document. Correct: the last layer that
  says something decides, what was typed is what runs, the log names the line
  that said it, and no file loses a line or gains a contradiction.
- **The rules.** They are encoded, decoded, ordered and folded; correct means
  that both ends of the wire agree, and that the more specific rule wins.

## Modules

| module | models | extends |
| --- | --- | --- |
| `PrefixLock` | what the wineserver lock promises: the abstract specification | |
| `PrefixSession` | `session::prepare`, `registry::ensure` and the programs around them | |
| `MCPrefixSession` | two settings and the launches' wants, for TLC | `PrefixSession` |
| `PrefixSession_proofs` | its theorems, the one about a launch on its own last | `PrefixSession` |
| `LogPump` | `exec_via_pty`, the pump, its handler, the pty | |
| `LogPump_proofs` | its theorems | `LogPump`, `Selected` |
| `WholeFile` | what `write_atomic` promises | |
| `AtomicFile` | `write_atomic`, system call by system call | |
| `AtomicFile_proofs` | its theorems | `AtomicFile` |
| `GameFiles` | `core/games.rs`: the files of the games and the selection | |
| `Launch` | a click or a command line, up to the exec | `GameFiles` |
| `Launch_proofs` | its theorems | `Launch` |
| `Loop` | a loop over a sequence, as a recursive function of its rounds, and induction for the proofs about it | |
| `Selected` | concat and filter, as such loops | |
| `CompatRules` | `compatdb/core`: which rules match, their order, their folds | |
| `CompatWire` | the text the rules travel in: write, read, tables, preview | `CompatRules` |
| `CompatBuiltin` | the built-in rules | `CompatWire` |
| `CompatProcess` | the launcher's table, and `compatdb.so` in wine's processes | `CompatBuiltin` |
| `CompatRules_proofs` | lemmas about the rules as algorithms: text there and back, order, folds | `CompatBuiltin` |
| `CompatProcess_proofs` | its theorems | `CompatProcess`, `CompatRules_proofs` |
| `MCCompat` | rules, texts, programs and exports, for TLC | `CompatProcess` |
| `CommandWords` | `app/words.rs`, and the assignments of a `--config` value | |
| `RuleFields` | what a rule may hold, and the rules of a config (`compatdb/core`'s `settings.rs`, `app/rules.rs`) | `CompatWire` |
| `FileTemplate` | the lines of a config file and its template (`template.rs`) | `RuleFields` |
| `ConfigFiles` | the two files: read, checked, normalized, merged (`files.rs`, `config/mod.rs`) | `FileTemplate` |
| `CommandLine` | `--config`, the New Executable window, the executable's path | `ConfigFiles`, `CommandWords` |
| `ConfigLoad` | `Config::load_or_setup` and `wine_env.rs`, launch after launch | `CommandLine` |
| `ConfigLoad_proofs` | its theorems, and lemmas about a file's lines and document, words and `--config` batches | `ConfigLoad`, `CompatRules_proofs` |
| `MCConfig` | files, command lines and forms, for TLC | `ConfigLoad` |

Each action is one step between two points where somebody else may act, named
for the function or the branch it stands for. Operators whose comment starts
with "Broken:" are those with a plausible bug in them; no specification uses
them, and each shows that some property would notice the bug.

**PrefixSession.** A launcher's `pc` goes through `prepare` (`probe`, `start`,
`decide`, `stop`, `lock`, `stamp`), `ensure` (`plan`, `write`, `regadd`,
`restop`) and the exec (`client`, `playing`). `ServerPid`, `ProcessStart` and
`Decide` are three steps because the code reads the lock, the process table
and the stamp one after the other. `StopHolder` is `wineserver -k`: it signals
whoever holds the lock, a launcher included, as `F_GETLK` names only a pid.
`user.reg` is a function from settings to values, since what matters is which
values it holds; `set_value` replaces the missing ones and keeps the rest.
Wineserver is modelled by what `session.rs` says of it: it takes the lock,
loads `user.reg`, saves from time to time and at its exit, and leaves when it
has no client: not while a game is in it, but between two `reg add`s if it
likes. The constant `Pasts` says what earlier launches, terminals and users
left: `user.reg`, the stamp, and the session that is up, if one is, with the
registry it booted from. `vouched` is a history variable: `user.reg` got the
stamped values under the lock the stamp was written under, and no live registry
has been moved off them since; a past may be vouched for if its `user.reg` and
its session hold the stamp's values (`PastAssumption`). The two reads whose
failure the code takes for an absent file are actions of their own, `StampUnread`
(the stamp) and `RegUnread` (`user.reg`, after which every setting goes through
`reg add`, although a file may be there).

**LogPump.** `pc` is where the pump's main code is, `sig` where the signal is:
between `HandlerChecks` (`getppid`) and `HandlerKills` the main code stands
still and everybody else may act. A byte is LF, CR or plain; the terminal
writes CR LF for LF, and reads and writes cut the text anywhere. `Feed` is
`StripCrBeforeLf` over a chunk, the CR it may hold back (`pending_cr`) a text
of at most one byte; `Stripped` is what it promises of a whole text. `due` is a
history variable: what was written and is not in the log yet. When the last
slave is closed macOS discards what nobody has read (`app/launch.rs:489`):
`CloseSlave` empties the pty and `lost`, the other history variable, keeps what
went. An exec that fails leaves a process that reports it in a dialog, writes to
the pty and ends (`wine = "failing"`, `main.rs:36`). On any system
`poll` is taken to report what the pty holds; what the code does where `poll`
cannot watch a pty (`POLLNVAL`) is not modelled.

**AtomicFile.** Names point to inodes, so that a rename under a reader or a
writer does what it does: `fs::write` empties the sibling that is there,
whoever made it. A text is written in parts. `Locked` says whether the callers
hold a lock: `session.rs` and `registry.rs` do; the game files, the selection
and `gamelauncher.toml` are written without one.

**Launch.** One launch is a chain of processes of which one runs at a time
(`between` is the helper waiting for the last one to end). It starts from any
state of the files and by any of the ways in: the icon, the Dock menu, the
command line. `Elsewhere` stands for everybody else who has their hands on the
files (other launches, the Dock, an editor): it writes or removes any file, or
selects any game. A game file is its executable, the rest of its text, and
whether it mentions every option of the template. One step is `top_up`'s
decision, one its write; what it writes is the text read before.

**CompatRules, CompatWire, CompatBuiltin.** No state: the operators are the
functions of `compatdb/core`, which the launcher and the library share. Each
loop over rules, entries, lines or fields is an instance of `Loop`, whose `Step`
is the body of the loop; a filter is `Selected`, by the positions that pass. A rule
is a record, an option a sequence of at most one element, a text a sequence of
words: `%`, `;`, `=`, `,` and the end of a line are words of their own, since
the format gives them a meaning, and so are the two hex digits of an escape; a
name or a value is one word. The stable sort of `Table::resolve` is `Place`,
from 0 to 7, and a selection per place. An env variable has spellings:
`Variable` maps each to its variable, since the Windows block ignores case and
the unix environment does not. Other names are taken to be equal where the
code compares them without regard to case, or with and without `.dll`.
`debug_channels` is a list of its own, which the launcher alone turns into
`WINEDEBUG` (`Winedebug` in `RuleFields`). A version string is the set of fingerprints it contains; `WINE_D3D_CONFIG` is
the list of its options. Left out: what a fold notes for the log about entries it dropped or
reset; bytes that are not UTF-8. `CompatBuiltin` holds every rule of
`builtin.rs`.

**CompatProcess.** The launcher pushes rules, writes them into `WINE_COMPATDB`
and becomes Wine. A process then checks the file (`CheckFile`: kind and size),
opens and reads it (`ReadFile`), and folds and applies (`Apply`); the program
runs, and may start another, which inherits the variable, both environments
and, if it is the same program again, the command line. `compatdb.so` shares
nothing else between processes, so the model follows one line of descent. The
file may change, grow or go while the process may yet read it. Each of the two
rewrites may be refused, for want of memory or over 64 KB; the unix
environment has no such failure. Where no file is named and where it is
missing, no rules come of it, and the model does not tell the two apart. A
32-bit process's two PEB copies are one, and what is handed to ntdll (trees,
load orders, hooks) is the resolution's value, not an action of its own.

**CommandWords, RuleFields, FileTemplate, ConfigFiles, CommandLine.** No
state: the functions between a text and a setting. A command line is a
sequence of characters where quotes, spaces, backslashes, `;` and `=` are
characters of their own and any other run of characters is one. A config file
is a sequence of lines, as `template.rs` sees it: blank, prose, an assignment
or the header of a table, the last two commented out or not. What `toml_edit`
makes of the lines is `Document`: the values with their paths, or an error for
a key that is there twice. A TOML value is a string, a boolean, an integer or
an array. `LowerCase` gives the words that have another spelling; `Digits`
gives the numbers among them. The checks of `settings.rs` are operators that
return the fault they find; `Ignored` is the one that a file is warned for and
a command line refused. The wording of errors and warnings is left out.

**ConfigLoad.** `pc` follows `load_or_setup`: the command line is parsed, the
defaults are read (and made, when there is no file), then the game file, the
two are merged and read once more as one document, the executable is resolved
or picked, and the command line laid over the result. The actions that read a
file write the topped-up text in the same step (`Launch` has them apart, and
somebody else in between). The window may come first, and what was typed there
travels to a second process by command line or by a new file. `Run` builds what
Wine gets: the rules' table, `WINEDEBUG`, the environment, DPI and retina mode.
A second launch finds what the first one left. Which game is chosen among
several is `Launch`'s subject: here there is one file or none.

## Runs

| run | question | bounds | result |
| --- | --- | --- | --- |
| `session_safety` | is the lock's contract kept, is no change lost, does a vouched session have its mode, does a launch on its own get its settings? | 2 launches of any mode, 1 terminal, 2 settings, 20 pasts, 2 seconds, 1 mishap; symmetric launches | holds |
| `session_liveness` | does every launch come to a game or an error? | the same without clock and mishaps | holds |
| `session_reuse_unvouched` | does every session that is reused have the stamped mode? | 2 launches on a prefix no launcher has been at | fails, see below |
| `session_regadd_stale` | does reg add find the session that was judged? | 3 launches, the same | fails, see below |
| `pump` | the log, Force Quit, the pump's end, wine's writes | a pty of 4 bytes, reads of 2, a drain of 3 reads, 1 other program, 1 SIGTERM, 1 failed call | holds |
| `file_locked` | is a reader never shown half a text? does `write_atomic` keep its promise? | 2 writers, 1 reader, texts of 2 parts, 2 deaths or failures | holds |
| `file_unlocked` | and without a lock? | no failures | fails, see below |
| `launch` | does a launch play what was asked for, in a process fit for it? | 2 games, 2 executables, 3 texts, 1 step of others, 1 failed call | holds |
| `launch_lost_edit` | does the picker's write keep an edit of the game file? | the same | fails, see below |
| `compat` | do the rules of a launch arrive and fold as documented, in a process and in one it starts? | a table of 2 of 3 rules, a file of 2 texts or none, 2 programs, 2 environments, 2 processes, 1 change of the file, 1 refused rewrite | holds |
| `config` | does a launch run with what its files, its command line and its window say, and are the files left as they were? | 3 texts of `gamelauncher.toml` and 4 of the game file or none, 6 command lines, 3 forms, 2 places of the executable; 2 launches, 1 move | holds |
| `config_picked` | does a file say the executable that was picked? | 1 game file, with an example commented out above the line that counts | fails, see below |

Why the bounds are enough for what is asked: two launches are the least that
can get into each other's way, and a third one only adds another party to the
lock (the run that needs three has three); a setting that is stamped and one
that is not are the two kinds there are; the pasts are a prefix no launcher has
been at, with any `user.reg` or none, and what is left of an earlier launch with
the mode on (a launch here may want it on or off): it died after its stamp, or
it was through and terminals or users came after it, with a session up or not;
two seconds give a server that starts
before, in and after the second of a stamp. Reads of two bytes cut a CR LF in
every way; the pty holds two reads and the drain has the code's ratio of
16 x 8192 bytes to a pty's few thousand, with room for the read a signal
costs, as `PumpAssumption` requires. In `Launch`, two games make every case of
`choose_game` happen (none, one, several, a stale selection), and one step of
others falls between any two of the launch's. In `compat`, the order of rules is
a matter of pairs, and the 15 built-in rules, two of the launcher's and those
of the file make every pair of places; the rules set every kind of setting
twice and in conflict (a renderer beside an entry that asks for another, the
HUD with and against entries of its own, an override that is empty, a
`default` for one of two modules, two spellings of one variable); the file has
every kind of line the reader complains about, one text within the limit and
one over it; the second process gets everything the first one leaves behind,
once as the same program and once as another. In `config` the texts hold what
the code has a branch for: each kind of value, a list as a string, keys in
another case, values and keys that are ignored, a block without `exe`, off, for
every process or for a Steam app, one key twice, a header above options that
are commented out; each of the defaults meets each of the games, so that every
list and block is added to, replaced, extended and left alone; the command
lines set each group of keys, quoted and not, and two of them are refused; two
launches show that the second has nothing to add to the files. A mishap is a death, a failed
call or an edit, at any point. The clock and the mishaps are bounds of the
model (`MaxTime`, `MaxMishaps`, `MaxSigterms`, `MaxOthers`); the code has no
such limits. `CHECK_DEADLOCK` is off where the system may come to rest:
launches that have ended, a pump that has ended, the last process of a line.

The properties of `compat` are stated against the documentation of the format
and not against the folds: `NarrowestRuleWins` and its relatives know which
rule `Beats` which, by pairs, and nothing of the sort; `TextReadsBack`,
`PreviewIsWhatRuns`, `LinesPointHome` and `FileIsWhole` say that both ends of
the wire agree; `ArgumentsOnce`, `EnvAsLogged`, `CallerExportWins`,
`RendererDecides` and `HudYields` say what is in the process in the end, given
what it was handed.

Those of `config` are stated against the lines that were written and not
against the documents: `LastLayerDecides` reads each setting straight from the
texts of the files in use, and compares it with the launch's rules, arguments
and environment, which came by way of renaming, taking out, merging, reading
again and overlaying. Its second part refines a comment: `files.rs:135` finds
that two files that are each accepted combine to an accepted one, and they
fail together in one way, a block whose `exe` is in one file and a setting
that this `exe` refuses in the other (`ClashIsOfAnExe`, the `clash` state).
`TypedIsRun` follows what was typed through quoting and splitting, or through a
file; `LogNamesTheBlock` checks the log's names against the lines of the wire;
`TopUpKeepsTheFile` compares a file before and after it was read.

### Fairness

`PrefixSession`: a launcher, the wine client it starts or becomes and the
server that client spawns go on (`Prepare`, `Ensure`, `Join`, `Boot`); they are
running processes, and `wait_for_lock` has a deadline. For `Ensure` and `Join`
this is strong fairness: a client that finds no server spawns one and tries
again with a short back-off (`session.rs:242`), and a server lingers for seconds
after its last client (`launch.rs:291`), so a client that finds one up again and
again gets to it, although the model lets each of these servers leave at once.
Nothing is assumed of games, terminals, saves, or of a server's wish to leave. `LogPump`: the
launcher, the pump and the delivery of a signal go on; wine and the other
programs need not write, end or let go of the pty. `Launch`: a process goes on
until it needs the user, and so does the helper that waits for it to end; the
user owes no answer. Weak fairness is enough everywhere else: what these
processes wait for either stays available or times out.

## Where code and comments disagree

1. `app/session.rs:21` says a server that started at or after the stamp's time
   booted from the `user.reg` the launcher wrote with the stamp. On a prefix's
   first launch `registry.rs` has no `user.reg` to write and boots a session
   through `reg add` first, after the stamp and without the values
   (`registry.rs:198` says so). Until that session is stopped, another launch
   that wants the same mode takes it for one that has it
   (`session_reuse_unvouched`).
2. `app/registry.rs:28` says `reg add` finds a session that already booted with
   the wanted mode. A session may be replaced between the decision and the
   `reg add`, by a launch that wants the other mode (`session_regadd_stale`).
   What does hold is `ReuseStaysVouched`: the decision stays right for as long
   as the server it was made about runs.
3. `core/fsutil.rs:3` says a reader never sees a half-written file. The sibling
   is named after the file alone, and writers without a lock share it: the
   second one empties what the first one is about to rename
   (`file_unlocked`).
4. `app/config/executable.rs:68` says the picker's answer goes into the game
   file with its comments and layout intact. It goes into the text read before
   the window opened: an edit saved while it was open is gone
   (`launch_lost_edit`). `top_up` writes a text it read before, too; its doc
   makes no such promise, and the property leaves it out.
5. `app/config/template.rs:209` puts a picked executable in place of the first
   line that mentions the option, commented out or not. In a file that keeps
   the template's example and has a line of its own below it, the option is
   then assigned twice, and no launch reads the file any more
   (`config_picked`).

Not runs, but reachable in the models, where the properties stop short of a
comment:

- `app/registry.rs:20` says `EmulateModeset` has to be in place before the
  session that runs the game boots. The stamp does not record it. A session that
  booted without it, from a `user.reg` in which it was changed since the stamp,
  is reused, and `reg add` sets it in a session that has its mode list already.
  `AloneGetsItsSettings` therefore asks for every value in the live registry,
  for the stamped ones at boot if the session is vouched for, and for all of
  them at boot only of a session the launch boots itself.
- `app/registry.rs:150` says `ensure` puts the values in place for the session
  the launch goes into. It looks for them in `user.reg`, which is behind the
  registry of a session that is up until wineserver saves: a value a user has
  just changed in that session is taken to be there. Such an edit is a mishap,
  and a past session has saved its own, in what `AloneGetsItsSettings` says.
- `app/launch.rs:283` says the log stays free of stray CRs also when a read ends
  between a CR and its LF. When wine is the last one on the terminal and exits
  there, macOS discards the LF, and the pump logs the CR it held back (`Finish`
  with `~HeldIsDue`). What was discarded (`lost`) never reaches the log, and
  `LogIsWhatWasWritten` and `WineIsLoggedToTheEnd` say so. Usually wineserver
  still holds the terminal when wine exits, and nothing is discarded.
- `app/launch.rs:230` says a pid given to another process is never hit; the
  handler looks at its parent and kills two calls later, and in between wine may
  end and its pid be given away (`wine = "struck"`). The window is small and
  nothing could close it.

## Proofs

TLAPS checks, for any launches, settings, values, writers, readers, sizes and
bounds, what the runs check for a few:

- `PrefixSession_proofs`, from `SessionAssumption` (the sets are disjoint where
  the code's types are) and `PastAssumption`. `TypeCorrect` comes first. `SessionInv` is
  the inductive invariant: `FreshHoldsLock`, `NoLostUpdate` and
  `ReuseStaysVouched` are among its parts, and are not inductive without the
  others. `LaunchInv` relates what a launcher remembers to what is there: a
  launcher that has yet to stamp is not fresh; a sighting of a server that
  still runs is true; a launcher about to write `user.reg` holds a stamp with
  its own values. `VouchInv` says that while `vouched`, `user.reg`, the live
  registry and the registry at boot all hold the stamp's values: without the
  live registry, a save would break it. There is one lemma per group of
  actions; the theorems `LockHeldWhileFresh`, `UserRegWriteIsCurrent`,
  `ReuseDecisionHolds` and `StampTellsTheMode` follow. `SessionImplementsLock`
  shows that every step is one of `PrefixLock` or changes nothing it sees.
  `AloneLaunchIsSet`, which uses `SessionInv` and `TypeCorrect`, is about a
  launch that no other has started beside and nothing has failed for, on a
  prefix with any past, with any number of terminals that boot sessions and let
  them go. `Course` is its history in one state: until `ensure` has read
  `user.reg`, a session that is up has the registry of that file, which is why
  reading the file tells what is missing in the session as well; from then on
  the stamp is the launch's; during `reg add` the registry in force (`InForce`:
  the live one, or what the next server will load) has the values it is through
  with; when it comes to its game, all of them, and a session of its own has
  booted with all of them. That a reused session booted with the stamped ones is
  `VouchInv`.
  `NobodyStartsAgain` is why being alone now means having been alone before.
- `AtomicFile_proofs`, from `FileAssumption`; the two main theorems assume
  `Locked`. `FileInv`: whoever is at work holds the lock (`OneWriter`), the
  sibling is its own and holds what it has written so far; and a file that has
  a name or a reader is whole and is not the sibling (`NamedAreWhole`), which
  is why a write never shows. `WriteAtomicImplementsWholeFile` maps each step
  to `WholeFile`.
- `Launch_proofs`, from `GameAssumption` and `LaunchAssumption`.
  `WineHasNoWindows` needs only that nothing between the update check and the
  exec opens a window (`GuiInv`). `LaunchPlaysTheWish` and `LaunchAsksOnce` rest
  on `Route`, which says for each stretch of the way where the wish is: in the
  command line or the selection (`BeforeChoice`), in the game at hand
  (`WhileReading`, `WhileAdding`), in the loaded config and on disk
  (`OnceLoaded`); and that what a window has asked is settled before another
  could ask (`Answered`). They hold while nobody else has touched the files
  (`others = 0`) and however many calls fail. `LaunchTypeCorrect` needs
  `HoldsFile`: a step that edits a game file has one.
- `LogPump_proofs`, from `PumpAssumption` (the three kinds of bytes differ, a
  drain takes a full pty and a read more per SIGTERM). `PumpIsThereToKill` rests
  on `PumpInv`: a pump that is not running has no handler, or no wine.
  `PumpTypeCorrect` says among other things that what a chunk leaves always fits
  the buffer of `CHUNK` + 1 bytes it is written from. `LogIsFaithful` rests on
  `CopyInv`, whose core is `InLog`: what is due to the log is what `write_all`
  still has, then what the strip makes of the CR held back and of the pty. It is
  inductive because a strip in chunks is the strip of the whole (`Feed` against
  `Stripped`), wherever the reads cut, and because what is discarded moves from
  the pty to `lost` as it is. `WineIsLogged` adds `EndInv`: once wine
  is seen gone, each of its bytes in the pty is within what the reads that are
  left take, SIGTERMs counted (`Draining`); at the end only the other programs'
  bytes are missing, or, if the last slave was closed, exactly what went with it.
- `CompatRules_proofs`, from `RulesAssumption`, `WireAssumption` and
  `BuiltInAssumption`, has no theorem of its own: it holds the lemmas about the
  rules as algorithms. Decode undoes Encode, and no encoded text has a
  separator; split undoes join; a field reads as the part of the rule it was
  written from, so the record of a rule that may be made (`MadeRules`) reads
  back as that rule, and a table as that table. The stable sort lists the rules
  that match, each once, in the order that `Follows` has by pairs. Each loop of
  the resolution has a lemma that says what it leaves, by position: the last
  rule that sets a setting, the last that names a module, the entries in their
  order.
- `CompatProcess_proofs`, from those, `CatalogAssumption`, `TextsAssumption`,
  `ExportsAssumption`, `ImagesAssumption` and `BoundsAssumption`: every
  invariant the runs of `compat` check. `CompatInv`, the inductive invariant,
  is `TableInv` (the launcher's table is the rules it was given, on lines of
  their own), `ProcInv` (a process that has got to the end has applied the
  resolution of what it gathered, and the part of `proc` that is not written
  yet is as it was) and `CountInv`; `CmdInv` is the command line's part. The
  other theorems follow from it, without a further induction over steps, by
  what the folds compute: `Ranks` lists the rules of a process as they are
  folded and ties each position to `Beats`, the order the properties are stated
  with, which `PlaceIsTheDocumentedOrder` shows to be the sort's for any table.
  `NarrowestWins`, `DllsAreAsLastSaid`, `ArgumentsAreThereOnce`,
  `ArgumentsAreKept`, `EnvIsAsLogged`, `CallersExportStays`,
  `RendererIsAsked` and `HudYieldsToEntries` are about what a process ends up
  with; `VariableReadsBack`, `PreviewRuns`, `LoggedLinesAreHome` and
  `FileIsNeverCut` about the two ends of the wire.
- `ConfigLoad_proofs`, from `LoadAssumption`, `LinesAssumption` (a file is a
  sequence of lines), `CommandLineAssumption` and `TypedAssumption` (what is typed
  is a text): `TopUpHolds` is about `sync_template` and
  `insert_blocks` for any file. `TrimmedIs`, `InsertBlocksIs` and `InsertGrows`
  say what goes where: all the new lines are in one place, ahead of the first
  table header, and only blank lines go from the end. `SameDocument` says
  what a document is made of, the assignments and the table each is in, so
  that lines which assign nothing, put in where no table is opened between
  them and what follows, change nothing (`InsertSays`). That the next reading
  finds nothing missing (`NowMentions`, `StillMentions`) is the subtle part: a
  block put in must mention its option where `mentions` looks, and must not
  open a table that takes the lines behind it from the top level.
  `SyncKeeps` sums this up; `FilesStayTexts` is the inductive invariant that
  makes it apply on every launch: what the files hold, and what a launch keeps
  of them until it writes, are sequences of lines.

  `TypedOnceRunsHolds` is the half of `TypedIsRun` about a form that is run once,
  for every text that can be typed: nothing but a fault in the file of the
  defaults can refuse it, and what Wine is started with has its executable, its
  arguments, or the defaults' if it has none, and its variables. It rests on two
  theorems about the command line in between. `WordsReadBack`: `words::split`
  undoes `words::quote`, for any words joined by blanks; its lemmas follow the
  reader's state, before, in and behind the quotes, through the characters of a
  word, those that were escaped included (`EscapeReads`, `QuotedReads`,
  `LineReads`). `TypedReadsBack`: each `--config` batch reads back as the
  assignment it was written from, as a quoted text has no `;` or `=` outside
  its quotes and starts and ends with something that is not blank, so that
  `split_assignments` and the trims leave it whole; and the assignments
  together are the settings typed, the variables in whatever order they were
  listed. `GameSpecTyped` says what a form that passes holds.
  `OnceInv`, the inductive invariant, adds to the property where the launch
  stands: the batches are still those of what was typed, the settings parsed
  from them are what was typed, and its executable is there until it has been
  taken.

What the assumptions say of the constants, and where the code does: the
settings, keys and variables it has of its own are among those there are
(`key.rs`, `builtin.rs`); the separators and their escapes are words
(`wire.rs`); a rule that is built in or pushed is well made, as `rule.rs` and
`app/rules.rs` build no other, and one for every process or for a Steam app
replaces no arguments; a file holds texts, and its rules' variables are among
those of the model; every variable is in the environment, if only as unset.
The characters that `words.rs` and `cli.rs` name are characters a text may have,
and `executable` and `arguments` are their own lower case; paths and what is
typed into the form are texts, and the path of a file that is there is a full
one, which `resolve_exe` leaves alone.
`FEX_X87REDUCEDPRECISION`, the only variable that a built-in rule for every
process sets, is the variable of its name. TLC evaluates those of the rules, the
wire and the processes in `compat`, those of the rules, the wire and the
command line in `config`.

The provers cannot be given an induction whose predicate is an operator.
`Loop` therefore has lemmas whose predicate is a set and where the step of a
loop is a function; it writes a fold as a recursive function and shows once what
its states are, what one more element adds, and that what each round keeps the
fold keeps. The lemmas about the folds use nothing else.

Proving found one property that said too much. `ArgumentsOnce` says that no
argument gets on the command line a second time. `append_cmdline_each` adds an
argument unless the line contains it; after an argument `b`, an argument `a b`
is not there yet and is added, and the word `b` is there twice. The property
now asks for this where every argument is one word (`single`; the built-in
`-availablevidmem 2048.0` counts as one); that every argument is there holds
without that condition.

Only model-checked: the liveness properties (`LaunchGetsSomewhere`,
`LaunchSettles`, `ForceQuitEndsWine`, `PumpEndsWithWine`, `WineGetsOn`), as
fairness and ENABLED are beyond the prover; and of `config` the invariants
`LastLayerDecides`, `LogNamesTheBlock` and, of `TypedIsRun`, the half about a
game that is saved and read back, and that the defaults' arguments are the ones
their file gives. These compare the lines of the files with what comes out of a
dozen functions over documents and lists, most of them written with the
community modules' folds and filters, which the provers know nothing of; they
are in reach only once those functions are loops, as the rules', the template's
and the command line's are.

## What is not modelled

The components the table of `PROJECT.json` lists as such, with reasons. Of the
modelled ones: the syntax of `user.reg`, of the stamp and of TOML; the failure
of single AppKit calls; the 60 seconds after which the relaunch helper no
longer waits for the old process (`bundle.rs`); `exec_direct`, the launch from a
terminal, which has no pump; the reader of version resources, the trees and
hooks inside ntdll, and the two PEB copies of a 32-bit process one by one; the
wording of errors, warnings and the log.

Of data: `CompatProcess` opens and reads the rules file in one step, so a rewrite
in place between two reads of an open file is left out. The text of the rules
has one control character, the newline, for all that `wire.rs:368` escapes, and
its lines are without the CR and the blanks around them that `lines()` and the
trims take off. A module of a DLL override is one word, without the `.dll` and
the blanks that `same_module` (`resolve.rs:628`) and `part.rs:366` take off.
`Document` knows nothing of the fault `toml_edit` has for an `[env]` header
behind `env.X = ...`, and each line assigns one key.

## Plan

Done: the session, the pump, file replacement, the launch, the settings from
files, command line and window to the table, and the rules from there to a
process. Next, in order:

1. `ConfigLoad` and `CompatProcess` in one behaviour: what a game file says is
   what a process gets. So far the first ends where the second begins, at the
   table, and the two are checked apart.
2. More of a process's start: the two PEB copies one after the other, load
   orders and trees as ntdll receives them.
3. More proofs. What is left of `ConfigLoad`'s three invariants: the loops of
   `RuleFields` and `ConfigFiles` are to become instances of `Loop` and
   `Selected`, as those of the rules, of `FileTemplate` and of the command line
   have. Then the launch's route when others write files it is not about.
