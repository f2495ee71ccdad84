----------------------------- MODULE CommandLine -----------------------------
(***************************************************************************)
(* What the launcher is asked for: the --config batches (cli.rs), the New  *)
(* Executable window (config/new_game.rs), and the executable's path       *)
(* (config/executable.rs).  A batch is a text as in CommandWords.          *)
(***************************************************************************)
EXTENDS ConfigFiles, CommandWords

CONSTANT Home        (* the user's directory                                   *)

(* A text may have the characters that the code names, and its keys are in *)
(* lowercase as it spells them.                                            *)
ASSUME CommandLineAssumption ==
  /\ {Space, Single, Double, Backslash, ";", "=", "executable", "arguments", "env."} \subseteq Word
  /\ \A key \in {"executable", "arguments"} : Lower(key) = key

------------------------------------------------------------------------------
(* --config *)

(* A value that is one word; none at all is the empty text.                *)
OneWord(value) ==
  LET words == SplitWords(value)
  IN IF words = <<>> \/ Len(words[1]) > 1 THEN [fault |-> "NotOneWord", word |-> <<>>]
     ELSE [fault |-> Ok, word |-> IF words[1] = <<>> THEN <<>> ELSE words[1][1]]

(* The values a key takes on the command line: words, or one word. *)
WordsFor(key, value) ==
  IF key = "arguments" \/ (IsKey(key) /\ Lower(key) \in Lists)
  THEN IF SplitWords(value) = <<>> THEN [fault |-> "Unbalanced", values |-> <<>>]
       ELSE Values(SplitWords(value)[1])
  ELSE [fault |-> OneWord(value).fault, values |-> <<OneWord(value).word>>]

ValidName(word) == word # <<>> /\ word[1] # "." /\ ~Contains(word, "/")
WordOf(word) == IF Len(word) = 1 THEN Lower(word[1]) ELSE ""

(* Why the command line refuses the values for a key: it takes no mistake, *)
(* one that a file only gets a warning for included.                       *)
ValueFault(key, values) ==
  CASE key = "executable" -> IF values[1] = <<>> THEN "Empty" ELSE Ok
    [] key = "arguments" -> Ok
    [] key = "game" -> IF ValidName(values[1]) THEN Ok ELSE "BadName"
    [] key = "retina_mode" -> OptionFault(RetinaOf(WordOf(values[1])))
    [] key = "dpi" -> OptionFault(DpiOf(WordOf(values[1])))
    [] OTHER -> IF ~IsKey(key) THEN KeyFault(key)
                ELSE IF ~Contains(TopKeys, Lower(key)) THEN "UnknownKey"
                ELSE CheckLaunchWide(Lower(key), values)

Recorded(settings, key, values) ==
  CASE key = "executable" -> [settings EXCEPT !.executable = values]
    [] key = "arguments" -> [settings EXCEPT !.arguments = <<values>>]
    [] key = "game" -> [settings EXCEPT !.game = values]
    [] key = "retina_mode" -> [settings EXCEPT !.retina_mode = RetinaOf(WordOf(values[1]))]
    [] key = "dpi" -> [settings EXCEPT !.dpi = DpiOf(WordOf(values[1]))]
    [] OTHER -> [settings EXCEPT !.rule = Put(@, Lower(key), values)]

(* Why assign refuses a key and its value. *)
AssignFault(key, value) ==
  LET read == WordsFor(key[1], value)
  IN IF key = <<>> THEN "EmptyKey"
     ELSE IF key[1] = "env." /\ EnvNameFault(Tail(key)) # Ok THEN EnvNameFault(Tail(key))
     ELSE IF key[1] = "env." THEN OneWord(value).fault
     ELSE IF Len(key) > 1 THEN "UnknownKey"
     ELSE IF read.fault # Ok THEN read.fault
     ELSE ValueFault(key[1], read.values)

(* assign: env.NAME is a key of two words. *)
Assign(settings, key, value) ==
  [fault |-> AssignFault(key, value),
   settings |-> IF AssignFault(key, value) # Ok THEN settings
                ELSE IF key[1] = "env."
                THEN [settings EXCEPT !.env = Put(@, key[2], OneWord(value).word)]
                ELSE Recorded(settings, key[1], WordsFor(key[1], value).values)]

ReadPart(acc, part) ==
  IF acc.fault # Ok THEN acc
  ELSE IF ~Contains(part, "=") THEN [acc EXCEPT !.fault = "NoValue"]
  ELSE Assign(acc.settings, Trim(Before(part)), Trim(After(part)))

Assigning == INSTANCE Loop WITH Step <- ReadPart

(* OverrideBatch::from_str: the assignments one after the other. *)
BatchSettings(raw) ==
  Assigning!Fold([fault |-> IF raw = <<>> THEN "Empty" ELSE Ok, settings |-> NoSettings],
                 SplitAssignments(raw))

Overlaying == INSTANCE Loop WITH Step <- Overlay

(* Later batches win, and an executable stands in for the game. *)
Overrides(read) ==
  LET over == Overlaying!Fold(NoSettings, [i \in DOMAIN read |-> read[i].settings])
  IN [settings |-> over,
      fault |-> IF \E i \in DOMAIN read : read[i].fault # Ok THEN "Invalid"
                ELSE IF over.executable # <<>> /\ over.game # <<>> THEN "ArgumentConflict" ELSE Ok]

IntoArgs(batches) == Overrides([i \in DOMAIN batches |-> BatchSettings(batches[i])])

------------------------------------------------------------------------------
(* Paths *)

ExpandTilde(path) == IF path # <<>> /\ path[1] = "~/" THEN Home \o <<"/">> \o Tail(path) ELSE path

(* resolve_exe: none unless it is absolute and names a file. *)
ResolveExe(path) ==
  LET full == ExpandTilde(path)
  IN IF Len(full) > 1 /\ full[1] = "/" /\ Last(full) # ".." THEN <<full>> ELSE <<>>

(* resolve_configured, which also asks that the file is there. *)
Configured(option, there) ==
  IF option # <<>> /\ ResolveExe(option[1]) # <<>> /\ ResolveExe(option[1])[1] \in there
  THEN ResolveExe(option[1]) ELSE <<>>

------------------------------------------------------------------------------
(* The New Executable window: its fields are texts, the environment lines  *)

EnvLineFault(line) ==
  LET name == Trim(Before(line))
  IN IF Contains(line, "=") /\ Len(name) = 1 /\ name[1] \notin {Space, ";", Single, Double, Backslash}
     THEN EnvNameFault(name) ELSE "BadLine"

(* parse_env_lines: blank lines are skipped, and a later one wins. *)
EnvLines(lines) ==
  LET said == Filtered(lines, LAMBDA line : Trim(line) # <<>>)
  IN [fault |-> \E i \in DOMAIN said : EnvLineFault(said[i]) # Ok,
      env |-> AsMap([i \in DOMAIN said |->
                       [name |-> Trim(Before(said[i])), value |-> Trim(After(said[i]))]])]

(* GameSpec::parse, or none when the window names what to change. *)
GameSpec(form, there) ==
  LET executable == Configured(<<Trim(form.executable)>>, there)
      words == SplitWords(form.arguments)
      env == EnvLines(form.env)
  IN IF executable = <<>> \/ words = <<>> \/ env.fault THEN <<>>
     ELSE <<[executable |-> executable[1], arguments |-> words[1], env |-> env.env]>>

(* override_args: one assignment per flag, each word quoted. *)
OverrideArgs(spec) ==
  LET names == SetToSeq(DOMAIN spec.env)
      quoted == [i \in DOMAIN spec.arguments |-> QuoteWord(spec.arguments[i])]
  IN << <<"executable", "=">> \o QuoteWord(spec.executable) >>
       \o (IF quoted = <<>> THEN <<>> ELSE << <<"arguments", "=">> \o Join(quoted, Space) >>)
       \o [i \in DOMAIN names |->
             <<"env.", names[i], "=">> \o QuoteWord(spec.env[names[i]])]

(* game_text: the template with the answers filled in. *)
GameText(spec) ==
  LET named == SetOption(Template("game"), "executable", String(spec.executable))
      items == [i \in DOMAIN spec.arguments |-> String(spec.arguments[i])]
      given == IF items = <<>> THEN named ELSE SetOption(named, "arguments", [array |-> items])
  IN IF spec.env = <<>> THEN given ELSE AppendEnv(given, spec.env)
==============================================================================
