----------------------------- MODULE ConfigLoad -----------------------------
(***************************************************************************)
(* One launch after the other, from a command line or the New Executable   *)
(* window to the settings Wine is started with: Config::load_or_setup,     *)
(* the files it creates, tops up and writes the picked executable into,    *)
(* and the environment (wine_env.rs).  Which game is the selected one is   *)
(* the subject of Launch; here there is at most one.  Between two launches *)
(* the game's files may move.                                              *)
(***************************************************************************)
EXTENDS CommandLine

CONSTANTS
  BuiltInRules,   (* some of the rules compatdb.so has built in                *)
  Inherited,      (* the environment the launcher is started with              *)
  DefaultsFiles,  (* the texts gamelauncher.toml may have                      *)
  GameTexts,      (* the texts the game file may have                          *)
  CommandLines,   (* the batches of --config a launch may be given             *)
  Forms,          (* what may be typed into the window                         *)
  Places,         (* the executables that may be there, a set at a time        *)
  MaxLaunches,    (* bound: launches                                           *)
  MaxMoves        (* bound: times the executables change                       *)

ASSUME LoadAssumption ==
  /\ MaxLaunches \in Nat /\ MaxMoves \in Nat
  /\ \A places \in Places : \A path \in places : ResolveExe(path) = <<path>>

IsSequence(s) == s \in Seq(ToSet(s))

(* A file and the environment typed into the window are lines. *)
ASSUME LinesAssumption ==
  /\ \A text \in DefaultsFiles \cup GameTexts : IsSequence(text)
  /\ \A form \in Forms : IsSequence(form.env)

(* Paths and what is typed into the window are texts. *)
ASSUME TypedAssumption ==
  /\ \A places \in Places : places \subseteq Seq(Word)
  /\ \A form \in Forms :
       /\ form.executable \in Seq(Word) /\ form.arguments \in Seq(Word)
       /\ \A i \in DOMAIN form.env : form.env[i] \in Seq(Word)

VARIABLES
  defaults, game,   \* the text of each file, an option
  there,            \* the executables that are there
  pc,
  args,             \* the batches of this launch
  spec,             \* what was typed to start it, an option
  over,             \* the settings of the command line
  base, own,        \* the two files as loaded
  raw,              \* what they say together
  exe,              \* the executable, resolved
  config,           \* what Wine is started with, an option
  launches, moves

files == <<defaults, game, there>>
loaded == <<base, own, raw, exe>>
vars == <<files, pc, args, spec, over, loaded, config, launches, moves>>

Init ==
  /\ defaults \in {<<>>} \cup {<<text>> : text \in DefaultsFiles}
  /\ game \in {<<>>} \cup {<<text>> : text \in GameTexts}
  /\ there \in Places
  /\ pc = "idle" /\ args = <<>> /\ spec = <<>> /\ over = NoSettings
  /\ base = <<>> /\ own = <<>> /\ raw = <<>> /\ exe = <<>> /\ config = <<>>
  /\ launches = 0 /\ moves = 0

------------------------------------------------------------------------------
(* The command line and the window *)

(* From the Dock, a terminal or with --add-game; after the first launch as *)
(* the Dock does it, with nothing.                                         *)
Start ==
  /\ pc = "idle" /\ launches < MaxLaunches
  /\ launches' = launches + 1
  /\ \/ pc' = "parse" /\ args' \in (IF launches = 0 THEN CommandLines ELSE {<<>>})
     \/ pc' = "form" /\ args' = <<>> /\ launches = 0
  /\ UNCHANGED <<files, spec, over, loaded, config, moves>>

(* parse_from; without a game the window opens (needs_first_game).         *)
Parse ==
  /\ pc = "parse"
  /\ \E parsed \in {IntoArgs(args)} :
       /\ over' = parsed.settings
       /\ pc' = IF parsed.fault # Ok THEN "refused"
                ELSE IF game # <<>> \/ over'.executable # <<>> THEN "defaults"
                ELSE IF over'.game # <<>> THEN "refused" ELSE "form"
  /\ UNCHANGED <<files, args, spec, loaded, config, launches, moves>>

(* add_game: what was typed is run once, or saved as the selected game; a  *)
(* fresh instance goes on.                                                 *)
Answer ==
  /\ pc = "form"
  /\ \E form \in Forms : \E typed \in {GameSpec(form, there)} :
       /\ typed # <<>>
       /\ spec' = typed
       /\ \/ args' = OverrideArgs(typed[1]) /\ UNCHANGED game
          \/ args' = <<>> /\ game' = <<GameText(typed[1])>>
  /\ pc' = "parse"
  /\ UNCHANGED <<defaults, there, over, loaded, config, launches, moves>>

------------------------------------------------------------------------------
(* Config::load_or_setup *)

(* read_defaults, which makes the file when there is none. *)
ReadDefaults ==
  /\ pc = "defaults"
  /\ \E file \in {LoadFile(IF defaults = <<>> THEN Template("defaults") ELSE defaults[1],
                           "defaults")} :
       /\ defaults' = <<file.text>>
       /\ base' = file
       /\ pc' = IF file.fault # Ok THEN "refused"
                ELSE IF over.executable # <<>> THEN "cli" ELSE "game"
  /\ UNCHANGED <<game, there, args, spec, over, own, raw, exe, config, launches, moves>>

(* An executable on the command line has to be there. *)
TakeExecutable ==
  /\ pc = "cli"
  /\ exe' = Configured(over.executable, there)
  /\ raw' = base.raw
  /\ pc' = IF exe' = <<>> THEN "refused" ELSE "overlay"
  /\ UNCHANGED <<files, args, spec, over, base, own, config, launches, moves>>

ReadGame ==
  /\ pc = "game"
  /\ \E file \in {LoadFile(game[1], "game")} :
       /\ game' = <<file.text>>
       /\ own' = file
       /\ pc' = IF file.fault # Ok THEN "refused" ELSE "merge"
  /\ UNCHANGED <<defaults, there, args, spec, over, base, raw, exe, config, launches, moves>>

(* merged: the two are read once more, together. *)
Merge ==
  /\ pc = "merge"
  /\ raw' = FromDocument(Merged(base.document, own.document), "game")
  /\ pc' = IF raw'.fault # Ok THEN "clash" ELSE "resolve"
  /\ UNCHANGED <<files, args, spec, over, base, own, exe, config, launches, moves>>

(* resolve_game_executable: asks unless the file's own is there. *)
ResolveFile ==
  /\ pc = "resolve"
  /\ exe' = Configured(raw.settings.executable, there)
  /\ pc' = IF exe' = <<>> THEN "pick" ELSE "overlay"
  /\ UNCHANGED <<files, args, spec, over, base, own, raw, config, launches, moves>>

(* pick_executable writes the answer into the game file. *)
Pick ==
  /\ pc = "pick"
  /\ \E path \in there :
       /\ exe' = <<path>>
       /\ game' = <<SetOption(own.text, "executable", String(path))>>
  /\ pc' = "overlay"
  /\ UNCHANGED <<defaults, there, args, spec, over, base, own, raw, config, launches, moves>>

------------------------------------------------------------------------------
(* wine_env.rs *)

InheritedConflicts == {"WINEDLLOVERRIDES", "WINE_LARGE_ADDRESS_AWARE", "WINE_COMPATDB_FILE"}

(* The launcher's own variables, but WINEDEBUG; no rules, no variable.     *)
LauncherEnv(table) ==
  LET always == [WINEPREFIX |-> <<"prefix">>, WINEMSYNC |-> <<"1">>]
  IN IF table = <<>> THEN always ELSE Put(always, "WINE_COMPATDB", Display(table))

(* apply, then apply_user: [env] wins over the launcher. *)
Environment(env, table) ==
  LET inherited == [n \in DOMAIN Inherited \ (InheritedConflicts \cup {"WINE_COMPATDB"}) |-> Inherited[n]]
  IN Atop(env, Atop(LauncherEnv(table), inherited))

OrElse(option, value) == IF option = <<>> THEN value ELSE option[1]

(* The command line over the files, and Wine is started; auto asks the     *)
(* display.                                                                *)
Run ==
  /\ pc = "overlay"
  /\ \E s \in {Overlay(raw.settings, over)}, hidpi \in BOOLEAN :
     \E launch \in {Table(LaunchRule(s.rule), raw.rules)},
        retina \in {ResolveRetina(OrElse(s.retina_mode, "auto"), hidpi)} :
       /\ hidpi \/ s.retina_mode \in {<<>>, <<"auto">>}
       /\ config' = << [executable |-> exe[1], arguments |-> OrElse(s.arguments, <<>>),
                        launch |-> launch, env |-> s.env,
                        environment |-> Environment(s.env, launch.table),
                        debug |-> Winedebug(launch.table), retina |-> retina,
                        dpi |-> ResolveDpi(OrElse(s.dpi, AutoDpi), retina)] >>
  /\ pc' = "running"
  /\ UNCHANGED <<files, args, spec, over, loaded, launches, moves>>

(* The launch is over, or never got to Wine; the window may be cancelled.  *)
End ==
  /\ pc \in {"running", "refused", "clash", "form", "pick"}
  /\ pc' = "idle" /\ args' = <<>> /\ spec' = <<>> /\ over' = NoSettings
  /\ base' = <<>> /\ own' = <<>> /\ raw' = <<>> /\ exe' = <<>> /\ config' = <<>>
  /\ UNCHANGED <<files, launches, moves>>

GameMoves ==
  /\ pc = "idle" /\ launches > 0 /\ moves < MaxMoves
  /\ there' \in Places \ {there}
  /\ moves' = moves + 1
  /\ UNCHANGED <<defaults, game, pc, args, spec, over, loaded, config, launches>>

Next == \/ Start \/ Parse \/ Answer \/ ReadDefaults \/ TakeExecutable \/ ReadGame \/ Merge
        \/ ResolveFile \/ Pick \/ Run \/ End \/ GameMoves

Spec == Init /\ [][Next]_vars
------------------------------------------------------------------------------
(* What was written, read straight from the lines of the files in use: the *)
(* values of a setting, the defaults' first.                               *)

Used == IF config = <<>> THEN <<>>
        ELSE IF over.executable # <<>> THEN defaults ELSE defaults \o game

(* The launcher's own settings keep their case; a key of the rules has any. *)
Canonical(path) ==
  [i \in DOMAIN path |->
     IF (i = 1 /\ ~Contains(Leading \o Trailing, path[1])) \/ (i = 3 /\ path[1] = "process")
     THEN Lower(path[i]) ELSE path[i]]

Wanted(leaf) ==
  ~ (Last(leaf.path) = "dxgi" /\ Is("string", leaf.item) /\ Lower(leaf.item.string[1]) = "gptk")

Written(files_) ==
  FlattenSeq([i \in DOMAIN files_ |->
    LET leaves == Document(files_[i]).table
    IN SelectSeq([k \in DOMAIN leaves |-> Leaf(Canonical(leaves[k].path), leaves[k].item)], Wanted)])

TextsOf(item) ==
  CASE Is("string", item)  -> <<item.string>>
    [] Is("boolean", item) -> << <<item.boolean>> >>
    [] Is("integer", item) -> << <<item.integer>> >>
    [] OTHER               -> [i \in DOMAIN item.array |-> item.array[i].string]

(* Lists add up over the files, but for an override; else the last says.   *)
Given(written, path) ==
  LET said == SelectSeq(written, LAMBDA e : e.path = path)
  IN CASE said = <<>> -> <<>>
       [] Last(path) \in {"arguments", "dll_overrides", "debug_channels"} ->
            FlattenSeq([i \in DOMAIN said |-> TextsOf(said[i].item)])
       [] OTHER -> TextsOf(Last(said).item)

IsGiven(written, path) == \E i \in DOMAIN written : written[i].path = path
NamesBelow(written, path) ==
  {e.path[Len(path) + 1] : e \in {f \in ToSet(written) : IsStrictPrefix(path, f.path)}}

(* What a rule says of a key, in the same form. *)
Holding(rule, key) ==
  CASE key \in Scalars -> IF rule.scalars[key] = Unset THEN <<>> ELSE << <<rule.scalars[key]>> >>
    [] key \in PinKeys -> rule.pins[key]
    [] key = "exe" -> <<rule.exe>>
    [] key = "dll_overrides" -> rule.dlls
    [] key = "arguments" -> rule.arguments
    [] key = "debug_channels" -> rule.channels
    [] OTHER -> OrElse(rule.override, <<>>)

AsHeld(key, texts) ==
  CASE key \in Scalars -> [i \in DOMAIN texts |-> <<Lower(texts[i][1])>>]
    [] key = "debug_channels" -> FlattenSeq([i \in DOMAIN texts |-> Split(texts[i], ",")])
    [] OTHER -> texts

RuleNamed(name) ==
  LET launch == config[1].launch
      at == {i \in DOMAIN launch.names : launch.names[i] = name}
  IN {launch.table[i].rule : i \in at}

TopSays(written, key) ==
  AsHeld(key, IF key \in DOMAIN over.rule THEN over.rule[key] ELSE Given(written, <<key>>))

BlockSays(written, name, key) == AsHeld(key, Given(written, <<"process", name, key>>))

BlockIsOn(written, name) ==
  /\ IsGiven(written, <<"process", name, "exe">>)
  /\ Given(written, <<"process", name, "enabled">>) # << <<"false">> >>

TopIsAsWritten(written) ==
  LET c == config[1]
      own_ == RuleNamed(TopLevel) \cup (IF RuleNamed(TopLevel) = {} THEN {NewRule(AnyExe)} ELSE {})
      says(name, option) == IF option # <<>> THEN option[1] ELSE Given(written, <<name>>)
      env == [n \in NamesBelow(written, <<"env">>) |-> Given(written, <<"env", n>>)[1]]
      word(name, default) == IF IsGiven(written, <<name>>) THEN Lower(Given(written, <<name>>)[1][1])
                             ELSE default
      dpi == IF over.dpi # <<>> THEN over.dpi ELSE DpiOf(word("dpi", "auto"))
  IN /\ \A rule \in own_, key \in ToSet(TopKeys) : Holding(rule, key) = TopSays(written, key)
     /\ c.arguments = says("arguments", over.arguments)
     /\ c.env = Atop(over.env, env)
     /\ \A n \in DOMAIN c.env : c.environment[n] = c.env[n]
     /\ over.retina_mode = <<>> => c.retina \in
          (CASE word("retina_mode", "auto") = "auto" -> BOOLEAN
             [] OTHER -> {word("retina_mode", "auto") = "true"})
     /\ <<c.dpi>> = IF dpi = <<AutoDpi>> THEN <<IF c.retina THEN 192 ELSE 96>> ELSE dpi

BlocksAreAsWritten(written) ==
  \A name \in NamesBelow(written, <<"process">>) :
    LET here == RuleNamed(name)
        env == NamesBelow(written, <<"process", name, "env">>)
    IN /\ (here # {}) <=> BlockIsOn(written, name)
       /\ \A rule \in here :
            /\ \A key \in Keys \ {"env"} : Holding(rule, key) = BlockSays(written, name, key)
            /\ (rule.override # <<>>) <=> IsGiven(written, <<"process", name, "arguments_override">>)
            /\ {<<rule.env[i].name, rule.env[i].value>> : i \in DOMAIN rule.env} =
                 {<<n, Given(written, <<"process", name, "env", n>>)[1]>> : n \in env}

(* Two files that are each accepted do not combine only when a block gets  *)
(* its exe from one and a setting its exe refuses from the other.          *)
ClashIsOfAnExe ==
  LET leaves(file) == Written(<<file.text>>)
      wide(w, b) == \E e \in {Given(w, <<"process", b, "exe">>)} :
                      e # <<>> /\ (e[1] = AnyExe \/ IsSteamApp(e[1]))
      narrow(w, b) == \E key \in {"arguments_override", "debug_channels"} :
                        IsGiven(w, <<"process", b, key>>)
  IN \E pair \in {<<leaves(base), leaves(own)>>, <<leaves(own), leaves(base)>>} :
       \E b \in NamesBelow(pair[1], <<"process">>) : wide(pair[1], b) /\ narrow(pair[2], b)

(* A launch runs with what the last layer that says something of a setting *)
(* says, in whatever case and form its lines are written, after the        *)
(* renaming, taking out and merging of two documents (files.rs:186-264,    *)
(* mod.rs:61-83): the command line, the game file, the defaults.  A value  *)
(* the launcher ignores hides no other.  And two accepted files fail       *)
(* together in one way alone (files.rs:135).                               *)
LastLayerDecides ==
  /\ pc = "running" =>
       \E written \in {Written(Used)} : TopIsAsWritten(written) /\ BlocksAreAsWritten(written)
  /\ pc = "clash" => ClashIsOfAnExe

(* What was typed into the window is what runs, whether once, through the  *)
(* quotes of a command line that is split again (new_game.rs:155-176,      *)
(* cli.rs:145), or saved, through a game file read back (new_game.rs:142): *)
(* its executable, each argument as one word, each variable.  Run once it  *)
(* has the defaults' arguments only when it has none of its own.  And only *)
(* the file of the defaults can keep it from running.                      *)
TypedIsRun ==
  /\ pc \in {"refused", "clash", "pick"} /\ spec # <<>> => base # <<>> /\ base.fault # Ok
  /\ pc = "running" /\ spec # <<>> =>
    \E typed \in {spec[1]}, before \in {Given(Written(defaults), <<"arguments">>)} :
      /\ config[1].executable = typed.executable
      /\ config[1].arguments =
           IF over.executable = <<>> THEN before \o typed.arguments
           ELSE IF typed.arguments = <<>> THEN before ELSE typed.arguments
      /\ \A n \in DOMAIN typed.env : config[1].env[n] = typed.env[n]

(* The block the log names for a value (main.rs:265-320, rules.rs:182) is  *)
(* the one that says it, and the line it gives a block is the one          *)
(* compatdb.so reads that block's rule from; a pair it warns about are two *)
(* blocks for the same exe.                                                *)
LogNamesTheBlock ==
  pc = "running" =>
    \E launch \in {config[1].launch}, written \in {Written(Used)},
       read \in {ParseText("variable", Display(config[1].launch.table)).table} :
      LET says(name, key) == IF name = TopLevel THEN TopSays(written, key)
                             ELSE BlockSays(written, name, key)
      IN /\ Len(read) = Len(launch.names)
         /\ \A i \in DOMAIN read :
              /\ read[i].source.line = i
              /\ \A key \in Scalars : Holding(read[i].rule, key) = says(launch.names[i], key)
              /\ Describe(launch, Origin(read[i])) = TopLevel
                   <=> ~IsGiven(written, <<"process", launch.names[i], "exe">>)
         /\ \A key \in Scalars : \E line \in {Summary(launch, BuiltInRules, key)} :
              /\ line.from \in ToSet(launch.names) => says(line.from, key) = << <<line.value>> >>
              /\ line.from \notin ToSet(launch.names) => TopSays(written, key) = <<>>
              /\ \A i \in DOMAIN line.rules :
                   says(line.rules[i].name, key) = << <<line.rules[i].value>> >>
         /\ \A pair \in DuplicateBlocks(launch) :
              says(pair[1], "exe") = says(pair[2], "exe")

Lines(text) == Filtered(text, LAMBDA line : line # Blank)

(* old, with lines put in at one place. *)
Grown(old, new) ==
  \E i \in 0 .. Len(old) : SubSeq(new, 1, i) = SubSeq(old, 1, i)
                          /\ SubSeq(new, Len(new) - (Len(old) - i) + 1, Len(new)) = SubSeq(old, i + 1, Len(old))

Kept(old, new, source) ==
  old # <<>> =>
    IF pc' = "refused" THEN new = old
    ELSE /\ Grown(Lines(old[1]), Lines(new[1]))
         /\ Document(new[1]) = Document(old[1])
         /\ SyncTemplate(new[1], Template(source)) = new[1]

(* Reading a file leaves what it says alone (template.rs:232-293): a file  *)
(* that is refused stays as it is, any other gets the options it does not  *)
(* mention in one place, without a line lost or a value changed, and where *)
(* the next launch finds them mentioned and adds nothing.                  *)
TopUpKeepsTheFile ==
  [][/\ pc = "defaults" => Kept(defaults, defaults', "defaults")
     /\ pc = "game" => Kept(game, game', "game")]_vars

(* The executable the user picked is written back into the game file, "so  *)
(* the value ends up under the comment that explains it" (template.rs:202, *)
(* executable.rs:17): the file then says that executable, and only that.   *)
PickedExecutableIsRead ==
  pc = "overlay" /\ over.executable = <<>> =>
    /\ Document(game[1]).fault = Ok
    /\ ResolveExe(Given(Written(game), <<"executable">>)[1]) = exe
==============================================================================
