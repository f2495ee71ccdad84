---------------------------- MODULE CompatProcess ----------------------------
(***************************************************************************)
(* compatdb.so in the processes of one launch.  The launcher builds its    *)
(* table and becomes Wine; every Wine process loads the library before its *)
(* program runs, gathers the rules, folds them and changes its command     *)
(* line and its two environments, which the processes it starts inherit.   *)
(* A process gets nothing else from others, so the model follows one line  *)
(* of descent: a process, then one that it starts, and so on.  The file    *)
(* WINE_COMPATDB_FILE names may change at any time.                        *)
(*                                                                         *)
(* The two PEB copies of a 32-bit process are one here, and so are the     *)
(* values handed to hooks of ntdll: they are the resolution's own.         *)
(***************************************************************************)
EXTENDS CompatBuiltin

CONSTANTS
  Absent,      (* a variable that is not set                                   *)
  Catalog,     (* the rules the launcher's settings may make                   *)
  Texts,       (* the texts the file may have                                  *)
  Images,      (* the programs: exe, version                                   *)
  Exports,     (* the environments Wine may be started with: unix, block       *)
  MaxRules,    (* bound: rules in the launcher's table                         *)
  MaxBytes,    (* the largest file the library takes, in words                 *)
  MaxChanges,  (* bound: changes of the file                                   *)
  MaxFailures, (* bound: rewrites that fail                                    *)
  MaxDepth     (* bound: processes in the line of descent                      *)

(* Rule::set makes the parts of a rule as the wire does, but refuses        *)
(* arguments_override in a rule for every process or for a Steam app, and  *)
(* debug_channels in one for a Steam app (settings.rs).                    *)
ASSUME CatalogAssumption ==
  \A rule \in Catalog :
    /\ WellMade(rule)
    /\ rule.exe = AnyExe \/ IsSteamApp(rule.exe) => rule.override = <<>>
    /\ IsSteamApp(rule.exe) => rule.channels = <<>>

(* The variables a file has an entry for are among Names.                  *)
ASSUME TextsAssumption ==
  /\ Texts \in Seq(AnyText)
  /\ \A i \in DOMAIN Texts :
       LET read == ParseText("file", Texts[i]).table
       IN \A k \in DOMAIN read : \A j \in DOMAIN read[k].rule.env :
            read[k].rule.env[j].name \in Names

(* Every variable is there, if only as one that is not set.                *)
Blocks == {Variable[n] : n \in Names}
ASSUME ExportsAssumption ==
  \A export \in Exports : DOMAIN export.unix = Names /\ DOMAIN export.block = Blocks

(* A program is named by a text. *)
ASSUME ImagesAssumption == \A image \in Images : image.exe \in AnyText

ASSUME BoundsAssumption ==
  /\ MaxRules \in Nat /\ MaxBytes \in Nat /\ MaxChanges \in Nat
  /\ MaxFailures \in Nat /\ MaxDepth \in Nat \ {0}

VARIABLES
  table,     \* the launcher's table
  file,      \* which of Texts the file holds; 0: none is named, or no regular file
  proc,      \* the process
  depth, changes, failures

vars == <<table, file, proc, depth, changes, failures>>

NoProcess ==
  [phase |-> "none", image |-> CHOOSE image \in Images : TRUE, inline |-> <<>>,
   text |-> <<>>, cmd |-> <<>>, unix |-> [n \in Names |-> Absent],
   block |-> [v \in Blocks |-> Absent], given |-> <<>>, rules |-> <<>>, res |-> NoResolution,
   steps |-> <<>>, refused |-> {}]

Init ==
  /\ table = <<>>
  /\ file \in 0 .. Len(Texts)
  /\ proc = NoProcess
  /\ depth = 0 /\ changes = 0 /\ failures = 0

------------------------------------------------------------------------------
(* The launcher *)

Push(rule) ==
  /\ proc.phase = "none"
  /\ Len(table) < MaxRules
  /\ table' = PushRule(table, rule)
  /\ UNCHANGED <<file, proc, depth, changes, failures>>

(* wine_env.rs: the table travels in WINE_COMPATDB, which is left out for  *)
(* an empty one (and reads as <<>> either way); the config's [env] may     *)
(* name a file beside it, and one that is not there adds no rules either.  *)
StartWine(image, export) ==
  /\ proc.phase = "none"
  /\ proc' = [NoProcess EXCEPT !.phase = "started", !.image = image, !.inline = Display(table),
                                !.cmd = image.exe, !.unix = export.unix, !.block = export.block]
  /\ depth' = 1
  /\ UNCHANGED <<table, file, changes, failures>>

------------------------------------------------------------------------------
(* Other processes *)

(* A process started by another inherits both its environments, in which   *)
(* Steam sets SteamAppId: empty for a process of its own, where no app has *)
(* been named it is as good as missing.  A program that starts itself      *)
(* again hands its switches on, as Chromium does.                          *)
StartChild(image, app) ==
  /\ proc.phase = "running" /\ depth < MaxDepth
  /\ proc' = [NoProcess EXCEPT
       !.phase = "started", !.image = image, !.inline = proc.inline,
       !.cmd = IF image = proc.image THEN proc.cmd \o <<" ", "--type=">> ELSE image.exe,
       !.unix = proc.unix, !.block = [proc.block EXCEPT !["SteamAppId"] = app]]
  /\ depth' = depth + 1
  /\ UNCHANGED <<table, file, changes, failures>>

(* Somebody replaces or removes the file while the process may yet read it.*)
FileChanges(i) ==
  /\ changes < MaxChanges /\ i # file
  /\ proc.phase \in {"started", "checked"}
  /\ file' = i
  /\ changes' = changes + 1
  /\ UNCHANGED <<table, proc, depth, failures>>

------------------------------------------------------------------------------
(* compatdb.so: reading the file *)

(* rules_file::read up to the open: a file that is not regular or too long *)
(* adds no rules.                                                          *)
CheckFile ==
  /\ proc.phase = "started"
  /\ LET fits == file # 0 /\ Len(Texts[file]) <= MaxBytes
     IN proc' = [proc EXCEPT !.phase = IF fits THEN "checked" ELSE "gathered"]
  /\ UNCHANGED <<table, file, depth, changes, failures>>

(* Broken: reads up to the limit and takes that. *)
ReadCut(text) == IF Len(text) > MaxBytes THEN <<SubSeq(text, 1, MaxBytes)>> ELSE <<text>>

(* Broken: trusts the size that was checked before the open. *)
ReadAll(text) == <<text>>

ReadCapped(text) == IF Len(text) > MaxBytes THEN <<>> ELSE <<text>>

(* The open and the read: the file may have gone or grown since the check. *)
(* The reads of one open file are one step here.                           *)
ReadFile ==
  /\ proc.phase = "checked"
  /\ proc' = [proc EXCEPT !.phase = "gathered",
                          !.text = IF file = 0 THEN <<>> ELSE ReadCapped(Texts[file])]
  /\ UNCHANGED <<table, file, depth, changes, failures>>

------------------------------------------------------------------------------
(* compatdb.so: changing the process *)

(* The process's own app id is in its block: digits, and not 0. *)
App(block) == IF \E a \in Apps : block["SteamAppId"] = <<a>> THEN block["SteamAppId"] ELSE <<>>

Image(image, block) == [exe |-> image.exe, version |-> image.version, app |-> App(block)]

ContainsText(cmd, text) ==
  \E i \in 0 .. Len(cmd) - Len(text) : SubSeq(cmd, i + 1, i + Len(text)) = text

(* Broken: appends an argument whether or not it is there. *)
AppendAlways(cmd, texts) == FoldLeft(LAMBDA c, text : c \o <<" ">> \o text, cmd, texts)

AppendArgument(cmd, text) == IF ContainsText(cmd, text) THEN cmd ELSE cmd \o <<" ">> \o text

Arguments == INSTANCE Loop WITH Step <- AppendArgument

(* append_cmdline_each: each text that the line does not contain yet. *)
AppendArguments(cmd, texts) == Arguments!Fold(cmd, texts)

Value(entry) == IF entry.value = <<>> THEN Absent ELSE entry.value

(* merge_env for the block; setenv and unsetenv for the unix environment. *)
MergeEntry(block, entry) == [block EXCEPT ![Variable[entry.name]] = Value(entry)]
SetEnv(unix, entry) == [unix EXCEPT ![entry.name] = Value(entry)]

InBlock == INSTANCE Loop WITH Step <- MergeEntry
InUnix == INSTANCE Loop WITH Step <- SetEnv

MergeEnv(block, entries) == InBlock!Fold(block, entries)
UnixEnv(unix, entries) == InUnix!Fold(unix, entries)

(* Broken: looks in the block alone. *)
HasInBlock(unix, block) == {n \in Names : block[Variable[n]] # Absent}

Has(unix, block) == {n \in Names : block[Variable[n]] # Absent \/ unix[n] # Absent}

CallersRules(inline, text) ==
  ParseText("variable", inline).table
    \o (IF text = <<>> THEN <<>> ELSE ParseText("file", text[1]).table)

AppliedEntries(steps) ==
  Selected([i \in DOMAIN steps |-> steps[i].step], {i \in DOMAIN steps : steps[i].step.applied})

(* The process with its command line and its environments rewritten, but   *)
(* for those whose rewrite was refused.                                    *)
Rewritten(rules, res, cmd, steps, entries, block, refused) ==
  [proc EXCEPT
     !.phase = "running",
     !.given = <<[cmd |-> proc.cmd, unix |-> proc.unix, block |-> proc.block]>>,
     !.rules = rules, !.res = res, !.steps = steps, !.refused = refused,
     !.cmd = IF "cmd" \in refused THEN @ ELSE cmd,
     !.block = IF "block" \in refused THEN @ ELSE block,
     !.unix = UnixEnv(@, entries)]

(* run: the rules folded for this process, then its command line and its   *)
(* block, each rewritten unless its rewrite is refused (no memory, too     *)
(* long), and its unix environment, in any case.  A name bound by \E to the *)
(* one member of a set is a value that TLC computes once.                  *)
Apply ==
  /\ proc.phase = "gathered"
  /\ \E rules \in {CallersRules(proc.inline, proc.text)} :
     \E res \in {FoldDerivedEnv(Resolve(BuiltInTable \o rules, Image(proc.image, proc.block)))} :
     \E cmd \in {AppendArguments(proc.cmd, [i \in DOMAIN res.arguments |-> res.arguments[i].text])} :
     \E steps \in {EnvSteps(res.env, Has(proc.unix, proc.block))} :
     \E entries \in {AppliedEntries(steps)} :
     \E block \in {MergeEnv(proc.block, entries)} :
     \E refused \in SUBSET {"cmd", "block"} :
       /\ failures + Cardinality(refused) <= MaxFailures
       /\ "cmd" \in refused => cmd # proc.cmd
       /\ "block" \in refused => block # proc.block
       /\ proc' = Rewritten(rules, res, cmd, steps, entries, block, refused)
       /\ failures' = failures + Cardinality(refused)
  /\ UNCHANGED <<table, file, depth, changes>>

Next ==
  \/ \E rule \in Catalog : Push(rule)
  \/ \E image \in Images, export \in Exports : StartWine(image, export)
  \/ \E image \in Images, app \in {<<>>} \cup {<<a>> : a \in Apps} : StartChild(image, app)
  \/ \E i \in 0 .. Len(Texts) : FileChanges(i)
  \/ CheckFile
  \/ ReadFile
  \/ Apply

Spec == Init /\ [][Next]_vars

------------------------------------------------------------------------------
(* Properties *)

Running == proc.phase = "running"
Given == proc.given[1]

(* The entries of the process's whole table, the built-in ones first.      *)
EntryAt(i) == IF i <= Len(BuiltInTable) THEN BuiltInTable[i]
              ELSE proc.rules[i - Len(BuiltInTable)]
RuleAt(i) == EntryAt(i).rule
Hits == LET image == Image(proc.image, Given.block)
        IN {i \in 1 .. Len(BuiltInTable) + Len(proc.rules) : Matches(RuleAt(i), image)}

(* The documented order (resolve.rs:540-575): a rule that names an exe over *)
(* one that does not, then the caller's over a built-in one, then one with *)
(* a fingerprint over one without, then the later one.                     *)
Beats(i, j) ==
  LET names(k) == RuleAt(k).exe # AnyExe
      own(k) == EntryAt(k).source.text # "built-in"
      pinned(k) == Pinned(RuleAt(k))
  IN \/ names(i) /\ ~names(j)
     \/ /\ names(i) = names(j)
        /\ \/ own(i) /\ ~own(j)
           \/ /\ own(i) = own(j)
              /\ (pinned(i) /\ ~pinned(j)) \/ (pinned(i) = pinned(j) /\ i > j)

(* Variables have their types; the text of a file is never over the limit, *)
(* even when the file grew after its size was checked.                     *)
TypeOK ==
  /\ Len(table) <= MaxRules
  /\ file \in 0 .. Len(Texts)
  /\ changes \in 0 .. MaxChanges /\ failures \in 0 .. MaxFailures
  /\ depth \in 0 .. MaxDepth
  /\ proc.phase \in {"none", "started", "checked", "gathered", "running"}
  /\ DOMAIN proc.unix = Names /\ DOMAIN proc.block = Blocks
  /\ proc.text # <<>> => Len(proc.text[1]) <= MaxBytes
  /\ proc.res.hudAt \in 0 .. Len(proc.res.env)

(* What the launcher writes into WINE_COMPATDB reads back as the same      *)
(* table, with the same lines and without a complaint (wire.rs, Display).  *)
TextReadsBack ==
  proc.phase = "none" =>
    ParseText("variable", Display(table)) = [table |-> table, bad |-> 0]

(* Table::preview shows what a program then gets: with no file and no      *)
(* Steam app, the process resolves to the launcher's preview, origins      *)
(* included.                                                               *)
PreviewIsWhatRuns ==
  Running /\ proc.text = <<>> /\ App(Given.block) = <<>> =>
    proc.res = Preview(Defaults \o Programs, table, Image(proc.image, Given.block))

(* A setting is what the rule says that beats every other one that matches *)
(* and says something of it; the log names that rule.                      *)
NarrowestRuleWins ==
  Running => LET hits == Hits IN \A s \in Scalars :
    LET says == {i \in hits : RuleAt(i).scalars[s] # Unset}
    IN \/ says = {} /\ proc.res.scalars[s].value = Unset
       \/ \E i \in says :
            /\ \A j \in says \ {i} : Beats(i, j)
            /\ proc.res.scalars[s] =
                 [value |-> RuleAt(i).scalars[s], by |-> Origin(EntryAt(i))]

(* A module's load order is what the last entry that names it says: none   *)
(* at all after `default`, whatever other modules its entry had.           *)
DllsAsLastSaid ==
  Running =>
    LET named == UNION {{i} \X DOMAIN RuleAt(i).dlls : i \in Hits}
        text(e) == RuleAt(e[1]).dlls[e[2]]
        after(e, f) == Beats(e[1], f[1]) \/ (e[1] = f[1] /\ e[2] > f[2])
        dlls == proc.res.dlls
    IN \A m \in UNION {ToSet(Modules(text(e))) : e \in named} :
         LET of == {e \in named : Contains(Modules(text(e)), m)}
             last == CHOOSE e \in of : \A f \in of \ {e} : after(e, f)
             i == SelectLastInSeq(dlls, LAMBDA d : Contains(d.modules, m))
         IN IF Order(text(last)) = <<Default>> THEN i = 0
            ELSE i # 0 /\ dlls[i].order = Order(text(last))

(* Every argument is on the command line, and none is there a second time  *)
(* on its own, not even in a process that was handed its parent's: as long *)
(* as each is one word, for one with a blank in it is two on the line.     *)
ArgumentsOnce ==
  Running /\ "cmd" \notin proc.refused =>
    LET arguments == proc.res.arguments
        single == \A i \in DOMAIN arguments : ~Contains(arguments[i].text, " ")
        count(cmd, text) == LET words == Split(cmd, " ")
                            IN Cardinality({k \in DOMAIN words : words[k] = text})
    IN \A i \in DOMAIN arguments :
         LET text == arguments[i].text
             given == count(Given.cmd, text)
         IN /\ ContainsText(proc.cmd, text)
            /\ single => count(proc.cmd, text) <= (IF given = 0 THEN 1 ELSE given)

(* No rule for a Steam app takes an argument away: what a rule adds is     *)
(* there unless a rule for one program that beats it has an override.      *)
AppsKeepArguments ==
  Running =>
    LET texts == {a.text : a \in ToSet(proc.res.arguments)}
        replaces(j) == RuleAt(j).override # <<>> /\ ~IsSteamApp(RuleAt(j).exe)
        hits == Hits
        replacing == {j \in hits : replaces(j)}
    IN \A i \in hits :
         (\A j \in replacing : ~Beats(j, i))
           => ToSet(RuleAt(i).arguments) \subseteq texts

(* The log is right about the environment: an entry it calls applied and   *)
(* not replaced is what the block and the unix environment hold; a         *)
(* variable none of its entries applies to is as it was.                   *)
EnvAsLogged ==
  Running =>
    LET steps == proc.steps
        applied == {i \in DOMAIN steps : steps[i].step.applied}
    IN /\ \A i \in applied :
            LET s == steps[i].step IN
            steps[i].replacedBy = NoOrigin =>
              /\ proc.unix[s.name] = Value(s)
              /\ "block" \notin proc.refused => proc.block[Variable[s.name]] = Value(s)
       /\ \A v \in Blocks \ {Variable[steps[i].step.name] : i \in applied} :
            /\ proc.block[v] = Given.block[v]
            /\ \A n \in Names : Variable[n] = v => proc.unix[n] = Given.unix[n]

(* A variable the caller exported, to the block or to the unix environment *)
(* alone, stays as it is where only defaults name it (lib.rs, has).        *)
CallerExportWins ==
  Running =>
    LET env == proc.res.env
        default(n) == /\ \E i \in DOMAIN env : env[i].name = n
                      /\ \A i \in DOMAIN env : Variable[env[i].name] = Variable[n] => env[i].default
        exported(n) == Given.unix[n] # Absent \/ Given.block[Variable[n]] # Absent
    IN \A n \in Names : default(n) /\ exported(n) =>
         /\ proc.unix[n] = Given.unix[n]
         /\ proc.block[Variable[n]] = Given.block[Variable[n]]

(* A renderer that is set is the only one WINE_D3D_CONFIG asks for, first, *)
(* whatever the rules' own entries and the parent process ask for.         *)
RendererDecides ==
  Running /\ Said(proc.res, "wined3d") /\ "block" \notin proc.refused =>
    LET option == Option(proc.res.scalars["wined3d"].value)
        asks(config) == config[1] = option /\ ToSet(Tail(config)) \cap RendererOptions = {}
    IN asks(proc.block["WINE_D3D_CONFIG"]) /\ asks(proc.unix["WINE_D3D_CONFIG"])

(* The HUD's variables are the setting's, but for those that its rule, or  *)
(* one that beats it, has an env entry of its own for.                     *)
HudYields ==
  Running /\ Said(proc.res, "metal_hud") /\ "block" \notin proc.refused =>
    LET on == proc.res.scalars["metal_hud"].value = "true"
        hits == Hits
        says == {i \in hits : RuleAt(i).scalars["metal_hud"] # Unset}
        by == CHOOSE i \in says : \A j \in says \ {i} : Beats(i, j)
        own(v) == UNION {{i} \X {k \in DOMAIN RuleAt(i).env : Variable[RuleAt(i).env[k].name] = v} :
                           i \in {j \in hits : j = by \/ Beats(j, by)}}
        after(e, f) == Beats(e[1], f[1]) \/ (e[1] = f[1] /\ e[2] > f[2])
    IN \A k \in DOMAIN MetalHudEnv(on) :
         LET hud == MetalHudEnv(on)[k]
             entries == own(hud.name)
             last == CHOOSE e \in entries : \A f \in entries \ {e} : after(e, f)
         IN proc.block[hud.name] =
              IF entries = {} THEN Value(hud) ELSE Value(RuleAt(last[1]).env[last[2]])

(* The rules a process takes from the file are those of a whole text the   *)
(* file had, never of a part of one, whatever happens to it meanwhile.     *)
FileIsWhole == proc.text # <<>> => Contains(Texts, proc.text[1])

(* The line the log names for a rule holds that rule, in the variable or   *)
(* in the file, whatever lines were skipped before it.                     *)
LinesPointHome ==
  Running => \A i \in DOMAIN proc.rules :
    LET e == proc.rules[i]
        text == IF e.source.text = "file" THEN proc.text[1] ELSE proc.inline
        lines == Split(text, "newline")
    IN /\ e.source.line \in DOMAIN lines
       /\ ReadRecord(lines[e.source.line]).rule = <<e.rule>>
==============================================================================
