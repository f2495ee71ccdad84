---------------------------- MODULE CompatRules ----------------------------
(***************************************************************************)
(* compatdb-core: the rules of a table, which of them match a process, and *)
(* what they fold into.  The launcher (to preview a program) and           *)
(* compatdb.so (in every Wine process) run the same code.                  *)
(*                                                                         *)
(* A text is a sequence of words, <<>> the empty one: a character where    *)
(* the format gives it a meaning, a whole name or word elsewhere.  Names   *)
(* that differ in case alone are not told apart, but for the spellings of  *)
(* an environment variable, which the unix environment does tell apart.    *)
(***************************************************************************)
EXTENDS Naturals, Sequences, SequencesExt, Selected

CONSTANTS
  Word,      (* the words a text may have                                      *)
  Words,     (* the words each scalar setting takes                            *)
  PinKeys,   (* the strings of a version resource                              *)
  Apps,      (* the Steam app ids, as their digits                             *)
  Variable   (* the variable of the Windows block that each spelling names     *)

Scalars == DOMAIN Words
Names == DOMAIN Variable
AnyText == Seq(Word)
Unset == "unset"        \* the rule says nothing of the setting
Default == "default"    \* it hands the setting back to upstream Wine
Optional(S) == {o \in Seq(S) : Len(o) <= 1}

(* The keys are those of key.rs, and the variables that the code itself    *)
(* names are spelled as the block has them.                                *)
OwnVariables == {"WINE_D3D_CONFIG", "MTL_HUD_ENABLED", "MTL_HUD_ALIGNMENT", "MTL_HUD_ELEMENTS"}
ASSUME RulesAssumption ==
  /\ {"dxgi", "wined3d", "metal_hud"} \subseteq Scalars
  /\ Scalars \subseteq {"dxgi", "d3d9", "wined3d", "opengl", "dpi_aware", "large_address_aware",
                        "gcmouse", "force_nx", "metal_hud"}
  /\ PinKeys \subseteq {"company", "product", "original_filename"}
  /\ Names \cup {Unset, Default} \subseteq Word
  /\ \A n \in OwnVariables : n \in Names /\ Variable[n] = n

Rule ==
  [exe : AnyText, pins : [PinKeys -> Optional(AnyText)], scalars : [Scalars -> Word],
   dlls : Seq(AnyText), override : Optional(Seq(AnyText)), arguments : Seq(AnyText),
   channels : Seq(AnyText), env : Seq([name : Names, value : AnyText])]

AnyExe == <<"*">>
SteamApp(digits) == <<"steam:", digits>>
IsSteamApp(exe) == exe # <<>> /\ exe[1] = "steam:"

(* A rule that sets nothing, for one exe.  An option is a sequence of at   *)
(* most one element; a variable without a value is removed.                *)
NewRule(exe) ==
  [exe |-> exe,
   pins |-> [k \in PinKeys |-> <<>>],
   scalars |-> [s \in Scalars |-> Unset],
   dlls |-> <<>>, override |-> <<>>, arguments |-> <<>>, channels |-> <<>>, env |-> <<>>]

------------------------------------------------------------------------------
(* Matching *)

Pinned(rule) == \E k \in PinKeys : rule.pins[k] # <<>>

(* A version string is the set of the fingerprints it contains, and all    *)
(* contain the empty one.                                                  *)
Matches(rule, image) ==
  /\ \/ rule.exe = AnyExe
     \/ rule.exe = image.exe /\ ~IsSteamApp(rule.exe)
     \/ image.app # <<>> /\ rule.exe = SteamApp(image.app[1])
  /\ \A k \in PinKeys : rule.pins[k] # <<>> =>
       rule.pins[k][1] \in image.version[k] \cup {<<>>}

(* Broken: where a rule comes from decides before what it names. *)
PlaceBySource(entry) ==
    (IF entry.source.text = "built-in" THEN 0 ELSE 4)
  + (IF entry.rule.exe = AnyExe THEN 0 ELSE 2)
  + (IF Pinned(entry.rule) THEN 1 ELSE 0)

(* The key of the stable sort in Table::resolve. *)
Place(entry) ==
    (IF entry.rule.exe = AnyExe THEN 0 ELSE 4)
  + (IF entry.source.text = "built-in" THEN 0 ELSE 2)
  + (IF Pinned(entry.rule) THEN 1 ELSE 0)

Matching(table, image) ==
  LET found == {i \in DOMAIN table : Matches(table[i].rule, image)}
  IN Flat([p \in 1 .. 8 |-> Selected(table, {i \in found : Place(table[i]) = p - 1})])

------------------------------------------------------------------------------
(* Folding *)

NoOrigin == [text |-> "none", line |-> 0, matchers |-> <<>>]

(* Origin::of: a built-in rule is known by its matchers, any other by its  *)
(* line.                                                                   *)
Origin(entry) ==
  [text |-> entry.source.text, line |-> entry.source.line,
   matchers |-> IF entry.source.text # "built-in" \/ (entry.rule.exe = AnyExe /\ ~Pinned(entry.rule))
                THEN <<>> ELSE <<entry.rule.exe, entry.rule.pins>>]

EnvIsDefault(origin) == origin.text = "built-in" /\ origin.matchers = <<>>

NoResolution ==
  [scalars |-> [s \in Scalars |-> [value |-> Unset, by |-> NoOrigin]],
   dlls |-> <<>>, arguments |-> <<>>, ignored |-> <<>>, channels |-> <<>>, env |-> <<>>,
   hudAt |-> 0]

FoldScalars(scalars, entry) ==
  [s \in Scalars |->
     IF entry.rule.scalars[s] = Unset THEN scalars[s]
     ELSE [value |-> entry.rule.scalars[s], by |-> Origin(entry)]]

Modules(text) ==
  LET equals == SelectInSeq(text, LAMBDA w : w = "=")
  IN Selected(text, {i \in 1 .. equals - 1 : text[i] # ","})
Order(text) == SubSeq(text, SelectInSeq(text, LAMBDA w : w = "=") + 1, Len(text))

(* Broken: drops every entry that names one of the modules as a whole. *)
WithoutEntries(dlls, modules) ==
  SelectSeq(dlls, LAMBDA e : \A m \in ToSet(e.modules) : ~Contains(modules, m))

(* `default` takes its modules out of the entries before it, and drops an  *)
(* entry that loses its last one.  A module's name is one word, without    *)
(* the .dll and the blanks the code takes off.                             *)
WithoutModules(dlls, modules) ==
  LET rest(e) == Selected(e.modules, {k \in DOMAIN e.modules : ~Contains(modules, e.modules[k])})
      kept == Selected(dlls, {i \in DOMAIN dlls : dlls[i].modules = <<>> \/ rest(dlls[i]) # <<>>})
  IN [i \in DOMAIN kept |-> [kept[i] EXCEPT !.modules = rest(kept[i])]]

FoldDll(dlls, said) ==
  IF Order(said.text) = <<Default>> THEN WithoutModules(dlls, Modules(said.text))
  ELSE dlls \o << [modules |-> Modules(said.text), order |-> Order(said.text),
                   from |-> said.from] >>

Dlls == INSTANCE Loop WITH Step <- FoldDll

From(texts, entry) == [i \in DOMAIN texts |-> [text |-> texts[i], from |-> Origin(entry)]]

FoldDlls(dlls, entry) == Dlls!Fold(dlls, From(entry.rule.dlls, entry))

(* Broken: a rule for a Steam app replaces the arguments too. *)
FoldArgumentsOfApps(arguments, entry) ==
  LET rule == entry.rule
      before == IF rule.override = <<>> THEN arguments ELSE From(rule.override[1], entry)
  IN before \o From(rule.arguments, entry)

(* An override replaces the arguments so far, but not one of a rule for a  *)
(* Steam app, which more than one program can hold.                        *)
FoldArguments(arguments, entry) ==
  LET rule == entry.rule
      before == IF rule.override = <<>> \/ IsSteamApp(rule.exe) THEN arguments
                ELSE From(rule.override[1], entry)
  IN before \o From(rule.arguments, entry)

FoldEnv(env, entry) ==
  env \o [i \in DOMAIN entry.rule.env |->
            [name |-> entry.rule.env[i].name, value |-> entry.rule.env[i].value,
             from |-> Origin(entry), default |-> EnvIsDefault(Origin(entry))]]

FoldRule(r, entry) ==
  [scalars |-> FoldScalars(r.scalars, entry),
   dlls |-> FoldDlls(r.dlls, entry),
   arguments |-> FoldArguments(r.arguments, entry),
   ignored |-> IF entry.rule.override # <<>> /\ IsSteamApp(entry.rule.exe)
               THEN Append(r.ignored, Origin(entry)) ELSE r.ignored,
   channels |-> r.channels \o From(entry.rule.channels, entry),   \* which the library only logs
   hudAt |-> CASE entry.rule.scalars["metal_hud"] = Unset -> r.hudAt
               [] entry.rule.scalars["metal_hud"] = Default -> 0
               [] OTHER -> Len(r.env),
   env |-> FoldEnv(r.env, entry)]

Rules == INSTANCE Loop WITH Step <- FoldRule

Resolve(table, image) == Rules!Fold(NoResolution, Matching(table, image))

------------------------------------------------------------------------------
(* The settings that reach a process as environment entries *)

Said(r, s) == r.scalars[s].value \notin {Unset, Default}

Option(w) == "renderer=" \o w
(* Any option whose key is renderer, wine's other renderers included, or   *)
(* one without a value.                                                    *)
RendererOptions == {Option(w) : w \in Words["wined3d"] \cup {"gdi", "no3d"}} \cup {"renderer"}

LastFor(env, name) == SelectLastInSeq(env, LAMBDA e : Variable[e.name] = Variable[name])

(* Broken: adds the renderer to the options the rules' own entries give. *)
Wined3dConfigAfter(r) ==
  LET i == LastFor(r.env, "WINE_D3D_CONFIG")
  IN (IF i = 0 THEN <<>> ELSE r.env[i].value) \o <<Option(r.scalars["wined3d"].value)>>

(* The renderer first, and of the rules' own options all but a renderer. *)
Wined3dConfig(r) ==
  LET i == LastFor(r.env, "WINE_D3D_CONFIG")
      own == IF i = 0 THEN <<>> ELSE r.env[i].value
  IN <<Option(r.scalars["wined3d"].value)>>
       \o Selected(own, {k \in DOMAIN own : own[k] \notin RendererOptions})

MetalHudEnv(on) ==
  << [name |-> "MTL_HUD_ENABLED", value |-> IF on THEN <<"1">> ELSE <<>>],
     [name |-> "MTL_HUD_ALIGNMENT", value |-> IF on THEN <<"28">> ELSE <<>>],
     [name |-> "MTL_HUD_ELEMENTS", value |-> IF on THEN <<"device,...,client">> ELSE <<>>] >>

Derived(entries, by) ==
  [i \in DOMAIN entries |->
     [name |-> entries[i].name, value |-> entries[i].value, from |-> by, default |-> FALSE]]

DerivedConfig(r) ==
  IF ~Said(r, "wined3d") THEN <<>>
  ELSE Derived(<<[name |-> "WINE_D3D_CONFIG", value |-> Wined3dConfig(r)]>>,
               r.scalars["wined3d"].by)

DerivedHud(r) ==
  IF ~Said(r, "metal_hud") THEN <<>>
  ELSE Derived(MetalHudEnv(r.scalars["metal_hud"].value = "true"), r.scalars["metal_hud"].by)

(* Broken: the HUD goes last, like the renderer. *)
FoldDerivedEnvLast(r) == [r EXCEPT !.env = r.env \o DerivedConfig(r) \o DerivedHud(r)]

(* fold_derived_env: the renderer goes last, so it wins; the HUD goes      *)
(* before the env of the rule that set it, so that one can change it.      *)
FoldDerivedEnv(r) ==
  LET all == r.env \o DerivedConfig(r)
  IN [r EXCEPT !.env = SubSeq(all, 1, r.hudAt) \o DerivedHud(r)
                         \o SubSeq(all, r.hudAt + 1, Len(all))]

------------------------------------------------------------------------------
(* What each entry does in a process: env_steps *)

(* Broken: tells the spellings of a variable apart. *)
SameSpelling(a, b) == a.applied /\ a.name = b.name

SameVariable(a, b) == a.applied /\ Variable[a.name] = Variable[b.name]

EnvSteps(env, has) ==
  LET step(e) == [name |-> e.name, value |-> e.value, from |-> e.from,
                  applied |-> ~(e.default /\ e.name \in has)]
      steps == [i \in DOMAIN env |-> step(env[i])]
      later(i) == SelectLastInSubSeq(steps, i + 1, Len(steps), LAMBDA s : SameVariable(s, steps[i]))
      earlier(i) == SelectLastInSubSeq(steps, 1, i - 1, LAMBDA s : SameVariable(s, steps[i]))
  IN [i \in DOMAIN env |->
        [step |-> steps[i],
         replacedBy |-> IF later(i) = 0 THEN NoOrigin ELSE steps[later(i)].from,
         removes |-> IF earlier(i) # 0 /\ steps[i].value = <<>> /\ steps[earlier(i)].value # <<>>
                     THEN steps[earlier(i)].from ELSE NoOrigin]]
==============================================================================
