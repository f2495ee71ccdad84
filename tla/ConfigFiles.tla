----------------------------- MODULE ConfigFiles -----------------------------
(***************************************************************************)
(* gamelauncher.toml and the game file laid over it (config/files.rs), and *)
(* the settings a document holds (config/mod.rs).                          *)
(***************************************************************************)
EXTENDS FileTemplate

CONSTANT Digits      (* the number each word that is one stands for            *)

------------------------------------------------------------------------------
(* The settings of a launch.  An option is a sequence of at most one.      *)

NoSettings ==
  [executable |-> <<>>, arguments |-> <<>>, game |-> <<>>, retina_mode |-> <<>>, dpi |-> <<>>,
   rule |-> <<>>, env |-> <<>>]

(* A map over another, and a map with one more entry. *)
Atop(map, under) ==
  [n \in DOMAIN map \cup DOMAIN under |-> IF n \in DOMAIN map THEN map[n] ELSE under[n]]
Put(map, name, value) == [n \in DOMAIN map \cup {name} |-> IF n = name THEN value ELSE map[n]]

Either(option, other) == IF option # <<>> THEN option ELSE other

(* A later layer replaces, a list included; env goes name by name. *)
Overlay(under, over) ==
  [[field \in DOMAIN over |-> Either(over[field], under[field])]
     EXCEPT !.rule = Atop(over.rule, under.rule), !.env = Atop(over.env, under.env)]

------------------------------------------------------------------------------
(* retina_mode and dpi *)

AutoDpi == 0
Unscaled == 96

RetinaOf(word) == IF word \in {"auto", "true", "false"} THEN <<word>> ELSE <<>>

DpiOf(word) ==
  CASE word = "auto" -> <<AutoDpi>>
    [] word = "off" -> <<Unscaled>>
    [] word \in DOMAIN Digits ->
         CASE Digits[word] = 0 -> <<Unscaled>>
           [] Digits[word] \in 48 .. 480 -> <<Digits[word]>>
           [] OTHER -> <<>>
    [] OTHER -> <<>>

ResolveRetina(mode, hidpi) == IF mode = "auto" THEN hidpi ELSE mode = "true"
ResolveDpi(dpi, retina) == IF dpi # AutoDpi THEN dpi ELSE IF retina THEN 2 * Unscaled ELSE Unscaled

(* The word of a value TOML may hold as one, or as what it spells. *)
ParseWord(item) ==
  CASE Is("boolean", item) -> item.boolean
    [] Is("integer", item) -> item.integer
    [] Is("string", item) /\ Len(item.string) = 1 -> Lower(item.string[1])
    [] OTHER -> ""

------------------------------------------------------------------------------
(* Raw::from_document *)

(* Of two pairs with one name the later counts. *)
AsMap(pairs) ==
  [n \in {pairs[i].name[1] : i \in DOMAIN pairs} |->
     pairs[Max({i \in DOMAIN pairs : pairs[i].name[1] = n})].value]

RuleFieldFault(name, read) ==
  CASE ~IsKey(name) -> KeyFault(name)
    [] ~Contains(TopKeys, Lower(name)) -> "UnknownKey"
    [] read.fault # Ok -> "WrongType"
    [] OTHER -> CheckLaunchWide(Lower(name), read.values)

OptionFault(option) == IF option = <<>> THEN "BadValue" ELSE Ok

TopFault(field, source, blocks) ==
  LET item == field.item
  IN CASE field.name = "executable" /\ source = "game" -> ReadString(item).fault
       [] field.name = "arguments" -> ReadStrings(item).fault
       [] field.name = "retina_mode" -> OptionFault(RetinaOf(ParseWord(item)))
       [] field.name = "dpi" -> OptionFault(DpiOf(ParseWord(item)))
       [] field.name = "env" ->
            IF \E i \in DOMAIN ReadEnv(item).values : EnvNameFault(ReadEnv(item).values[i].name) # Ok
            THEN "RetiredEnv" ELSE ReadEnv(item).fault
       [] field.name = "process" -> IF blocks.faults = {} THEN Ok ELSE "BadRule"
       [] OTHER -> RuleFieldFault(field.name, ReadSetting(Lower(field.name), item))

(* A field without a fault, put into the settings. *)
PutTop(settings, field) ==
  LET item == field.item
  IN CASE field.name = "executable" -> [settings EXCEPT !.executable = ReadString(item).values]
       [] field.name = "arguments" -> [settings EXCEPT !.arguments = <<ReadStrings(item).values>>]
       [] field.name = "retina_mode" -> [settings EXCEPT !.retina_mode = RetinaOf(ParseWord(item))]
       [] field.name = "dpi" -> [settings EXCEPT !.dpi = DpiOf(ParseWord(item))]
       [] field.name = "env" -> [settings EXCEPT !.env = AsMap(ReadEnv(item).values)]
       [] field.name = "process" -> settings
       [] OTHER -> [settings EXCEPT !.rule =
                      Put(@, Lower(field.name), ReadSetting(Lower(field.name), item).values)]

IsOwn(name) == Contains(Leading \o Trailing, name)

RawOf(fields, fault, blocks) ==
  LET good == SelectSeq([i \in DOMAIN fields |-> i], LAMBDA i : fault[i] = Ok)
  IN [settings |-> FoldLeft(LAMBDA acc, i : PutTop(acc, fields[i]), NoSettings, good),
      rules |-> blocks.rules,
      ignored |-> {<<fields[i].name>> : i \in {k \in DOMAIN fields : fault[k] = Ignored}}
                    \cup blocks.ignored,
      fault |-> IF \/ Twice(SelectSeq(fields, LAMBDA f : ~IsOwn(f.name) /\ IsKey(f.name)))
                   \/ \E i \in DOMAIN fields : fault[i] \notin {Ok, Ignored}
                THEN "Invalid" ELSE Ok]

TopFaults(fields, source, blocks) ==
  RawOf(fields, [i \in DOMAIN fields |-> TopFault(fields[i], source, blocks)], blocks)

FromDocument(table, source) ==
  LET fields == FieldsOf(table)
      process == SelectSeq(fields, LAMBDA f : f.name = "process")
  IN TopFaults(fields, source,
               ParseProcess(IF process = <<>> THEN [table |-> <<>>] ELSE process[1].item))

------------------------------------------------------------------------------
(* Making a file ready to be merged *)

(* Broken: leaves in what the launcher ignores. *)
WithIgnored(table, fields) == table

Without(table, fields) == SelectSeq(table, LAMBDA e : ~\E f \in fields : IsPrefix(f, e.path))

IsField(path) == Len(path) = 1 \/ (Len(path) = 3 /\ path[1] = "process")

(* Every key of the rules as the crate spells it, but at the top level     *)
(* only those of the launcher's own rule, and every list as an array.      *)
Normalized(table) ==
  LET path(p) == CASE p[1] = "process" /\ Len(p) > 2 /\ IsKey(p[3]) -> [p EXCEPT ![3] = Lower(@)]
                   [] IsKey(p[1]) /\ Contains(TopKeys, Lower(p[1])) -> [p EXCEPT ![1] = Lower(@)]
                   [] OTHER -> p
      isList(p) == IsField(p) /\ Lower(Last(p)) \in Lists
  IN [i \in DOMAIN table |->
        Leaf(path(table[i].path),
             IF isList(table[i].path) /\ Is("string", table[i].item)
             THEN [array |-> <<table[i].item>>] ELSE table[i].item)]

------------------------------------------------------------------------------
(* Laying the game's document over that of the defaults *)

(* The lists of a rule that the game's value replaces. *)
TakeReplacedLists(base, over) ==
  SelectSeq(base, LAMBDA e :
    ~ /\ Len(e.path) = 3 /\ e.path[1] = "process"
      /\ e.path[3] \in Lists /\ ReplacesOnMerge(e.path[3])
      /\ \E i \in DOMAIN over : over[i].path = e.path)

MergeLeaf(base, leaf) ==
  LET i == SelectInSeq(base, LAMBDA e : e.path = leaf.path)
  IN CASE i = 0 -> Append(base, leaf)
       [] Is("array", leaf.item) /\ Is("array", base[i].item) ->
            [base EXCEPT ![i].item.array = @ \o leaf.item.array]
       [] OTHER -> [base EXCEPT ![i].item = leaf.item]

(* Tables key by key, arrays with the game's entries last, and else the    *)
(* game's value.                                                           *)
Merged(base, over) == FoldLeft(MergeLeaf, TakeReplacedLists(base, over), over)

------------------------------------------------------------------------------
(* load_file: checked on its own, and only then topped up *)

NotLoaded(text) ==
  [fault |-> "Invalid", text |-> text, document |-> <<>>, raw |-> <<>>]

ToppedUp(text, raw) ==
  [fault |-> Ok, text |-> text, raw |-> raw,
   document |-> Normalized(Without(Document(text).table, raw.ignored))]

Checked(text, source, raw) ==
  IF raw.fault # Ok THEN NotLoaded(text)
  ELSE ToppedUp(SyncTemplate(text, Template(source)), raw)

(* read_defaults also refuses an executable, which belongs in a game file. *)
LoadDocument(text, source, read) ==
  IF \/ read.fault # Ok
     \/ source = "defaults" /\ \E i \in DOMAIN read.table : read.table[i].path[1] = "executable"
  THEN NotLoaded(text)
  ELSE Checked(text, source, FromDocument(read.table, source))

LoadFile(text, source) == LoadDocument(text, source, Document(text))
==============================================================================
