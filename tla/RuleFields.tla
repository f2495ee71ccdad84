----------------------------- MODULE RuleFields -----------------------------
(***************************************************************************)
(* The settings of the rules as a config gives them: which a rule takes    *)
(* (compatdb-core's settings.rs), the [process] blocks read into rules,    *)
(* and the table the launcher sends (the launcher's rules.rs).             *)
(*                                                                         *)
(* A TOML value is a record of one field, named for its type: string, its  *)
(* text; boolean or integer, its word; array, its items.  A table is its   *)
(* leaves, [path, item] each, the path relative to the table.              *)
(***************************************************************************)
EXTENDS CompatWire

CONSTANT LowerCase   (* the lowercase of each word that has another spelling   *)

Lower(word) == IF word \in DOMAIN LowerCase THEN LowerCase[word] ELSE word

Matchers == {"exe"} \cup PinKeys
Lists == {"dll_overrides", "arguments_override", "arguments", "debug_channels"}
Switches == {s \in Scalars : Words[s] = {"true", "false"}}
KeyOrder == <<"exe">> \o PinOrder \o ScalarOrder
              \o <<"dll_overrides", "arguments_override", "arguments", "debug_channels", "env">>

Leaf(path, item) == [path |-> path, item |-> item]
String(text) == [string |-> text]
Is(type, item) == type \in DOMAIN item

(* The fields of a table, a leaf or a table each, in the order they start. *)
FieldsOf(table) ==
  LET first == SelectSeq([i \in DOMAIN table |-> i],
                         LAMBDA i : \A j \in 1 .. i - 1 : table[j].path[1] # table[i].path[1])
      below(name) == SelectSeq(table, LAMBDA e : e.path[1] = name)
      field(e) == [name |-> e.path[1],
                   item |-> IF Len(e.path) = 1 THEN e.item
                            ELSE [table |-> [k \in DOMAIN below(e.path[1]) |->
                                    [below(e.path[1])[k] EXCEPT !.path = Tail(@)]]]]
  IN [n \in DOMAIN first |-> field(table[first[n]])]

------------------------------------------------------------------------------
(* Which settings there are.  A fault is why one is refused; Ignored is    *)
(* the severity of those a config file only gets a warning for.            *)

Ok == "ok"
Ignored == "ignored"
RetiredKeys == [x87_sidecar |-> Ignored, cmdline_append |-> "RetiredKey"]
RetiredEnv == {"winedebug", "winedlloverrides", "wine_cmdline_append", "wine_mac_opengl",
               "wine_force_nx"}

KeyFault(name) ==
  CASE Lower(name) \in DOMAIN RetiredKeys -> RetiredKeys[Lower(name)]
    [] Lower(name) \in Keys               -> Ok
    [] OTHER                              -> "UnknownKey"
IsKey(name) == KeyFault(name) = Ok

AllowedOnAny(key) == key \notin Matchers \cup {"arguments_override"}
ReplacesOnMerge(key) == key \in Matchers \cup Scalars \cup {"arguments_override"}
RefusedOnAny(key) == key \notin Matchers /\ ~AllowedOnAny(key)

Refusal(exe, key) ==
  CASE exe = AnyExe /\ RefusedOnAny(key) -> "ArgumentsOverrideOnAny"
    [] IsSteamApp(exe) /\ (RefusedOnAny(key) \/ key = "debug_channels") -> "RefusedOnSteamApp"
    [] OTHER -> Ok

ScalarFault(key, text) ==
  CASE Len(text) # 1 -> "BadValue"
    [] key = "dxgi" /\ Lower(text[1]) = "gptk" -> Ignored
    [] Lower(text[1]) \in Words[key] \cup {Default} -> Ok
    [] OTHER -> "BadValue"

RuleHolds(rule, key) ==
  CASE key \in Scalars              -> rule.scalars[key] # Unset
    [] key = "dll_overrides"        -> rule.dlls # <<>>
    [] key = "arguments_override"   -> rule.override # <<>>
    [] key = "arguments"            -> rule.arguments # <<>>
    [] key = "debug_channels"       -> rule.channels # <<>>
    [] key = "env"                  -> rule.env # <<>>
    [] OTHER                        -> FALSE

ExeFault(rule, text) ==
  CASE text = <<>>       -> "MissingExe"
    [] ~ValidExe(text)   -> "BadSteamApp"
    [] \E key \in Keys : RuleHolds(rule, key) /\ Refusal(text, key) # Ok -> "RefusedForExe"
    [] OTHER             -> Ok

EnvNameFault(name) ==
  CASE name # <<>> /\ Lower(name[1]) \in RetiredEnv -> "RetiredEnv"
    [] name = <<>> \/ Contains(name, "=")           -> "InvalidEnvName"
    [] Contains(name, "nul")                        -> "Nul"
    [] OTHER                                        -> Ok

(* Rule::set and set_env: why the rule refuses one more value for a key... *)
SetFault(rule, key, value) ==
  CASE Refusal(rule.exe, key) # Ok -> Refusal(rule.exe, key)
    [] key \in Scalars -> ScalarFault(key, value)
    [] key = "env" -> IF Contains(value.value, "nul") THEN "Nul" ELSE EnvNameFault(value.name)
    [] Contains(value, "nul") -> "Nul"
    [] key = "exe" -> ExeFault(rule, value)
    [] key = "dll_overrides" /\ ~Contains(value, "=") -> "InvalidDllOverride"
    [] key \in {"arguments", "arguments_override"} /\ value = <<>> -> "EmptyArgument"
    [] key = "debug_channels" /\ Contains(Split(value, ","), <<>>) -> "EmptyDebugChannel"
    [] OTHER -> Ok

(* ... and the rule with it. *)
Set(rule, key, value) ==
  CASE key \in Scalars -> [rule EXCEPT !.scalars[key] = Lower(value[1])]
    [] key \in PinKeys -> [rule EXCEPT !.pins[key] = <<value>>]
    [] key = "exe" -> [rule EXCEPT !.exe = value]
    [] key = "dll_overrides" -> [rule EXCEPT !.dlls = Append(@, value)]
    [] key = "arguments" -> [rule EXCEPT !.arguments = Append(@, value)]
    [] key = "arguments_override" ->
         [rule EXCEPT !.override = <<Append(IF @ = <<>> THEN <<>> ELSE @[1], value)>>]
    [] key = "debug_channels" -> [rule EXCEPT !.channels = @ \o Split(value, ",")]
    [] OTHER -> [rule EXCEPT !.env = Append(@, [value EXCEPT !.name = @[1]])]

(* rules::apply: values for a key, one after the other up to the first     *)
(* that is refused.  No entries are an empty list (set_list).              *)
Apply(rule, key, values) ==
  IF values = <<>> /\ key \in Lists
  THEN [fault |-> Refusal(rule.exe, key),
        rule |-> IF key = "arguments_override" THEN [rule EXCEPT !.override = << <<>> >>] ELSE rule]
  ELSE FoldLeft(LAMBDA acc, value :
                  IF acc.fault # Ok THEN acc
                  ELSE LET fault == SetFault(acc.rule, key, value)
                       IN [fault |-> fault,
                           rule |-> IF fault = Ok THEN Set(acc.rule, key, value) ELSE acc.rule],
                [fault |-> Ok, rule |-> rule], values)

SetsNothing(rule) == \A key \in Keys : ~RuleHolds(rule, key)

------------------------------------------------------------------------------
(* The keys of the launcher's own rule *)

LaunchWideKeys(own) == Filtered(KeyOrder, LAMBDA key : key \notin own /\ AllowedOnAny(key))

CheckLaunchWide(key, values) == Apply(NewRule(AnyExe), key, values).fault

(* From the checked settings, a function on the keys they give. *)
LaunchRule(settings) ==
  FoldLeft(LAMBDA rule, key : IF key \in DOMAIN settings THEN Apply(rule, key, settings[key]).rule
                              ELSE rule,
           NewRule(AnyExe), KeyOrder)

------------------------------------------------------------------------------
(* Reading a field: the values, and why there are none.                    *)

Values(values) == [fault |-> Ok, values |-> values]
WrongType == [fault |-> "WrongType", values |-> <<>>]

ReadString(item) == IF Is("string", item) THEN Values(<<item.string>>) ELSE WrongType

ReadSwitch(item) ==
  CASE Is("boolean", item) -> Values(<< <<item.boolean>> >>)
    [] Is("string", item) /\ Len(item.string) = 1 /\ Lower(item.string[1]) = Default ->
         Values(<<item.string>>)
    [] OTHER -> WrongType

(* A list may be written as a single string. *)
ReadStrings(item) ==
  CASE Is("string", item) -> Values(<<item.string>>)
    [] Is("array", item) /\ \A i \in DOMAIN item.array : Is("string", item.array[i]) ->
         Values([i \in DOMAIN item.array |-> item.array[i].string])
    [] OTHER -> WrongType

ReadEnv(item) ==
  IF /\ Is("table", item)
     /\ \A i \in DOMAIN item.table : Len(item.table[i].path) = 1 /\ Is("string", item.table[i].item)
  THEN Values([i \in DOMAIN item.table |->
                 [name |-> <<item.table[i].path[1]>>, value |-> item.table[i].item.string]])
  ELSE WrongType

ReadSetting(key, item) ==
  CASE key \in Switches -> ReadSwitch(item)
    [] key \in Lists    -> ReadStrings(item)
    [] key = "env"      -> ReadEnv(item)
    [] OTHER            -> ReadString(item)

------------------------------------------------------------------------------
(* A [process."<name>"] block *)

UnnamedExe == <<"unnamed.exe">>
RejectedFields == {"retina_mode", "dpi"}

FieldFault(field) ==
  CASE field.name = "enabled" -> IF Is("boolean", field.item) THEN Ok ELSE "WrongType"
    [] field.name \in RejectedFields -> "Rejected"
    [] IsKey(field.name) -> ReadSetting(Lower(field.name), field.item).fault
    [] OTHER -> KeyFault(field.name)

(* The values are put into the rule after its exe, which some depend on. A *)
(* field the launcher ignores is left out of the rule.                     *)
Noted(acc, name, put) ==
  CASE put.fault = Ok      -> [acc EXCEPT !.rule = put.rule]
    [] put.fault = Ignored -> [acc EXCEPT !.ignored = @ \cup {name}]
    [] OTHER               -> [acc EXCEPT !.faults = @ \cup {put.fault}]

PutField(acc, field) ==
  Noted(acc, field.name,
         Apply(acc.rule, Lower(field.name), ReadSetting(Lower(field.name), field.item).values))

Twice(keyed) ==
  \E i, j \in DOMAIN keyed : i < j /\ Lower(keyed[i].name) = Lower(keyed[j].name)

IsOff(field) == field.name = "enabled" /\ field.item = [boolean |-> "false"]

(* The fields of one block with their faults, and those that name a key.   *)
RuleOf(fields, faults, keyed) ==
  LET named == SelectSeq(keyed, LAMBDA f : Lower(f.name) = "exe")
      start == [rule |-> NewRule(UnnamedExe), faults |-> ToSet(faults) \ {Ok, Ignored},
                ignored |-> {fields[i].name : i \in {k \in DOMAIN fields : faults[k] = Ignored}}]
      read == FoldLeft(PutField, start,
                       named \o SelectSeq(keyed, LAMBDA f : Lower(f.name) # "exe"))
  IN IF start.faults # {} \/ Twice(keyed)
     THEN [start EXCEPT !.rule = <<>>, !.faults = @ \cup {"Duplicate"}]
     ELSE [read EXCEPT !.rule =
             IF named = <<>> \/ \E i \in DOMAIN fields : IsOff(fields[i]) THEN <<>> ELSE <<@>>]

(* parse_rule: a block without an exe matches nothing, and a game file     *)
(* turns a block off with enabled = false; both are checked all the same.  *)
ParseRule(item) ==
  IF ~Is("table", item) THEN [rule |-> <<>>, ignored |-> {}, faults |-> {"WrongType"}]
  ELSE LET fields == FieldsOf(item.table)
       IN RuleOf(fields, [i \in DOMAIN fields |-> FieldFault(fields[i])],
                 SelectSeq(fields, LAMBDA f : /\ f.name \notin {"enabled"} \cup RejectedFields
                                              /\ IsKey(f.name)))

Collected(blocks, read) ==
  LET kept == SelectSeq([i \in DOMAIN blocks |-> i], LAMBDA i : read[i].rule # <<>>)
  IN [rules |-> [n \in DOMAIN kept |->
                   [name |-> blocks[kept[n]].name, rule |-> read[kept[n]].rule[1]]],
      ignored |-> UNION {{<<"process", blocks[i].name, f>> : f \in read[i].ignored} :
                           i \in DOMAIN blocks},
      faults |-> UNION {read[i].faults : i \in DOMAIN blocks}]

(* rules::parse, of the item `process`: the rules by the names of their    *)
(* blocks, what the launcher ignores, and what it refuses.                 *)
ParseProcess(item) ==
  IF ~Is("table", item) THEN [rules |-> <<>>, ignored |-> {}, faults |-> {"WrongType"}]
  ELSE LET blocks == FieldsOf(item.table)
       IN Collected(blocks, [i \in DOMAIN blocks |-> ParseRule(blocks[i].item)])

------------------------------------------------------------------------------
(* The table the launcher sends, and the block each of its rules is from   *)

TopLevel == "top level"

(* Broken: names the launcher's own rule even when it is left out. *)
TableNamingOwn(own, rules) ==
  [table |-> FoldLeft(PushRule, <<>>,
               (IF SetsNothing(own) THEN <<>> ELSE <<own>>) \o [i \in DOMAIN rules |-> rules[i].rule]),
   names |-> <<TopLevel>> \o [i \in DOMAIN rules |-> rules[i].name]]

(* The launcher's own rule comes first, and not at all when it sets        *)
(* nothing.                                                                *)
Table(own, rules) ==
  LET first == IF SetsNothing(own) THEN <<>> ELSE <<[name |-> TopLevel, rule |-> own]>>
      all == first \o rules
  IN [table |-> FoldLeft(PushRule, <<>>, [i \in DOMAIN all |-> all[i].rule]),
      names |-> [i \in DOMAIN all |-> all[i].name]]

(* What the log calls the rule of an origin: a block for a line, built-in, *)
(* or a line of the file.                                                  *)
Describe(launch, origin) ==
  IF origin.text = "variable" /\ origin.line \in DOMAIN launch.names
  THEN launch.names[origin.line] ELSE origin.text

ForEvery(rule) == rule.exe = AnyExe /\ ~Pinned(rule)

(* The blocks warned about, which match the same processes. *)
DuplicateBlocks(launch) ==
  LET rule(i) == launch.table[i].rule
      pairs == {p \in (DOMAIN launch.table) \X (DOMAIN launch.table) :
                  /\ p[1] < p[2] /\ ~ForEvery(rule(p[1]))
                  /\ rule(p[1]).exe = rule(p[2]).exe /\ rule(p[1]).pins = rule(p[2]).pins}
  IN {<<launch.names[p[1]], launch.names[p[2]]>> : p \in pairs}

(* Table::winedebug: the entries, each with the exe it is scoped to. *)
Winedebug(table) ==
  FlattenSeq([i \in DOMAIN table |->
    IF IsSteamApp(table[i].rule.exe) THEN <<>>
    ELSE [k \in DOMAIN table[i].rule.channels |->
            [exe |-> IF table[i].rule.exe = AnyExe THEN <<>> ELSE table[i].rule.exe,
             channel |-> table[i].rule.channels[k]]]])

(* main.rs, summary: what a process no rule names gets of a setting, who   *)
(* says so, and what the blocks give the processes they match.             *)
Summary(launch, builtin, s) ==
  LET every == Preview(builtin, launch.table,
                       [exe |-> <<>>, version |-> [k \in PinKeys |-> {}], app |-> <<>>]).scalars[s]
      others == SelectSeq([i \in DOMAIN launch.table |-> i],
                          LAMBDA i : ~ForEvery(launch.table[i].rule)
                                     /\ launch.table[i].rule.scalars[s] # Unset)
  IN [value |-> every.value, from |-> Describe(launch, every.by),
      rules |-> [n \in DOMAIN others |->
                   [name |-> launch.names[others[n]],
                    value |-> launch.table[others[n]].rule.scalars[s]]]]
==============================================================================
