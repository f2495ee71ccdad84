----------------------------- MODULE CompatWire -----------------------------
(***************************************************************************)
(* The text the rules travel in (wire.rs): in WINE_COMPATDB, and in the    *)
(* file WINE_COMPATDB_FILE names.  A record per line, its fields separated *)
(* by ";", each key=value, what would collide with that written as % and   *)
(* two hex digits.  The two digits are one word here, and the newline      *)
(* stands for every control character, all of which are written so.        *)
(***************************************************************************)
EXTENDS CompatRules

Escaped == [c \in {"%", ";", "newline"} |->
              CASE c = "%" -> "25" [] c = ";" -> "3B" [] OTHER -> "0A"]
HexPairs == [d \in {"25", "3B", "0A", "3D", "00"} |->
              CASE d = "25" -> "%" [] d = "3B" -> ";" [] d = "0A" -> "newline"
                [] d = "3D" -> "=" [] OTHER -> "nul"]

(* What the format itself is written with is words, as any other text.     *)
ASSUME WireAssumption ==
  /\ DOMAIN Escaped \cup DOMAIN HexPairs \cup {"=", "exe", "dll_overrides", "arguments_override",
       "arguments", "debug_channels", "env"} \cup PinKeys \cup Scalars \subseteq Word
  /\ \A d \in DOMAIN HexPairs : HexPairs[d] \in Word

HeaderVersions == {"1"}     \* the digits of a legacy header

(* Broken: leaves the % of the text itself alone. *)
EncodeSeparators(text) ==
  Flat([i \in DOMAIN text |->
    IF text[i] \in DOMAIN Escaped \ {"%"} THEN <<"%", Escaped[text[i]]>> ELSE <<text[i]>>])

Encode(text) ==
  Flat([i \in DOMAIN text |->
    IF text[i] \in DOMAIN Escaped THEN <<"%", Escaped[text[i]]>> ELSE <<text[i]>>])

(* What is read, and whether a % was kept since no two digits follow it.   *)
Decode(text) ==
  LET escape(i) == text[i] = "%" /\ i < Len(text) /\ text[i + 1] \in DOMAIN HexPairs
      pair(i) == i > 1 /\ escape(i - 1)
  IN [text |-> Flat([i \in DOMAIN text |->
                 IF pair(i) THEN <<>>
                 ELSE IF escape(i) THEN <<HexPairs[text[i + 1]]>> ELSE <<text[i]>>]),
      bad |-> \E i \in DOMAIN text : text[i] = "%" /\ ~escape(i)]

Split(text, separator) ==
  LET ends == Selected([i \in 1 .. Len(text) + 1 |-> i],
                       {i \in 1 .. Len(text) + 1 : i > Len(text) \/ text[i] = separator})
  IN [k \in DOMAIN ends |-> SubSeq(text, (IF k = 1 THEN 0 ELSE ends[k - 1]) + 1, ends[k] - 1)]

Join(texts, separator) ==
  Flat([i \in DOMAIN texts |-> IF i = 1 THEN texts[i] ELSE <<separator>> \o texts[i]])

(* split_once('='): a text without one is all before it. *)
Before(text) == LET i == SelectInSeq(text, LAMBDA w : w = "=")
                IN IF i = 0 THEN text ELSE SubSeq(text, 1, i - 1)
After(text) == LET i == SelectInSeq(text, LAMBDA w : w = "=")
               IN IF i = 0 THEN <<>> ELSE SubSeq(text, i + 1, Len(text))

------------------------------------------------------------------------------
(* Writing *)

Field(key, value) == <<key, "=">> \o Encode(value)
EnvField(entry) == <<"env", "=">> \o Encode(<<entry.name>>) \o <<"=">> \o Encode(entry.value)
Fields(key, values) == [i \in DOMAIN values |-> Field(key, values[i])]

PinOrder == <<"company", "product", "original_filename">>
ScalarOrder == <<"dxgi", "d3d9", "wined3d", "opengl", "dpi_aware", "large_address_aware",
                 "gcmouse", "force_nx", "metal_hud">>

(* Broken: writes the entries of the override, and so nothing for none. *)
OverrideEntries(rule) ==
  IF rule.override = <<>> THEN <<>> ELSE Fields("arguments_override", rule.override[1])

(* An override without entries travels as the key with an empty value.     *)
OverrideFields(rule) ==
  CASE rule.override = <<>>     -> <<>>
    [] rule.override = << <<>> >> -> <<Field("arguments_override", <<>>)>>
    [] OTHER                    -> Fields("arguments_override", rule.override[1])

RuleToRecord(rule) ==
  LET held == Selected(PinOrder, {i \in DOMAIN PinOrder :
                                    PinOrder[i] \in PinKeys /\ rule.pins[PinOrder[i]] # <<>>})
      pins == [i \in DOMAIN held |-> Field(held[i], rule.pins[held[i]][1])]
      said == Selected(ScalarOrder, {i \in DOMAIN ScalarOrder :
                ScalarOrder[i] \in Scalars /\ rule.scalars[ScalarOrder[i]] # Unset})
      scalars == [i \in DOMAIN said |-> Field(said[i], <<rule.scalars[said[i]]>>)]
      env == [i \in DOMAIN rule.env |-> EnvField(rule.env[i])]
  IN Join(<<Field("exe", rule.exe)>> \o pins \o scalars \o Fields("dll_overrides", rule.dlls)
            \o OverrideFields(rule) \o Fields("arguments", rule.arguments)
            \o Fields("debug_channels", rule.channels) \o env,
          ";")

Sent(table) == Selected(table, {i \in DOMAIN table : table[i].source.text # "built-in"})

(* Table's Display: the rules that are not built in, one per line. *)
Display(table) ==
  LET sent == Sent(table)
  IN Join([i \in DOMAIN sent |-> RuleToRecord(sent[i].rule)], "newline")

------------------------------------------------------------------------------
(* Reading *)

Keys == {"exe", "dll_overrides", "arguments_override", "arguments", "debug_channels", "env"}
          \cup PinKeys \cup Scalars
HoldsOne(key) == key \in {"exe"} \cup PinKeys \cup Scalars

ValidExe(text) ==
  IsSteamApp(text) => \E app \in Apps : text = SteamApp(app)

(* Is the text one of what the key has, as the types in part.rs make it?   *)
PartTakes(key, text) ==
  /\ ~Contains(text, "nul")
  /\ CASE key \in Scalars -> \E w \in Words[key] \cup {Default} : text = <<w>>
       [] key = "exe" -> ValidExe(text)
       [] key = "dll_overrides" -> Contains(text, "=")
       [] key = "arguments" -> text # <<>>
       [] key = "debug_channels" -> text # <<>> /\ ~Contains(text, ",")
       [] OTHER -> TRUE
NameTaken(name) == name # <<>> /\ ~Contains(name, "=")

(* A rule that is made of such parts. *)
WellMade(rule) ==
  /\ rule \in Rule
  /\ rule.exe # <<>> /\ PartTakes("exe", rule.exe)
  /\ \A k \in PinKeys : rule.pins[k] # <<>> => PartTakes(k, rule.pins[k][1])
  /\ \A s \in Scalars : rule.scalars[s] # Unset => PartTakes(s, <<rule.scalars[s]>>)
  /\ \A i \in DOMAIN rule.dlls : PartTakes("dll_overrides", rule.dlls[i])
  /\ rule.override # <<>> =>
       \A i \in DOMAIN rule.override[1] : PartTakes("arguments", rule.override[1][i])
  /\ \A i \in DOMAIN rule.arguments : PartTakes("arguments", rule.arguments[i])
  /\ \A i \in DOMAIN rule.channels : PartTakes("debug_channels", rule.channels[i])
  /\ \A i \in DOMAIN rule.env :
       /\ NameTaken(<<rule.env[i].name>>)
       /\ PartTakes("env", <<rule.env[i].name, "=">> \o rule.env[i].value)

(* Does the key take this value? *)
Takes(key, value) ==
  /\ PartTakes(key, Decode(value).text)
  /\ key = "env" => NameTaken(Decode(Before(value)).text)

(* read_field: what a field the key takes does to the rule read so far,    *)
(* and to its exe.                                                         *)
Over(override) == IF override = <<>> THEN <<>> ELSE override[1]

PutPart(rule, key, value) ==
  LET text == Decode(value).text
      over == Over(rule.override)
      more(k, texts) == IF key = k THEN Append(texts, text) ELSE texts
  IN [exe       |-> rule.exe,
      pins      |-> IF key \in PinKeys THEN [rule.pins EXCEPT ![key] = <<text>>] ELSE rule.pins,
      scalars   |-> IF key \in Scalars THEN [rule.scalars EXCEPT ![key] = text[1]]
                    ELSE rule.scalars,
      dlls      |-> more("dll_overrides", rule.dlls),
      override  |-> IF key # "arguments_override" THEN rule.override
                    ELSE <<IF value = <<>> THEN over ELSE Append(over, text)>>,
      arguments |-> more("arguments", rule.arguments),
      channels  |-> more("debug_channels", rule.channels),
      env       |-> IF key # "env" THEN rule.env
                    ELSE Append(rule.env, [name |-> Decode(Before(value)).text[1],
                                           value |-> Decode(After(value)).text])]

PutExe(exe, key, value) ==
  LET text == Decode(value).text
  IN IF key # "exe" THEN exe ELSE IF text = <<>> THEN <<>> ELSE <<text>>

(* One field: a problem with it is a diagnostic, and it is left out.       *)
ReadField(acc, raw) ==
  LET key == Before(raw)
      value == After(raw)
      readable == /\ Contains(raw, "=") /\ Len(key) = 1 /\ key[1] \in Keys
                  /\ Takes(key[1], value)
      again == HoldsOne(key[1]) /\ key[1] \in acc.seen
  IN CASE raw = <<>> -> acc
       [] ~readable -> [acc EXCEPT !.bad = @ + 1]
       [] OTHER -> [rule |-> PutPart(acc.rule, key[1], value),
                    exe |-> PutExe(acc.exe, key[1], value),
                    seen |-> IF HoldsOne(key[1]) THEN acc.seen \cup {key[1]} ELSE acc.seen,
                    bad |-> IF again \/ Decode(value).bad THEN acc.bad + 1 ELSE acc.bad]

Record == INSTANCE Loop WITH Step <- ReadField

NothingRead == [rule |-> NewRule(AnyExe), exe |-> <<>>, seen |-> {}, bad |-> 0]

(* read_record: the rule, or none for a record without an exe. *)
ReadRecord(line) ==
  LET acc == Record!Fold(NothingRead, Split(line, ";"))
  IN [rule |-> IF acc.exe = <<>> THEN <<>> ELSE <<[acc.rule EXCEPT !.exe = acc.exe[1]]>>,
      bad |-> acc.bad]

IsLegacyHeader(line) ==
  Len(line) = 3 /\ line[1] = "v" /\ line[2] = "=" /\ line[3] \in HeaderVersions

(* Broken: counts the lines it uses, and not those it skips. *)
ParseTextCompactly(name, text) ==
  LET lines == Split(text, "newline")
      used == SelectSeq(lines, LAMBDA l : l # <<>> /\ ~IsLegacyHeader(l))
      read == [i \in DOMAIN used |-> ReadRecord(used[i])]
      rules == SelectSeq([i \in DOMAIN used |-> i], LAMBDA i : read[i].rule # <<>>)
  IN [table |-> [k \in DOMAIN rules |->
                   [source |-> [text |-> name, line |-> rules[k]], rule |-> read[rules[k]].rule[1]]],
      bad |-> 0]

AddProblems(n, record) == n + record.bad + (IF record.rule = <<>> THEN 1 ELSE 0)

Problems == INSTANCE Loop WITH Step <- AddProblems

(* What was read of the lines is a table, with the line each rule is on,   *)
(* and a number of problems; a line with no rule is one more.              *)
Collect(name, used, read) ==
  LET rules == Selected([k \in DOMAIN used |-> k], {k \in DOMAIN used : read[k].rule # <<>>})
  IN [table |-> [n \in DOMAIN rules |->
                   [source |-> [text |-> name, line |-> used[rules[n]]],
                    rule |-> read[rules[n]].rule[1]]],
      bad |-> Problems!Fold(0, read)]

(* parse_text: the lines that are blank, or a legacy header that comes     *)
(* first, are skipped, and still count as lines.                           *)
ParseText(name, text) ==
  LET lines == Split(text, "newline")
      used == Selected([i \in DOMAIN lines |-> i],
                       {i \in DOMAIN lines : lines[i] # <<>> /\ ~(i = 1 /\ IsLegacyHeader(lines[i]))})
  IN Collect(name, used, [k \in DOMAIN used |-> ReadRecord(lines[used[k]])])

------------------------------------------------------------------------------
(* Tables *)

BuiltIn(rules) ==
  [i \in DOMAIN rules |-> [source |-> [text |-> "built-in", line |-> 0], rule |-> rules[i]]]

(* Table::push: on the line after the last one of the variable. *)
PushRule(table, rule) ==
  LET lines == {table[i].source.line : i \in {j \in DOMAIN table : table[j].source.text = "variable"}}
      last == CHOOSE n \in lines \cup {0} : \A m \in lines : m <= n
  IN Append(table, [source |-> [text |-> "variable", line |-> last + 1], rule |-> rule])

(* Table::preview: what a program would get of a table in the variable.    *)
Preview(builtin, table, image) ==
  FoldDerivedEnv(Resolve(BuiltIn(builtin)
                           \o Sent(table),
                         [image EXCEPT !.app = <<>>]))
==============================================================================
