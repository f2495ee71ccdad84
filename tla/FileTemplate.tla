---------------------------- MODULE FileTemplate ----------------------------
(***************************************************************************)
(* The text of a config file, its template, and keeping the two in step    *)
(* (the launcher's config/template.rs).                                    *)
(*                                                                         *)
(* A text is a sequence of lines: blank, a comment in prose, an assignment *)
(* or the header of a table, the last two commented out or not.  What the  *)
(* text says is its document, a table as in RuleFields.                    *)
(***************************************************************************)
EXTENDS RuleFields

Line(is, commented, path, item) ==
  [is |-> is, commented |-> commented, path |-> path, item |-> item]
Blank == Line("blank", FALSE, <<>>, String(<<>>))
Prose == Line("prose", TRUE, <<>>, String(<<>>))
Says(path, item) == Line("assign", FALSE, path, item)
Header(path) == Line("header", FALSE, path, String(<<>>))
Commented(line) == [line EXCEPT !.commented = TRUE]

(* toml_edit: the leaves a text assigns, or a fault for a key that is      *)
(* assigned twice, or once as a value and once as a table.  Its fault for  *)
(* a header after dotted keys of the same table is left out.               *)
Document(text) ==
  LET headers == {i \in DOMAIN text : text[i].is = "header" /\ ~text[i].commented}
      before(i) == {h \in headers : h < i}
      within(i) == IF before(i) = {} THEN <<>>
                   ELSE text[CHOOSE h \in before(i) : \A g \in before(i) : g <= h].path
      said == Selected([i \in DOMAIN text |-> i],
                       {i \in DOMAIN text : text[i].is = "assign" /\ ~text[i].commented})
      table == [n \in DOMAIN said |->
                  Leaf(within(said[n]) \o text[said[n]].path, text[said[n]].item)]
  IN [table |-> table,
      fault |-> IF \/ \E i, j \in DOMAIN table : i # j /\ IsPrefix(table[i].path, table[j].path)
                   \/ \E i, j \in headers : i < j /\ text[i].path = text[j].path
                   \/ \E i \in DOMAIN table, h \in headers : IsPrefix(table[i].path, text[h].path)
                THEN "Syntax" ELSE Ok]

------------------------------------------------------------------------------
(* The templates, their directives expanded *)

Example(key) ==
  CASE key \in {"exe", "original_filename"}              -> <<"Game.exe">>
    [] key = "company"                                   -> <<"Some Vendor">>
    [] key = "product"                                   -> <<"Some Game">>
    [] key \in {"dxgi", "d3d9"}                          -> <<"wined3d">>
    [] key = "wined3d"                                   -> <<"vulkan">>
    [] key = "opengl"                                    -> <<"cgl">>
    [] key \in {"large_address_aware", "metal_hud"}      -> <<"true">>
    [] key \in Switches                                  -> <<"false">>
    [] key = "dll_overrides"                             -> <<"d3dcompiler_47", "=", "n">>
    [] key = "debug_channels"                            -> <<"+relay">>
    [] OTHER                                             -> <<"-windowed">>
EnvExample == [name |-> "DXMT_CONFIG", value |-> <<"d3d11.preferredMaxFrameRate=60">>]

Assignment(key) ==
  CASE key = "env"         -> Says(<<"env", EnvExample.name>>, String(EnvExample.value))
    [] key \in Lists       -> Says(<<key>>, [array |-> <<String(Example(key))>>])
    [] key \in Switches    -> Says(<<key>>, [boolean |-> Example(key)[1]])
    [] OTHER               -> Says(<<key>>, String(Example(key)))

(* The exe, one fingerprint, and the first key of each other kind. *)
RuleExample ==
  LET kind(key) == CASE key \in Matchers -> "matcher" [] key \in Switches -> "switch"
                     [] key \in Scalars -> "word" [] key \in Lists -> "list" [] OTHER -> "env"
      earlier(i) == {j \in 1 .. i - 1 : kind(KeyOrder[j]) = kind(KeyOrder[i])}
      shown == Selected(KeyOrder,
                        {i \in DOMAIN KeyOrder :
                           earlier(i) = {} \/ (kind(KeyOrder[i]) = "matcher" /\ earlier(i) = {1})})
  IN [n \in DOMAIN shown |-> Commented(Assignment(shown[n]))]

Leading == <<"executable", "arguments", "retina_mode", "dpi">>
Trailing == <<"env", "process">>
TopKeys == LaunchWideKeys(ToSet(Leading) \cup ToSet(Trailing))

LeadingLine(name) ==
  Says(<<name>>, CASE name = "executable" -> String(<<"~/", "Game.exe">>)
                   [] name = "arguments" -> [array |-> <<>>]
                   [] OTHER -> String(<<"auto">>))

(* What a new file of each kind is made of, one option per block. *)
TemplateBlocks(source) ==
  LET leading == IF source = "game" THEN Leading ELSE Tail(Leading)
  IN << <<Prose>> >>
    \o [i \in DOMAIN leading |-> <<Prose, Commented(LeadingLine(leading[i]))>>]
    \o [i \in DOMAIN TopKeys |-> <<Prose, Commented(Assignment(TopKeys[i]))>>]
    \o << <<Prose, Commented(Header(<<"env">>)),
            Commented(Says(<<EnvExample.name>>, String(EnvExample.value)))>>,
          <<Prose, Commented(Header(<<"process", "my-rule">>))>> \o RuleExample >>

Template(source) == Join(TemplateBlocks(source), Blank)

------------------------------------------------------------------------------
(* Which option a line mentions *)

(* What a line of prose mentions. *)
NoOption == ""

(* A dotted key is no option of its own; a header names its first segment. *)
OptionName(line) ==
  IF line.is = "header" \/ (line.is = "assign" /\ Len(line.path) = 1) THEN line.path[1] ELSE NoOption

IsOption(line, option) ==
  /\ OptionName(line) # NoOption
  /\ \/ OptionName(line) = option
     \/ IsKey(OptionName(line)) /\ IsKey(option) /\ Lower(OptionName(line)) = Lower(option)

(* A header owns the lines after it up to the end of the file, and one     *)
(* that is commented out the comments right after it.                      *)
InTable(text, i) ==
  \E h \in 1 .. i - 1 :
    /\ text[h].is = "header"
    /\ text[h].commented => \A k \in h + 1 .. i : text[k].commented

Mentions(text, option) ==
  \E i \in DOMAIN text :
    IsOption(text[i], option) /\ (text[i].is = "header" \/ ~InTable(text, i))

------------------------------------------------------------------------------
(* Changing a text *)

Blocks(text) == Filtered(Split(text, Blank), LAMBDA block : block # <<>>)

BlockOption(block) ==
  LET i == SelectInSeq(block, LAMBDA line : OptionName(line) # NoOption)
  IN IF i = 0 THEN NoOption ELSE OptionName(block[i])

Trimmed(text) ==
  LET last == SelectLastInSeq(text, LAMBDA line : line # Blank) IN SubSeq(text, 1, last)

(* Broken: at the end of the file, below its tables. *)
InsertBlocksLast(text, blocks) ==
  Trimmed(text \o <<Blank>> \o FlattenSeq([i \in DOMAIN blocks |-> Append(blocks[i], Blank)]))

(* Ahead of the first table, so that no option ends up inside one. *)
InsertBlocks(text, blocks) ==
  LET header == SelectInSeq(text, LAMBDA line : line.is = "header" /\ ~line.commented)
      cut == IF header = 0 THEN Len(text) ELSE header - 1
      gap == IF cut = 0 \/ (cut > 1 /\ text[cut] = Blank) THEN <<>> ELSE <<Blank>>
  IN Trimmed(SubSeq(text, 1, cut) \o gap
               \o Flat([i \in DOMAIN blocks |-> Append(blocks[i], Blank)])
               \o SubSeq(text, cut + 1, Len(text)))

(* sync_template: the blocks of the options the text does not mention. *)
SyncTemplate(text, template) ==
  LET missing == Filtered(Blocks(template),
                          LAMBDA b : BlockOption(b) # NoOption /\ ~Mentions(text, BlockOption(b)))
  IN IF missing = <<>> THEN text ELSE InsertBlocks(text, missing)

(* set_option: in place of the first line that mentions the option, be it  *)
(* commented out, or else as a block of its own.                           *)
SetOption(text, option, item) ==
  LET i == SelectInSeq(text, LAMBDA line : IsOption(line, option))
  IN IF i = 0 THEN InsertBlocks(text, << <<Says(<<option>>, item)>> >>)
     ELSE [text EXCEPT ![i] = Says(<<option>>, item)]

(* append_env: a table at the end of the text, of the variables given. *)
AppendEnv(text, env) ==
  LET names == SetToSeq(DOMAIN env)
  IN Trimmed(text) \o <<Blank, Header(<<"env">>)>>
       \o [i \in DOMAIN names |-> Says(<<names[i]>>, String(env[names[i]]))]
==============================================================================
