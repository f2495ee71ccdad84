------------------------------ MODULE MCConfig ------------------------------
(* Files, command lines and typed answers for TLC (config.cfg).            *)
EXTENDS ConfigLoad

MCWord == STRING
MCWords == [dxgi |-> {"dxmt", "wined3d"}, wined3d |-> {"gl", "vulkan"}, metal_hud |-> {"true", "false"}]
MCVariable ==
  [n \in {"WINE_D3D_CONFIG", "MTL_HUD_ENABLED", "MTL_HUD_ALIGNMENT", "MTL_HUD_ELEMENTS", "FOO"} |-> n]
MCLowerCase ==
  [DXGI |-> "dxgi", GPTK |-> "gptk", DXMT |-> "dxmt", Dll_Overrides |-> "dll_overrides", EXE |-> "exe",
   Arguments_Override |-> "arguments_override", WineDebug |-> "winedebug", FALSE |-> "false"]
MCDigits == [n \in {"0", "144", "500"} |-> CASE n = "0" -> 0 [] n = "144" -> 144 [] OTHER -> 500]
MCHome == <<"/", "home">>

Turns(s, word) == [NewRule(AnyExe) EXCEPT !.scalars[s] = word]
MCBuiltIn == <<Turns("dxgi", "dxmt"), [Turns("metal_hud", "true") EXCEPT !.exe = <<"Tool.exe">>]>>
MCInherited ==
  [WINEDLLOVERRIDES |-> <<"dxgi=n">>, FOO |-> <<"9">>, WINEMSYNC |-> <<"0">>,
   WINE_COMPATDB |-> <<"exe", "=", "*">>]

Old == <<"/", "old", "/", "Game", " ", "One.exe">>
New == <<"/", "home", "/", "Game.exe">>
MCPlaces == {{Old}, {New}}

Text(word) == String(<<word>>)
List(words) == [array |-> [i \in DOMAIN words |-> Text(words[i])]]
Bool(word) == [boolean |-> word]

(* Two keys in another case, lists as one string, and a block that sets    *)
(* everything.                                                             *)
Plain ==
  << Prose, Says(<<"arguments">>, List(<<"-d">>)), Blank,
     Says(<<"DXGI">>, Text("DXMT")), Says(<<"Dll_Overrides">>, String(<<"a", "=", "n">>)),
     Says(<<"retina_mode">>, Bool("false")), Blank,
     Header(<<"env">>), Says(<<"FOO">>, Text("1")), Blank,
     Header(<<"process", "tool">>), Says(<<"exe">>, Text("Tool.exe")),
     Says(<<"arguments">>, Text("-t")), Says(<<"arguments_override">>, List(<<"-o", "-q">>)),
     Says(<<"metal_hud">>, Bool("true")), Says(<<"env", "FOO">>, Text("t")) >>
(* Values the launcher ignores, a rule for every process, and a real table *)
(* above what was commented out.                                           *)
Odd ==
  << Says(<<"dxgi">>, Text("gptk")), Says(<<"x87_sidecar">>, Text("auto")),
     Says(<<"debug_channels">>, String(<<"+relay", ",", "warn-heap">>)), Blank,
     Header(<<"process", "all">>), Says(<<"exe">>, Text("*")), Says(<<"dxgi">>, Text("wined3d")), Blank,
     Header(<<"process", "tool">>), Says(<<"EXE">>, Text("Tool.exe")),
     Says(<<"wined3d">>, Text("gl")), Says(<<"debug_channels">>, Text("+seh")), Blank,
     Prose, Commented(Says(<<"metal_hud">>, Bool("true"))), Commented(Says(<<"dpi">>, Text("auto"))) >>
(* With the setting that belongs into a game file; with one key twice.     *)
Misplaced == <<Says(<<"executable">>, String(Old))>>
Both == <<Says(<<"DXGI">>, Text("dxmt")), Says(<<"dxgi">>, Text("gptk"))>>

MCDefaults == {Plain, Odd, Misplaced}

(* A game that changes the rule of the defaults, a list for a list.        *)
Changes ==
  << Says(<<"executable">>, String(Old)), Says(<<"arguments">>, Text("-g")), Says(<<"dxgi">>, Text("GPTK")),
     Says(<<"dll_overrides">>, [array |-> <<>>]), Says(<<"metal_hud">>, Text("default")), Blank,
     Header(<<"process", "tool">>), Says(<<"Arguments_Override">>, Text("-p")),
     Says(<<"arguments">>, List(<<"-u">>)), Says(<<"metal_hud">>, Bool("false")),
     Says(<<"env", "FOO">>, Text("g")), Blank, Header(<<"env">>), Says(<<"FOO">>, Text("2")) >>
(* One that turns it off, has one of its own for an app, and for the same  *)
(* exe as another.                                                         *)
TurnsOff ==
  << Prose, Says(<<"executable">>, String(<<"~/", "Game.exe">>)), Says(<<"dpi">>, [integer |-> "144"]), Blank,
     Header(<<"process", "tool">>), Says(<<"enabled">>, Bool("false")), Blank,
     Header(<<"process", "app">>), Says(<<"exe">>, String(<<"steam:", "7">>)),
     Says(<<"metal_hud">>, Bool("false")), Says(<<"company">>, Text("Some Vendor")), Blank,
     Header(<<"process", "again">>), Says(<<"exe">>, String(<<"steam:", "7">>)),
     Says(<<"dxgi">>, Text("default")), Says(<<"company">>, Text("Some Vendor")) >>
(* One with a block that has no exe here, and an override.                 *)
Extends ==
  << Commented(Header(<<"process", "x">>)), Commented(Says(<<"executable">>, Text("x"))),
     Says(<<"executable">>, String(New)), Blank,
     Header(<<"process", "all">>), Says(<<"arguments_override">>, [array |-> <<>>]) >>

MCGames == {Changes, TurnsOff, Extends, Both}

MCLines ==
  { <<>>,
    << <<"dxgi", "=", "wined3d", ";", " ", "arguments", "=", "-a", " ", Single, "b", ";", "c", Single>>,
       <<"debug_channels", "=", "+heap", ";", "dpi", "=", "0", ";", "env.", "FOO", "=", "3">> >>,
    << <<"executable", "=", Double>> \o New \o <<Double>> , <<"retina_mode", "=", "true">> >>,
    << <<"executable", "=">> \o New, <<"game", "=", "One">> >>,
    << <<"dxgi", "=", "gptk">> >>, << <<"env.", "WineDebug", "=", "x">> >> }

MCForms ==
  { [executable |-> <<" ">> \o Old, arguments |-> <<"-a", " ", Double, "b", ";", "c", " ", "d", Double>>,
     env |-> << <<>>, <<"FOO", " ", "=", " ", "x", ";", "y">> >>],
    [executable |-> <<"~/", "Game.exe">>, arguments |-> <<>>, env |-> <<>>],
    [executable |-> Old, arguments |-> <<Single, "-a">>, env |-> <<>>] }

(* A game file with the example of the template above the line that counts *)
MCCommented ==
  { << Prose, Commented(Says(<<"executable">>, String(<<"~/", "Game.exe">>))),
       Says(<<"executable">>, String(Old)) >> }
==============================================================================
