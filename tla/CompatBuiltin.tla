--------------------------- MODULE CompatBuiltin ---------------------------
(***************************************************************************)
(* The built-in rules of compatdb-core (builtin.rs): a default each for    *)
(* every process, then the rules for one program each.                     *)
(***************************************************************************)
EXTENDS CompatWire

Gives(rule, s, word) == [rule EXCEPT !.scalars[s] = word]
Pins(rule, key, text) == [rule EXCEPT !.pins[key] = << <<text>> >>]
Exe(name) == NewRule(<<name>>)
Turns(s, word) == Gives(NewRule(AnyExe), s, word)

DxgiDxmt == Turns("dxgi", "dxmt")
D3d9Mtld3d == Turns("d3d9", "mtld3d")
DpiAware == Turns("dpi_aware", "true")
Gcmouse == Turns("gcmouse", "true")
FexReducedX87Precision ==
  [NewRule(AnyExe) EXCEPT !.env = <<[name |-> "FEX_X87REDUCEDPRECISION", value |-> <<"1">>]>>]
OpenglEgl == Turns("opengl", "egl")
ForceNx == Turns("force_nx", "true")
NoMonoOrGecko == [NewRule(AnyExe) EXCEPT !.dlls = << <<"mscoree", ",", "mshtml", "=">> >>]

Defaults == <<DxgiDxmt, D3d9Mtld3d, DpiAware, Gcmouse, FexReducedX87Precision, OpenglEgl,
              ForceNx, NoMonoOrGecko>>

RockstarGamesLauncher ==
  Gives(Pins(Pins(Exe("Launcher.exe"), "company", "Rockstar Games"),
            "product", "Rockstar Games Launcher"), "dxgi", "wined3d")

(* An embedded browser: its GPU in the process, and no HUD over it.        *)
Browser(rule) ==
  [Gives(Gives(rule, "dxgi", "dxmt"), "metal_hud", "false") EXCEPT
     !.arguments = << <<"--in-process-gpu">> >>,
     !.env = <<[name |-> "MTL_HUD_ENABLED", value |-> <<"0">>]>>]

SocialClubHelper ==
  Browser(Pins(Pins(Exe("SocialClubHelper.exe"), "company", "Take-Two Interactive Software"),
               "product", "Social Club UI"))
SteamWebHelper ==
  Browser(Pins(Pins(Exe("steamwebhelper.exe"), "company", "Valve Corporation"),
               "product", "Steam Client WebHelper"))
GtaIV ==
  [Pins(Pins(Exe("GTAIV.exe"), "company", "Rockstar Games"), "product", "Grand Theft Auto IV")
     EXCEPT !.arguments = << <<"-availablevidmem 2048.0">> >>]
Nostale ==
  Gives(Pins(Exe("NostaleClientX.exe"), "company", "Entwell"), "dpi_aware", "false")
AgeOfEmpiresIIHD ==
  Gives(Pins(Exe("AoK HD.exe"), "company", "Microsoft Corporation"), "dpi_aware", "false")
WorldOfWarcraft ==
  Gives(Pins(Pins(Pins(Exe("WoW.exe"), "company", "Blizzard Entertainment"),
                 "product", "World of Warcraft"), "original_filename", "WoW.exe"),
       "large_address_aware", "true")

Programs == <<RockstarGamesLauncher, SocialClubHelper, SteamWebHelper, GtaIV, Nostale,
              AgeOfEmpiresIIHD, WorldOfWarcraft>>

(* They are made of parts as any other rules are, and the one variable     *)
(* they name is spelled as the block has it.                               *)
ASSUME BuiltInAssumption ==
  /\ \A i \in 1 .. Len(Defaults \o Programs) : WellMade((Defaults \o Programs)[i])
  /\ Variable["FEX_X87REDUCEDPRECISION"] = "FEX_X87REDUCEDPRECISION"

BuiltInTable == BuiltIn(Defaults \o Programs)
==============================================================================
