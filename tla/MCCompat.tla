------------------------------ MODULE MCCompat ------------------------------
(* Rules, texts, programs and environments for TLC (compat.cfg). *)
EXTENDS CompatProcess

MCWord == STRING
MCWords ==
  [dxgi |-> {"dxmt", "wined3d"}, d3d9 |-> {"mtld3d", "wined3d"}, wined3d |-> {"gl", "vulkan"},
   opengl |-> {"egl", "cgl"}, dpi_aware |-> {"true", "false"},
   large_address_aware |-> {"true", "false"}, gcmouse |-> {"true", "false"},
   force_nx |-> {"true", "false"}, metal_hud |-> {"true", "false"}]

(* Two spellings of one variable. *)
MCVariable ==
  [FEX_X87REDUCEDPRECISION |-> "FEX_X87REDUCEDPRECISION", MTL_HUD_ENABLED |-> "MTL_HUD_ENABLED",
   mtl_hud_enabled |-> "MTL_HUD_ENABLED", MTL_HUD_ALIGNMENT |-> "MTL_HUD_ALIGNMENT",
   MTL_HUD_ELEMENTS |-> "MTL_HUD_ELEMENTS",
   WINE_D3D_CONFIG |-> "WINE_D3D_CONFIG", SteamAppId |-> "SteamAppId"]

Sets(name, value) == [name |-> name, value |-> value]

(* For every process: a renderer next to an entry that asks for another,   *)
(* and the HUD.                                                            *)
Everything ==
  [Gives(Turns("wined3d", "vulkan"), "metal_hud", "true") EXCEPT
     !.env = <<Sets("WINE_D3D_CONFIG", <<"renderer=gdi", "csmt=0">>)>>]
(* A game with a built-in rule: a default, one module of two, its own      *)
(* arguments alone, and text the format has to escape.                     *)
Game ==
  [Gives(Gives(Exe("GTAIV.exe"), "dxgi", Default), "metal_hud", "false") EXCEPT
     !.dlls = << <<"mshtml", "=", Default>> >>,
     !.override = << <<>> >>,
     !.arguments = << <<"-w", "indowed">>, <<"100", "%", "3B", ";">> >>,
     !.channels = << <<"+relay">>, <<"warn-heap">> >>,
     !.env = <<Sets("mtl_hud_enabled", <<"1">>)>>]
(* A Steam game with the HUD and an alignment of its own. *)
SteamGame ==
  [Gives(NewRule(SteamApp("7")), "metal_hud", "true") EXCEPT
     !.arguments = << <<"-novid">> >>, !.env = <<Sets("MTL_HUD_ALIGNMENT", <<"0">>)>>]

MCCatalog == {Everything, Game, SteamGame}

(* A file written by hand, after an old header and a blank line: a key     *)
(* twice, an unknown key, an override for a Steam app, a line with no exe, *)
(* a fingerprint for every process, an argument another one may hold.      *)
HandWritten ==
  Join(<< <<"v", "=", "1">>, <<>>,
          <<"exe", "=", "steam:", "7", ";", "arguments_override", "=", "-safe", ";", "dxgi", "=",
            "dxmt", ";", "colour", "=", "red", ";", "dxgi", "=", "wined3d">>,
          <<"dxgi", "=", "dxmt">>,
          <<"exe", "=", "GTAIV.exe", ";", "arguments", "=", "-w", ";", "env", "=",
            "MTL_HUD_ENABLED", "=", "7", "%">>,
          <<"exe", "=", "*", ";", "company", "=", "Valve Corporation", ";", "dxgi", "=", "wined3d",
            ";", "env", "=", "FEX_X87REDUCEDPRECISION", "=">> >>, "newline")
(* The same grown past the limit. *)
Long == HandWritten \o <<"newline", "exe", "=", "*", ";", "gcmouse", "=", "maybe", ";",
                           "arguments", "=", "-x">>

MCTexts == <<HandWritten, Long>>
(* Room for the first text and the start of a line. *)
MCMaxBytes == Len(HandWritten) + 4

MCImages ==
  { [exe |-> <<"GTAIV.exe">>,
     version |-> [company |-> {<<"Rockstar Games">>}, product |-> {<<"Grand Theft Auto IV">>},
                  original_filename |-> {}]],
    [exe |-> <<"steamwebhelper.exe">>,
     version |-> [company |-> {<<"Valve Corporation">>}, product |-> {<<"Steam Client WebHelper">>},
                  original_filename |-> {}]] }

(* Started with nothing; with a default's variable in the unix environment *)
(* alone, and a renderer and a HUD of the caller's in both.                *)
NoExport == [unix |-> [n \in Names |-> Absent], block |-> [v \in Blocks |-> Absent]]
MCExports ==
  { NoExport,
    [NoExport EXCEPT !.unix["FEX_X87REDUCEDPRECISION"] = <<"0">>,
                     !.unix["MTL_HUD_ENABLED"] = <<"1">>, !.block["MTL_HUD_ENABLED"] = <<"1">>,
                     !.unix["WINE_D3D_CONFIG"] = <<"renderer=gl">>,
                     !.block["WINE_D3D_CONFIG"] = <<"renderer=gl">>] }
==============================================================================
