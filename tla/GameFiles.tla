------------------------------ MODULE GameFiles ------------------------------
(***************************************************************************)
(* The saved games of launcher/core/src/games.rs: one file per game and    *)
(* the selection, which names the one a plain launch starts.  Files are    *)
(* written whole here; AtomicFile is about how.                            *)
(***************************************************************************)
CONSTANTS
  Names,    (* the names a game may have                                      *)
  Exes,     (* the paths an executable may have                               *)
  Texts,    (* the rest of a game file, which the launcher leaves alone       *)
  Blank,    (* that of the template                                           *)
  Invalid,  (* those the launcher refuses to read                             *)
  NoGame,   (* there is no file of that name                                  *)
  NoName,   (* nothing is selected                                            *)
  NoExe     (* the file names no executable                                   *)

ASSUME GameAssumption ==
  /\ Blank \in Texts \ Invalid
  /\ NoName \notin Names
  /\ NoGame \notin [exe : Exes \cup {NoExe}, text : Texts, full : BOOLEAN]
  /\ NoExe \notin Exes

VARIABLES
  games,    (* per name: the file                                             *)
  selection

(* full: the file mentions every option of the template. *)
Files == [exe : Exes \cup {NoExe}, text : Texts, full : BOOLEAN]

GamesTypeOK ==
  /\ games \in [Names -> Files \cup {NoGame}]
  /\ selection \in Names \cup {NoName}

Template == [exe |-> NoExe, text |-> Blank, full |-> TRUE]
GameText(e) == [Template EXCEPT !.exe = e]

IsFile(n) == n \in Names /\ games[n] # NoGame
Saved == {n \in Names : IsFile(n)}

(* create, and every other write_atomic of a game file *)
Write(n, file) ==
  /\ games' = [games EXCEPT ![n] = file]
  /\ UNCHANGED selection

(* select, the game being there *)
Select(n) ==
  /\ IsFile(n)
  /\ selection' = n
  /\ UNCHANGED games

Unchanged == UNCHANGED <<games, selection>>
==============================================================================
