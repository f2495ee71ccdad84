------------------------------- MODULE Launch -------------------------------
(***************************************************************************)
(* From a click to the game: main.rs's run and setup, what config/ does to *)
(* the game files on the way, the update check, and the fresh instances    *)
(* that a launch goes through, since no process that has shown a window    *)
(* may become wine.                                                        *)
(*                                                                         *)
(* A launch is a chain of processes of which one runs at a time.  It       *)
(* shares the game files with other launches, with the menu of the Dock    *)
(* icon and with the user's editor: Elsewhere stands for all of them.      *)
(* What follows "launch" is PrefixSession and LogPump.                     *)
(***************************************************************************)
EXTENDS Naturals, GameFiles

CONSTANTS
  There,      (* the executables that are there                               *)
  MaxOthers,  (* bound: steps of others                                       *)
  MaxMishaps  (* bound: calls that fail                                       *)

ASSUME LaunchAssumption ==
  /\ There \subseteq Exes
  /\ MaxOthers \in Nat
  /\ MaxMishaps \in Nat

VARIABLES
  pc,      (* where the process is, "between" two of them if there is none     *)
  args,    (* the command line of the process                                 *)
  gui,     (* the process is registered with the window server                *)
  name,    (* the game chosen                                                 *)
  file,    (* the game file as the process holds it                           *)
  asked,   (* how often the user had to answer a window                       *)
  goal,    (* history: what the user asked for                                *)
  others,  (* steps of others                                                 *)
  mishaps

vars == <<games, selection, pc, args, gui, name, file, asked, goal, others, mishaps>>

Args == [mode : {"play", "add", "update"}, skip : BOOLEAN,
         game : Names \cup {NoName}, exe : Exes \cup {NoExe}]
Plain == [mode |-> "play", skip |-> FALSE, game |-> NoName, exe |-> NoExe]

(* What a user asks for: a game, an executable to run once, or whatever    *)
(* the launcher makes of it.                                               *)
Goals == (Names \cup {NoName}) \X (Exes \cup {NoExe})
Game(n) == <<n, NoExe>>
Once(e) == <<NoName, e>>
Anything == <<NoName, NoExe>>

Init ==
  /\ games \in [Names -> Files \cup {NoGame}]
  /\ selection \in Names \cup {NoName}
  /\ pc = "idle"
  /\ args = Plain
  /\ gui = FALSE
  /\ name = NoName
  /\ file = NoGame
  /\ asked = 0
  /\ goal = Anything
  /\ others = 0
  /\ mishaps = 0

-----------------------------------------------------------------------------
(* Helpers *)

Move(from, to) ==
  /\ pc = from
  /\ pc' = to

(* bundle::relaunch: a fresh instance, once this process is gone. *)
Relaunch(from, line) ==
  /\ Move(from, "between")
  /\ args' = line

(* A window of AppKit registers the process. *)
Ask ==
  /\ gui' = TRUE
  /\ asked' = IF asked < 2 THEN asked + 1 ELSE asked

-----------------------------------------------------------------------------
(* The Dock menu, the Dock icon and the terminal *)

Open(line, wish) ==
  /\ Move("idle", "start")
  /\ args' = line
  /\ goal' = wish
  /\ UNCHANGED <<gui, name, file, asked, others, mishaps>>

(* select_game: the game is selected, and the app opened. *)
ChooseInDock(n) == Select(n) /\ Open(Plain, Game(n))

(* A click on the icon. *)
OpenApp == Unchanged /\ Open(Plain, IF IsFile(selection) THEN Game(selection) ELSE Anything)

NewExecutable == Unchanged /\ Open([Plain EXCEPT !.mode = "add"], Anything)
CheckForUpdates == Unchanged /\ Open([Plain EXCEPT !.mode = "update"], Anything)

(* gamelauncher --config game=n, or executable=e *)
OpenGame(n) == Unchanged /\ Open([Plain EXCEPT !.game = n], Game(n))
OpenExe(e) == Unchanged /\ Open([Plain EXCEPT !.exe = e], Once(e))

-----------------------------------------------------------------------------
(* main.rs: setup *)

(* needs_first_game *)
NeedsFirstGame == args.game = NoName /\ args.exe = NoExe /\ Saved = {}

(* What the command line asks for: the update window, and no more; the New *)
(* Executable window; or a game.                                           *)
Setup ==
  /\ \/ /\ args.mode = "update"
        /\ Move("start", "ended")
        /\ UNCHANGED <<gui, asked>>
     \/ /\ args.mode = "add" \/ (args.mode = "play" /\ NeedsFirstGame)
        /\ Move("start", "form")
        /\ Ask
     \/ /\ args.mode = "play" /\ ~NeedsFirstGame
        /\ Move("start", "choose")
        /\ UNCHANGED <<gui, asked>>
  /\ Unchanged /\ UNCHANGED <<args, name, file, goal, others, mishaps>>

(* Broken: goes on to the game in the process that showed the picker. *)
LoadedWithGui ==
  /\ Move("loaded", IF args.skip THEN "launch" ELSE "update")
  /\ Unchanged /\ UNCHANGED <<args, gui, name, file, asked, goal, others, mishaps>>

(* The config is there: on to a fresh instance after a window, else to the *)
(* update check, unless a process of this launch has been through it.      *)
Loaded ==
  /\ \/ gui /\ Relaunch("loaded", args)
     \/ /\ ~gui
        /\ Move("loaded", IF args.skip THEN "launch" ELSE "update")
        /\ UNCHANGED args
  /\ Unchanged /\ UNCHANGED <<gui, name, file, asked, goal, others, mishaps>>

(* Broken: the fresh instance checks again. *)
CheckUpdateAgain ==
  /\ \/ Move("update", "launch") /\ UNCHANGED <<args, gui>>
     \/ gui' = TRUE /\ Relaunch("update", args)
  /\ Unchanged /\ UNCHANGED <<name, file, asked, goal, others, mishaps>>

(* update::check(false).  No check is due, or possible; or one runs, which *)
(* registers the process, and ends in its own time or at SILENT_TIMEOUT.   *)
CheckUpdate ==
  /\ \/ Move("update", "launch") /\ UNCHANGED <<args, gui>>
     \/ gui' = TRUE /\ Relaunch("update", [args EXCEPT !.skip = TRUE])
  /\ Unchanged /\ UNCHANGED <<name, file, asked, goal, others, mishaps>>

(* launch: the process becomes wine. *)
BecomeWine ==
  /\ Move("launch", "playing")
  /\ Unchanged /\ UNCHANGED <<args, gui, name, file, asked, goal, others, mishaps>>

-----------------------------------------------------------------------------
(* config::add_game *)

(* Broken: passes the executable on as a game. *)
AnswerFormAsGame ==
  /\ \/ Move("form", "ended") /\ UNCHANGED <<args, goal>>
     \/ \E e \in There :
          /\ Relaunch("form", [Plain EXCEPT !.game = e])
          /\ goal' = Once(e)
  /\ Unchanged /\ UNCHANGED <<gui, name, file, asked, others, mishaps>>

(* The user closes the window, or runs an executable once ... *)
AnswerForm ==
  /\ \/ Move("form", "ended") /\ UNCHANGED <<args, goal>>
     \/ \E e \in There :
          /\ Relaunch("form", [Plain EXCEPT !.exe = e])
          /\ goal' = Once(e)
  /\ Unchanged /\ UNCHANGED <<gui, name, file, asked, others, mishaps>>

(* ... or saves it as a new game, under a name that is free (GameSpec::parse). *)
SaveForm ==
  /\ Move("form", "create")
  /\ \E n \in Names \ Saved, e \in There :
       /\ name' = n
       /\ file' = GameText(e)
       /\ goal' = Game(n)
  /\ Unchanged /\ UNCHANGED <<args, gui, asked, others, mishaps>>

CreateGame ==
  /\ Move("create", "select")
  /\ Write(name, file)
  /\ UNCHANGED <<args, gui, name, file, asked, goal, others, mishaps>>

(* The fresh instance gets no arguments: the selection names the game. *)
SelectNew ==
  /\ Relaunch("select", Plain)
  /\ Select(name)
  /\ UNCHANGED <<gui, name, file, asked, goal, others, mishaps>>

(* The new game is gone by now. *)
SelectFails ==
  /\ Move("select", "failed")
  /\ ~IsFile(name)
  /\ Unchanged /\ UNCHANGED <<args, gui, name, file, asked, goal, others, mishaps>>

-----------------------------------------------------------------------------
(* Config::load_or_setup *)

(* Broken: prefers what is selected to what is asked for. *)
SelectedFirst ==
  IF IsFile(selection) THEN {selection} ELSE {args.game} \cap Saved

(* choose_game, but for the only game *)
Chosen == (IF args.game # NoName THEN {args.game} ELSE {selection}) \cap Saved

(* The override's executable, the game asked for, or the one selected ... *)
Choose ==
  /\ \/ /\ args.exe # NoExe
        /\ Move("choose", IF args.exe \in There THEN "loaded" ELSE "failed")
        /\ UNCHANGED name
     \/ /\ args.exe = NoExe
        /\ Move("choose", "read")
        /\ \E n \in Chosen : name' = n
  /\ Unchanged /\ UNCHANGED <<args, gui, file, asked, goal, others, mishaps>>

(* ... or the only one there is, which is selected from here on. *)
ChooseOnly ==
  /\ args.exe = NoExe /\ args.game = NoName /\ ~IsFile(selection)
  /\ Move("choose", "read")
  /\ \E n \in Saved :
       /\ Saved = {n}
       /\ Select(n)
       /\ name' = n
  /\ UNCHANGED <<args, gui, file, asked, goal, others, mishaps>>

(* Anything else is an error: there is nothing to start, or no one choice. *)
ChooseFails ==
  /\ args.exe = NoExe /\ Chosen = {}
  /\ args.game = NoName => ~\E n \in Names : Saved = {n}
  /\ Move("choose", "failed")
  /\ Unchanged /\ UNCHANGED <<args, gui, name, file, asked, goal, others, mishaps>>

(* load_file: a file that is gone by now is made from the template, and    *)
(* one with an error in it is left as it is.                               *)
ReadGame ==
  LET read == IF IsFile(name) THEN games[name] ELSE Template
  IN /\ file' = read
     /\ Move("read", IF read.text \in Invalid THEN "failed"
                     ELSE IF read.full THEN "resolve" ELSE "topup")
     /\ IF IsFile(name) THEN Unchanged ELSE Write(name, Template)
     /\ UNCHANGED <<args, gui, name, asked, goal, others, mishaps>>

(* top_up: the text that was read, with the missing options. *)
TopUp ==
  /\ Move("topup", "resolve")
  /\ file' = [file EXCEPT !.full = TRUE]
  /\ Write(name, file')
  /\ UNCHANGED <<args, gui, name, asked, goal, others, mishaps>>

(* resolve_game_executable: a file that names none, or a stale one *)
Resolve ==
  /\ \/ /\ Move("resolve", "loaded")
        /\ file.exe \in There
        /\ UNCHANGED <<gui, asked>>
     \/ /\ Move("resolve", "pick")
        /\ file.exe \notin There
        /\ Ask
  /\ Unchanged /\ UNCHANGED <<args, name, file, goal, others, mishaps>>

(* pick_executable: the user picks one, or cancels. *)
AnswerPicker ==
  /\ \/ Move("pick", "failed") /\ UNCHANGED file
     \/ /\ Move("pick", "save")
        /\ \E e \in There : file' = [file EXCEPT !.exe = e]
  /\ Unchanged /\ UNCHANGED <<args, gui, name, asked, goal, others, mishaps>>

(* Broken: keeps the answer to itself. *)
KeepPick ==
  /\ Move("save", "loaded")
  /\ Unchanged /\ UNCHANGED <<args, gui, name, file, asked, goal, others, mishaps>>

(* The answer goes into the text read before the window opened. *)
SavePick ==
  /\ Move("save", "loaded")
  /\ Write(name, file)
  /\ UNCHANGED <<args, gui, name, file, asked, goal, others, mishaps>>

-----------------------------------------------------------------------------
(* The rest *)

(* relaunch_after: the helper opens the app anew with the arguments. *)
Reopen ==
  /\ Move("between", "start")
  /\ gui' = FALSE
  /\ name' = NoName
  /\ file' = NoGame
  /\ Unchanged /\ UNCHANGED <<args, asked, goal, others, mishaps>>

(* A call fails (a write, the helper's start, the helper's open), and with *)
(* it the launch.                                                          *)
Fails ==
  /\ pc \in {"create", "select", "read", "topup", "save", "loaded", "update", "between"}
  /\ pc' = "failed"
  /\ mishaps < MaxMishaps
  /\ mishaps' = mishaps + 1
  /\ Unchanged /\ UNCHANGED <<args, gui, name, file, asked, goal, others>>

(* Another launch, the Dock or an editor: a file is written or removed, a  *)
(* game is selected.                                                       *)
Elsewhere ==
  /\ others < MaxOthers
  /\ others' = others + 1
  /\ \E n \in Names : Select(n) \/ \E f \in Files \cup {NoGame} : Write(n, f)
  /\ UNCHANGED <<pc, args, gui, name, file, asked, goal, mishaps>>

-----------------------------------------------------------------------------

Process ==
  \/ Setup \/ Choose \/ ChooseOnly \/ ChooseFails
  \/ ReadGame \/ TopUp \/ Resolve \/ SavePick
  \/ CreateGame \/ SelectNew \/ SelectFails
  \/ Loaded \/ CheckUpdate \/ BecomeWine \/ Reopen

User ==
  \/ OpenApp \/ NewExecutable \/ CheckForUpdates
  \/ \E n \in Names : ChooseInDock(n) \/ OpenGame(n)
  \/ \E e \in Exes : OpenExe(e)
  \/ AnswerForm \/ SaveForm \/ AnswerPicker

Next == Process \/ User \/ Fails \/ Elsewhere

Spec == Init /\ [][Next]_vars

(* A process goes on until it needs the user, and so does the helper that  *)
(* waits for it to end.  The user owes nothing, an answer least of all.    *)
FairSpec == Spec /\ WF_vars(Process)

-----------------------------------------------------------------------------
(* Properties *)

(* Every variable has its type. *)
TypeOK ==
  /\ GamesTypeOK
  /\ pc \in {"idle", "start", "form", "create", "select", "choose", "read", "topup",
             "resolve", "pick", "save", "loaded", "update", "between", "launch",
             "playing", "ended", "failed"}
  /\ args \in Args
  /\ gui \in BOOLEAN
  /\ name \in Names \cup {NoName}
  /\ file \in Files \cup {NoGame}
  /\ asked \in 0 .. 2
  /\ goal \in Goals
  /\ others \in 0 .. MaxOthers
  /\ mishaps \in 0 .. MaxMishaps

(***************************************************************************)
(* No process that registered with the window server becomes wine          *)
(* (main.rs:99), on whatever way through windows and checks it came.       *)
(***************************************************************************)
WineStartsUnregistered == pc = "playing" => ~gui

(***************************************************************************)
(* A launch whose files nobody else touches plays what the user asked for, *)
(* through every fresh instance: the game chosen, selected, named or just  *)
(* added, as its file says and with an executable that is there; or the    *)
(* executable of a one-shot command, and no game.                          *)
(***************************************************************************)
PlaysWhatWasAsked ==
  pc = "playing" /\ others = 0 =>
    /\ goal # Anything => <<name, args.exe>> = goal
    /\ IF name = NoName THEN args.exe \in There
       ELSE games[name] = file /\ file.exe \in There

(***************************************************************************)
(* Such a launch asks once: the answer given to a window outlives the      *)
(* process that showed it.                                                 *)
(***************************************************************************)
AsksOnce == others = 0 => asked < 2

(***************************************************************************)
(* Every launch comes to a game, an end, or a question to the user; fresh  *)
(* instances do not follow each other for ever.                            *)
(***************************************************************************)
LaunchGetsSomewhere == pc = "start" ~> pc \in {"form", "pick", "playing", "ended", "failed"}

(***************************************************************************)
(* executable.rs:68, "write the answer back into the game file, keeping    *)
(* its comments and layout intact": the picker's write changes nothing of  *)
(* a game file but the executable.  It fails, see README.md.               *)
(***************************************************************************)
OtherTextIsKept ==
  [][SavePick => \A n \in Names : IsFile(n) => games'[n].text = games[n].text]_vars
==============================================================================
