---------------------------- MODULE Launch_proofs ----------------------------
(***************************************************************************)
(* Proofs about Launch, for any games, executables and texts, any number   *)
(* of steps of others and any number of failed calls.                      *)
(***************************************************************************)
EXTENDS Launch, TLAPS

(* The steps of the process and the user's answers, without the clicks     *)
(* that start a launch.                                                    *)
Click ==
  \/ OpenApp \/ NewExecutable \/ CheckForUpdates
  \/ \E n \in Names : ChooseInDock(n) \/ OpenGame(n)
  \/ \E e \in Exes : OpenExe(e)

(* The initial state has the types. *)
LEMMA InitTypeOK == Init => TypeOK
<1> SUFFICES ASSUME Init
             PROVE  TypeOK
  OBVIOUS
<1> USE LaunchAssumption, GameAssumption DEF Init
<1>1. games \in [Names -> Files \cup {NoGame}]
  BY DEF Files
<1>2. args \in Args /\ goal \in Goals
  BY DEF Args, Plain, Goals, Anything
<1>3. gui \in BOOLEAN
  BY Zenon
<1>4. QED
  BY <1>1, <1>2, <1>3 DEF TypeOK, GamesTypeOK

(* A click or a command line starts a launch with a wish of its type.      *)
LEMMA ClickTypeOK ==
  ASSUME TypeOK, Click
  PROVE  TypeOK'
<1> USE DEF TypeOK, GamesTypeOK, Unchanged, Open, Move, Select, IsFile
<1>1. Plain \in Args /\ Anything \in Goals
  BY DEF Plain, Args, Anything, Goals
<1>2. CASE OpenApp
  BY <1>1, <1>2 DEF OpenApp, Game, Goals
<1>3. CASE NewExecutable \/ CheckForUpdates
  <2>1. [Plain EXCEPT !.mode = "add"] \in Args /\ [Plain EXCEPT !.mode = "update"] \in Args
    BY DEF Plain, Args
  <2>2. QED
    BY <1>1, <1>3, <2>1 DEF NewExecutable, CheckForUpdates
<1>4. ASSUME NEW n \in Names, ChooseInDock(n) \/ OpenGame(n)
      PROVE  TypeOK'
  <2>1. [Plain EXCEPT !.game = n] \in Args /\ Game(n) \in Goals
    BY DEF Plain, Args, Game, Goals
  <2>2. QED
    BY <1>1, <1>4, <2>1 DEF ChooseInDock, OpenGame
<1>5. ASSUME NEW e \in Exes, OpenExe(e)
      PROVE  TypeOK'
  <2>1. [Plain EXCEPT !.exe = e] \in Args /\ Once(e) \in Goals
    BY DEF Plain, Args, Once, Goals
  <2>2. QED
    BY <1>5, <2>1 DEF OpenExe
<1>6. QED
  BY <1>2, <1>3, <1>4, <1>5 DEF Click

(* What the setup and the config do, a call at a time. *)
ConfigStep ==
  \/ Setup \/ Choose \/ ChooseOnly \/ ChooseFails
  \/ ReadGame \/ TopUp \/ Resolve \/ AnswerPicker \/ SavePick

(* The windows, the fresh instances, and what ends a launch. *)
WindowStep ==
  \/ AnswerForm \/ SaveForm \/ CreateGame \/ SelectNew \/ SelectFails
  \/ Loaded \/ CheckUpdate \/ BecomeWine \/ Reopen \/ Fails \/ Elsewhere

(* A step of Next is one of these.                                         *)
LEMMA Steps ==
  ASSUME Next
  PROVE  Click \/ ConfigStep \/ WindowStep
BY DEF Next, Process, User, Click, ConfigStep, WindowStep

(* A process with a game file to work on holds one. *)
HoldsFile == pc \in {"topup", "resolve", "pick", "save", "create", "select"} => file \in Files

(* A window leaves gui and asked with their types.                         *)
LEMMA AskTypeOK ==
  ASSUME TypeOK, Ask
  PROVE  gui' \in BOOLEAN /\ asked' \in 0 .. 2
<1>1. gui' \in BOOLEAN
  BY Zenon DEF Ask
<1>2. asked' \in 0 .. 2
  BY DEF Ask, TypeOK
<1>3. QED
  BY <1>1, <1>2

(* Setup and config keep the types.                                        *)
LEMMA ConfigTypeOK ==
  ASSUME TypeOK, HoldsFile, ConfigStep
  PROVE  TypeOK'
<1> USE LaunchAssumption, GameAssumption DEF TypeOK, GamesTypeOK, Unchanged, Move, Write, Select, IsFile
<1>1. CASE Setup
  BY <1>1, AskTypeOK DEF Setup
<1>2. CASE Choose
  BY <1>2 DEF Choose, Chosen, Saved
<1>3. CASE ChooseOnly
  BY <1>3 DEF ChooseOnly, Saved
<1>4. CASE ChooseFails
  BY <1>4 DEF ChooseFails
<1>5. CASE ReadGame
  <2>1. Template \in Files
    BY DEF Template, Files
  <2>2. QED
    BY <1>5, <2>1 DEF ReadGame
<1>6. CASE TopUp
  <2>1. file \in Files
    BY <1>6 DEF TopUp, HoldsFile
  <2>2. file' \in Files
    BY <1>6, <2>1 DEF TopUp, Files
  <2>3. QED
    BY <1>6, <2>2 DEF TopUp
<1>7. CASE Resolve
  BY <1>7, AskTypeOK DEF Resolve
<1>8. CASE AnswerPicker
  <2>1. file \in Files
    BY <1>8 DEF AnswerPicker, HoldsFile
  <2>2. file' \in Files
    BY <1>8, <2>1 DEF AnswerPicker, Files
  <2>3. QED
    BY <1>8, <2>2 DEF AnswerPicker
<1>9. CASE SavePick
  BY <1>9 DEF SavePick
<1>10. QED
  BY <1>1, <1>2, <1>3, <1>4, <1>5, <1>6, <1>7, <1>8, <1>9 DEF ConfigStep

(* Windows, fresh instances and ends keep the types.                       *)
LEMMA WindowTypeOK ==
  ASSUME TypeOK, WindowStep
  PROVE  TypeOK'
<1> USE LaunchAssumption, GameAssumption
    DEF TypeOK, GamesTypeOK, Unchanged, Move, Relaunch, Write, Select, IsFile
<1>1. CASE AnswerForm
  <2>1. \A e \in There : [Plain EXCEPT !.exe = e] \in Args /\ Once(e) \in Goals
    BY DEF Plain, Args, Once, Goals
  <2>2. QED
    BY <1>1, <2>1 DEF AnswerForm
<1>2. CASE SaveForm
  <2>1. \A e \in There : GameText(e) \in Files
    BY DEF GameText, Template, Files
  <2>2. \A n \in Names : Game(n) \in Goals
    BY DEF Game, Goals
  <2>3. QED
    BY <1>2, <2>1, <2>2 DEF SaveForm
<1>3. CASE CreateGame
  BY <1>3 DEF CreateGame
<1>4. CASE SelectNew
  BY <1>4 DEF SelectNew, Plain, Args
<1>5. CASE SelectFails
  BY <1>5 DEF SelectFails
<1>6. CASE Loaded
  BY <1>6 DEF Loaded
<1>7. CASE CheckUpdate
  BY <1>7, ZenonT(60) DEF CheckUpdate, Args
<1>8. CASE BecomeWine
  BY <1>8 DEF BecomeWine
<1>9. CASE Reopen
  BY <1>9 DEF Reopen
<1>10. CASE Fails
  BY <1>10 DEF Fails
<1>11. CASE Elsewhere
  BY <1>11 DEF Elsewhere
<1>12. QED
  BY <1>1, <1>2, <1>3, <1>4, <1>5, <1>6, <1>7, <1>8, <1>9, <1>10, <1>11 DEF WindowStep

(* No step comes to one that edits a game file without one in hand.        *)
LEMMA NextHoldsFile ==
  ASSUME TypeOK, HoldsFile, Next
  PROVE  HoldsFile'
<1> USE DEF HoldsFile, Move, Relaunch, Open
<1>1. CASE ReadGame
  <2>1. Template \in Files
    BY GameAssumption DEF Template, Files
  <2>2. IsFile(name) => games[name] \in Files
    BY DEF IsFile, TypeOK, GamesTypeOK
  <2>3. QED
    BY <1>1, <2>1, <2>2 DEF ReadGame
<1>2. CASE TopUp
  BY <1>2 DEF TopUp, Files
<1>3. CASE AnswerPicker
  <2>1. file \in Files /\ There \subseteq Exes
    BY <1>3, LaunchAssumption DEF AnswerPicker
  <2>2. QED
    BY <1>3, <2>1 DEF AnswerPicker, Files
<1>4. CASE SaveForm
  <2>1. \A e \in There : GameText(e) \in Files
    BY GameAssumption, LaunchAssumption DEF GameText, Template, Files
  <2>2. QED
    BY <1>4, <2>1 DEF SaveForm
<1>5. CASE ConfigStep /\ ~ReadGame /\ ~TopUp /\ ~AnswerPicker
  BY <1>5 DEF ConfigStep, Setup, Choose, ChooseOnly, ChooseFails, Resolve, SavePick
<1>6. CASE WindowStep /\ ~SaveForm
  BY <1>6 DEF WindowStep, AnswerForm, CreateGame, SelectNew, SelectFails, Loaded, CheckUpdate,
              BecomeWine, Reopen, Fails, Elsewhere
<1>7. CASE Click
  BY <1>7 DEF Click, OpenApp, NewExecutable, CheckForUpdates, ChooseInDock, OpenGame, OpenExe
<1>8. QED
  BY <1>1, <1>2, <1>3, <1>4, <1>5, <1>6, <1>7, Steps

TypeInv == TypeOK /\ HoldsFile

(* The types and the file in hand are inductive.                           *)
LEMMA NextTypeInv == TypeInv /\ [Next]_vars => TypeInv'
<1> SUFFICES ASSUME TypeInv, [Next]_vars
             PROVE  TypeInv'
  OBVIOUS
<1>1. CASE Next
  BY <1>1, Steps, ClickTypeOK, ConfigTypeOK, WindowTypeOK, NextHoldsFile DEF TypeInv
<1>2. CASE UNCHANGED vars
  BY <1>2 DEF vars, TypeInv, TypeOK, GamesTypeOK, HoldsFile, Files
<1>3. QED
  BY <1>1, <1>2

(***************************************************************************)
(* Every variable keeps its type: no step hands on a game, a command line  *)
(* or a file that the next is not written for.  It needs that a step that  *)
(* edits a game file holds one (load_file, top_up, pick_executable).       *)
(***************************************************************************)
THEOREM LaunchTypeCorrect == Spec => []TypeOK
<1>1. Init => TypeInv
  BY InitTypeOK DEF Init, TypeInv, HoldsFile
<1>2. TypeInv => TypeOK
  BY DEF TypeInv
<1>3. QED
  BY <1>1, <1>2, NextTypeInv, PTL DEF Spec

-----------------------------------------------------------------------------
(* Windows *)

(* A process that goes to the update check or beyond has shown no window:  *)
(* Loaded starts a fresh one after a window, and so does the check.        *)
GuiInv == pc \in {"update", "launch", "playing"} => ~gui

(* Windows open before the update check only.                              *)
LEMMA NextGuiInv == GuiInv /\ [Next]_vars => GuiInv'
<1> SUFFICES ASSUME GuiInv, [Next]_vars
             PROVE  GuiInv'
  OBVIOUS
<1> USE DEF GuiInv, Move, Relaunch, Open
<1>1. CASE Click
  BY <1>1 DEF Click, OpenApp, NewExecutable, CheckForUpdates, ChooseInDock, OpenGame, OpenExe
<1>2. CASE ConfigStep
  BY <1>2 DEF ConfigStep, Setup, Choose, ChooseOnly, ChooseFails, ReadGame, TopUp, Resolve,
              AnswerPicker, SavePick
<1>3. CASE Loaded
  BY <1>3 DEF Loaded
<1>4. CASE CheckUpdate
  BY <1>4 DEF CheckUpdate
<1>5. CASE WindowStep /\ ~Loaded /\ ~CheckUpdate
  BY <1>5 DEF WindowStep, AnswerForm, SaveForm, CreateGame, SelectNew, SelectFails, BecomeWine,
              Reopen, Fails, Elsewhere
<1>6. CASE UNCHANGED vars
  BY <1>6 DEF vars
<1>7. QED
  BY <1>1, <1>2, <1>3, <1>4, <1>5, <1>6, Steps

(***************************************************************************)
(* No process that registered with the window server becomes wine          *)
(* (main.rs:99), however many others write files and however many calls    *)
(* fail on its way.                                                        *)
(***************************************************************************)
THEOREM WineHasNoWindows == Spec => []WineStartsUnregistered
<1>1. Init => GuiInv
  BY DEF Init, GuiInv
<1>2. GuiInv => WineStartsUnregistered
  BY DEF GuiInv, WineStartsUnregistered
<1>3. QED
  BY <1>1, <1>2, NextGuiInv, PTL DEF Spec

-----------------------------------------------------------------------------
(* A launch whose files nobody else touches *)

(* The game that the command line and the selection name. *)
Target == IF args.game # NoName THEN args.game ELSE selection

(* The process has the game the command line asks for. *)
HasTarget == IsFile(name) /\ args.exe = NoExe /\ name = Target

(* An executable that is there has been found for what the command line    *)
(* asks for.                                                               *)
Settled ==
  \/ args.exe \in There
  \/ args.exe = NoExe /\ IsFile(Target) /\ games[Target].exe \in There

(* Until a game is chosen, the command line and the selection carry the    *)
(* wish.                                                                   *)
BeforeChoice ==
  /\ pc \in {"idle", "start", "form", "choose"} => name = NoName
  /\ pc \in {"start", "choose", "between"} /\ goal # Anything =>
       /\ goal = <<IF args.exe = NoExe THEN Target ELSE NoName, args.exe>>
       /\ args.exe = NoExe /\ args.game = NoName => IsFile(selection)

(* While its file is read and completed, the game is the one wished for.   *)
WhileReading ==
  /\ pc \in {"read", "topup", "resolve", "pick", "save"} =>
       HasTarget /\ (goal # Anything => goal = Game(name))
  /\ pc \in {"topup", "resolve", "pick"} => games[name] = file
  /\ pc = "save" => file.exe \in There

(* Once loaded, what is played is what was wished for, and it is on disk.  *)
OnceLoaded ==
  pc \in {"loaded", "update", "launch", "playing"} =>
    /\ goal # Anything => goal = <<name, args.exe>>
    /\ \/ name = NoName /\ args.exe \in There
       \/ HasTarget /\ games[name] = file /\ file.exe \in There

(* A new game is the wish from the form on.                                *)
WhileAdding ==
  /\ pc \in {"create", "select"} => name \in Names /\ goal = Game(name) /\ file.exe \in There
  /\ pc = "select" => games[name] = file

OnlyPlays ==
  pc \in {"choose", "read", "topup", "resolve", "pick", "save", "loaded", "update", "launch"}
    => args.mode = "play"

(* What a window has asked is settled when the next could ask again.       *)
Answered ==
  /\ asked \in {0, 1}
  /\ pc = "idle" => asked = 0
  /\ asked = 1 /\ pc \in {"start", "choose", "between", "read", "topup", "resolve"} =>
       args.mode = "play" /\ Settled

Route ==
  BeforeChoice /\ WhileReading /\ OnceLoaded /\ WhileAdding /\ OnlyPlays /\ Answered

(* The inductive invariant of a launch on its own. *)
RouteInv == others = 0 => Route

(* A click puts the wish into the command line or the selection.           *)
LEMMA ClickRoute ==
  ASSUME TypeInv, Route, Click
  PROVE  Route'
<1> USE GameAssumption, LaunchAssumption
    DEF Route, BeforeChoice, WhileReading, OnceLoaded, WhileAdding, OnlyPlays, Answered, Open,
        Move, Unchanged, TypeInv, TypeOK, GamesTypeOK, Target, IsFile, Anything, Plain
<1>1. CASE OpenApp
  BY <1>1 DEF OpenApp, Game
<1>2. CASE NewExecutable \/ CheckForUpdates
  BY <1>2 DEF NewExecutable, CheckForUpdates
<1>3. ASSUME NEW n \in Names, ChooseInDock(n)
      PROVE  Route'
  BY <1>3 DEF ChooseInDock, Select, Game
<1>4. ASSUME NEW n \in Names, OpenGame(n)
      PROVE  Route'
  BY <1>4 DEF OpenGame, Game
<1>5. ASSUME NEW e \in Exes, OpenExe(e)
      PROVE  Route'
  BY <1>5 DEF OpenExe, Once
<1>6. QED
  BY <1>1, <1>2, <1>3, <1>4, <1>5 DEF Click

(* Setup and config keep to the wish.                                      *)
LEMMA ConfigRoute ==
  ASSUME TypeInv, Route, ConfigStep
  PROVE  Route'
<1> USE GameAssumption, LaunchAssumption
    DEF BeforeChoice, WhileReading, OnceLoaded, WhileAdding, OnlyPlays, Answered,
        Move, Unchanged, TypeInv, TypeOK, GamesTypeOK, Target, IsFile, HasTarget, Settled
<1>1. CASE Setup
  BY <1>1 DEF Route, Setup, Ask, NeedsFirstGame, Saved
<1>2. CASE Choose
  BY <1>2 DEF Route, Choose, Chosen, Saved, Game, Anything
<1>3. CASE ChooseOnly
  BY <1>3 DEF Route, ChooseOnly, Saved, Select, Game, Anything
<1>4. CASE ReadGame
  BY <1>4 DEF Route, ReadGame, Game
<1>5. CASE TopUp
  BY <1>5 DEF Route, TopUp, Write, HoldsFile, Files
<1>6. CASE Resolve
  BY <1>6 DEF Route, Resolve, Ask, Game, HoldsFile
<1>7. CASE AnswerPicker
  BY <1>7 DEF Route, AnswerPicker, HoldsFile, Files
<1>8. CASE SavePick
  <2>1. /\ HasTarget /\ file \in Files /\ file.exe \in There
        /\ goal # Anything => goal = Game(name)
    BY <1>8 DEF Route, SavePick, HoldsFile
  <2>2. /\ UNCHANGED <<selection, args, name, file, goal, asked>>
        /\ games'[name] = file /\ pc' = "loaded"
    BY <1>8, <2>1 DEF SavePick, Write
  <2>3. file # NoGame
    BY <2>1 DEF Files
  <2>4. HasTarget'
    BY <2>1, <2>2, <2>3
  <2>5. OnceLoaded'
    BY <2>1, <2>2, <2>4 DEF Game
  <2>6. BeforeChoice' /\ WhileReading' /\ WhileAdding' /\ OnlyPlays' /\ Answered'
    BY <1>8, <2>2 DEF Route, SavePick
  <2>7. QED
    BY <2>5, <2>6 DEF Route
<1>9. CASE ChooseFails
  BY <1>9 DEF Route, ChooseFails
<1>10. QED
  BY <1>1, <1>2, <1>3, <1>4, <1>5, <1>6, <1>7, <1>8, <1>9 DEF ConfigStep

(* Windows and fresh instances hand the wish on.                           *)
LEMMA WindowRoute ==
  ASSUME TypeInv, Route, WindowStep, others' = 0
  PROVE  Route'
<1> USE GameAssumption, LaunchAssumption
    DEF BeforeChoice, WhileReading, OnceLoaded, WhileAdding, OnlyPlays, Answered,
        Move, Relaunch, Unchanged, TypeInv, TypeOK, GamesTypeOK, Target, IsFile, HasTarget, Settled
<1>1. CASE AnswerForm
  BY <1>1 DEF Route, AnswerForm, Plain, Once
<1>2. CASE SaveForm
  BY <1>2 DEF Route, SaveForm, GameText, Template, Game, Saved
<1>3. CASE CreateGame
  BY <1>3 DEF Route, CreateGame, Write, HoldsFile
<1>4. CASE SelectNew
  BY <1>4 DEF Route, SelectNew, Select, Plain, Game, HoldsFile
<1>5. CASE SelectFails
  BY <1>5 DEF Route, SelectFails
<1>6. CASE Loaded
  BY <1>6 DEF Route, Loaded
<1>7. CASE CheckUpdate
  BY <1>7 DEF Route, CheckUpdate, Args
<1>8. CASE BecomeWine
  BY <1>8 DEF Route, BecomeWine
<1>9. CASE Reopen
  BY <1>9 DEF Route, Reopen
<1>10. CASE Fails
  BY <1>10 DEF Route, Fails
<1>11. CASE Elsewhere
  BY <1>11 DEF Route, Elsewhere
<1>12. QED
  BY <1>1, <1>2, <1>3, <1>4, <1>5, <1>6, <1>7, <1>8, <1>9, <1>10, <1>11 DEF WindowStep

(* The route of a launch on its own is inductive.                          *)
LEMMA NextRouteInv ==
  ASSUME TypeInv, RouteInv, [Next]_vars
  PROVE  RouteInv'
<1> SUFFICES ASSUME others' = 0
             PROVE  Route'
  BY DEF RouteInv
<1>1. CASE Click
  BY <1>1, ClickRoute DEF Click, OpenApp, NewExecutable, CheckForUpdates, ChooseInDock, OpenGame,
     OpenExe, Open, RouteInv
<1>2. CASE ConfigStep
  BY <1>2, ConfigRoute DEF ConfigStep, Setup, Choose, ChooseOnly, ChooseFails, ReadGame, TopUp,
     Resolve, AnswerPicker, SavePick, RouteInv
<1>3. CASE WindowStep
  <2>1. others = 0
    BY <1>3 DEF WindowStep, AnswerForm, SaveForm, CreateGame, SelectNew, SelectFails, Loaded,
       CheckUpdate, BecomeWine, Reopen, Fails, Elsewhere, TypeInv, TypeOK
  <2>2. QED
    BY <1>3, <2>1, WindowRoute DEF RouteInv
<1>4. CASE UNCHANGED vars
  BY <1>4 DEF vars, RouteInv, Route, BeforeChoice, WhileReading, OnceLoaded, WhileAdding, OnlyPlays,
     Answered, Target, HasTarget, Settled, IsFile
<1>5. QED
  BY <1>1, <1>2, <1>3, <1>4, Steps

(* A launch on its own keeps its route from its first state on. *)
LEMMA RouteIsKept == Spec => [](TypeInv /\ RouteInv)
<1>1. Init => TypeInv /\ RouteInv
  <2>1. Init => TypeInv
    BY InitTypeOK DEF Init, TypeInv, HoldsFile
  <2>2. Init => RouteInv
    BY DEF Init, RouteInv, Route, BeforeChoice, WhileReading, OnceLoaded, WhileAdding, OnlyPlays,
       Answered, Anything
  <2>3. QED
    BY <2>1, <2>2
<1>2. TypeInv /\ RouteInv /\ [Next]_vars => (TypeInv /\ RouteInv)'
  BY NextTypeInv, NextRouteInv
<1>3. QED
  BY <1>1, <1>2, PTL DEF Spec

(***************************************************************************)
(* A launch whose files nobody else touches plays what the user asked for, *)
(* for any games and any number of failed calls: what setup and            *)
(* config::load_or_setup (config/mod.rs) find in the command line and in   *)
(* the selection is, in each fresh instance, still the wish.               *)
(***************************************************************************)
THEOREM LaunchPlaysTheWish == Spec => []PlaysWhatWasAsked
<1>1. TypeInv /\ RouteInv => PlaysWhatWasAsked
  BY GameAssumption DEF RouteInv, Route, OnceLoaded, HasTarget, IsFile, PlaysWhatWasAsked, TypeInv, TypeOK, Goals
<1>2. QED
  BY <1>1, RouteIsKept, PTL

(***************************************************************************)
(* Such a launch asks once: an executable that was picked or given in the  *)
(* form is there for every fresh instance that bundle::relaunch starts.    *)
(***************************************************************************)
THEOREM LaunchAsksOnce == Spec => []AsksOnce
<1>1. RouteInv => AsksOnce
  BY DEF RouteInv, Route, Answered, AsksOnce
<1>2. QED
  BY <1>1, RouteIsKept, PTL
==============================================================================
