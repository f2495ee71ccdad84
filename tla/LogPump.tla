------------------------------- MODULE LogPump -------------------------------
(***************************************************************************)
(* The log pump of a launch from Finder or the Dock (launcher/app/src,     *)
(* launch.rs).  The launcher opens a pty, starts this executable a second  *)
(* time as the pump and turns into wine, its output on the pty.  The pump  *)
(* copies what comes out of the pty into the log until wine, its parent,   *)
(* is gone, and kills wine when it gets a SIGTERM.                         *)
(*                                                                         *)
(* Wine, the programs it leaves behind with the pty still open, the pty    *)
(* itself and the user who sends the SIGTERM are modelled by what the code *)
(* relies on.  A byte is a line feed, a carriage return or plain text.     *)
(***************************************************************************)
EXTENDS Naturals, Sequences, SequencesExt

CONSTANTS
  Others,      (* programs started by wine that share its terminal            *)
  CR, LF,      (* the bytes wine writes, and ...                              *)
  Plain,       (* ... the one the others write                                *)
  PtyRoom,     (* how many bytes the pty holds                                *)
  Chunk,       (* CHUNK: how many of them a read takes                        *)
  DrainChunks, (* DRAIN_CHUNKS: how many reads are made once wine is gone     *)
  MaxSigterms, (* bound: how many SIGTERMs are sent                           *)
  MaxMishaps   (* bound: how many calls of the pump fail                      *)

Bytes == {CR, LF, Plain}

(* The drain is long enough for a full pty, and for a read lost to each    *)
(* SIGTERM (in the code 16 reads of 8192 bytes each).                      *)
ASSUME PumpAssumption ==
  /\ CR # LF /\ CR # Plain /\ LF # Plain
  /\ PtyRoom \in Nat /\ Chunk \in Nat \ {0} /\ DrainChunks \in Nat
  /\ MaxSigterms \in Nat /\ MaxMishaps \in Nat
  /\ PtyRoom >= 2
  /\ Chunk * DrainChunks >= PtyRoom + Chunk * MaxSigterms

VARIABLES
  wine,     (* the process that becomes wine, and what its pid is after that *)
  slaves,   (* who holds the pty's slave: wine and the others                *)
  masters,  (* who holds its master: the launcher ("wine") and the pump      *)
  pty,      (* what waits in the pty to be read                              *)
  pc,       (* where the pump is                                             *)
  handler,  (* the pump has its SIGTERM handler installed                    *)
  sig,      (* a SIGTERM to the pump: sent, or being handled                 *)
  gone,     (* pump: wine_gone of this turn of the loop                      *)
  drain,    (* pump: drain_left                                              *)
  held,     (* pump: pending_cr, as the text held back: a CR or none          *)
  out,      (* pump: what write_all still has to write                       *)
  logging,  (* pump: the log takes output                                    *)
  due,      (* history: the output written and not yet logged, oldest first  *)
  lost,     (* history: what the terminal discarded with its last slave       *)
  sigterms, (* how many SIGTERMs were sent                                   *)
  mishaps   (* how many mishaps have happened                                *)

process == <<wine, slaves, masters>>
copying == <<gone, drain, held, out, logging>>
history == <<due, lost>>
vars == <<wine, slaves, masters, pty, pc, handler, sig, gone, drain, held, out,
          logging, due, lost, sigterms, mishaps>>

Init ==
  /\ wine = "launching"
  /\ slaves = {} /\ masters = {}
  /\ pty = <<>>
  /\ pc = "none"
  /\ handler = FALSE
  /\ sig = "none"
  /\ gone = FALSE
  /\ drain = DrainChunks
  /\ held = <<>>
  /\ out = <<>>
  /\ logging = TRUE
  /\ due = <<>> /\ lost = <<>>
  /\ sigterms = 0
  /\ mishaps = 0

-----------------------------------------------------------------------------
(* StripCrBeforeLf *)

(* Broken: a CR held back stays held back. *)
StripHoldingOn(st, b) ==
  [held |-> IF b = CR THEN <<CR>> ELSE st.held,
   text |-> st.text \o (IF b = LF THEN <<>> ELSE st.held) \o (IF b = CR THEN <<>> ELSE <<b>>)]

(* One byte: a CR is held back until the next byte shows if an LF follows. *)
Strip(st, b) ==
  [held |-> IF b = CR THEN <<CR>> ELSE <<>>,
   text |-> st.text \o (IF b = LF THEN <<>> ELSE st.held) \o (IF b = CR THEN <<>> ELSE <<b>>)]

(* What is held back and what is stripped after each byte of a chunk. *)
Fed(cr, input) ==
  LET fed[i \in 0 .. Len(input)] ==
        IF i = 0 THEN [held |-> cr, text |-> <<>>] ELSE Strip(fed[i - 1], input[i])
  IN fed

(* Broken: forgets the CR held back by the chunk before. *)
FeedAfresh(cr, input) == Fed(<<>>, input)[Len(input)]

(* One chunk: the text it leaves for the log, and the CR it holds back. *)
Feed(cr, input) == Fed(cr, input)[Len(input)]

(* What it promises of a whole text: every CR right before an LF is gone. *)
Kept(text) ==
  LET kept[i \in 0 .. Len(text)] ==
        IF i = 0 THEN <<>>
        ELSE IF text[i] = CR /\ i < Len(text) /\ text[i + 1] = LF THEN kept[i - 1]
        ELSE kept[i - 1] \o <<text[i]>>
  IN kept

Stripped(text) == Kept(text)[Len(text)]

-----------------------------------------------------------------------------
(* Helpers *)

(* getppid() == wine *)
Alive == wine \in {"starting", "running", "failing"}

InHandler == sig = "checked"

PumpAlive == pc \notin {"none", "ended", "killed"}

Move(from, to) ==
  /\ pc = from /\ ~InHandler
  /\ pc' = to

Mishap ==
  /\ mishaps < MaxMishaps
  /\ mishaps' = mishaps + 1

(* With its last master what waits in a pty goes away. *)
CloseMaster(who) ==
  /\ masters' = masters \ {who}
  /\ pty' = IF masters \subseteq {who} THEN <<>> ELSE pty

(* With its last slave macOS discards it, whoever has the master           *)
(* (launch.rs:489).                                                        *)
CloseSlave(who) ==
  /\ slaves' = slaves \ {who}
  /\ IF slaves = {who} THEN pty' = <<>> /\ lost' = pty
                      ELSE UNCHANGED <<pty, lost>>

(* The end of the wine process, of its own or by SIGKILL. *)
WineDies ==
  /\ wine' = "gone"
  /\ masters' = masters \ {"wine"}
  /\ CloseSlave("wine")

-----------------------------------------------------------------------------
(* The launcher: exec_via_pty *)

(* openpty and spawn_pump: the pump gets the master and no slave. *)
SpawnPump ==
  /\ wine = "launching"
  /\ wine' = "starting"
  /\ slaves' = {"wine"} /\ masters' = {"wine", "pump"}
  /\ pc' = "install"
  /\ UNCHANGED <<pty, handler, sig, copying, history, sigterms, mishaps>>

(* One of the steps before the pump is up fails, and with it the launch. *)
LaunchFails ==
  /\ wine = "launching"
  /\ wine' = "gone"
  /\ UNCHANGED <<slaves, masters, pty, pc, handler, sig, copying, history, sigterms, mishaps>>

(* Broken: wine is left with the master. *)
ExecWithMaster ==
  /\ wine = "starting"
  /\ wine' = "running"
  /\ UNCHANGED <<slaves, masters, pty, pc, handler, sig, copying, history, sigterms, mishaps>>

(* The master is dropped and the process becomes wine ... *)
Exec ==
  /\ wine = "starting"
  /\ wine' = "running"
  /\ CloseMaster("wine")
  /\ UNCHANGED <<slaves, pc, handler, sig, copying, history, sigterms, mishaps>>

(* ... or, without the master too, a dup2 or the exec fails: it says so on *)
(* what is its stderr by then and in a dialog, and ends (main.rs:36).      *)
ExecFails ==
  /\ wine = "starting"
  /\ wine' = "failing"
  /\ CloseMaster("wine")
  /\ UNCHANGED <<slaves, pc, handler, sig, copying, history, sigterms, mishaps>>

-----------------------------------------------------------------------------
(* The pump: run_pump, pump, wait_for_wine *)

(* kill_wine_on_sigterm; without a handler there is only a line in the log. *)
InstallHandler ==
  /\ Move("install", "loop")
  /\ \/ handler' = TRUE /\ UNCHANGED mishaps
     \/ Mishap /\ UNCHANGED handler
  /\ UNCHANGED <<process, pty, sig, copying, history, sigterms>>

(* Broken: goes on for as long as there is output. *)
DrainForGood ==
  /\ pc = "loop" /\ ~InHandler
  /\ gone' = ~Alive
  /\ pc' = "poll"
  /\ UNCHANGED <<process, pty, handler, sig, drain, held, out, logging, history, sigterms, mishaps>>

(* The head of the loop: is wine gone, and has the drain been long enough? *)
CheckWine ==
  /\ gone' = ~Alive
  /\ \/ /\ gone' /\ drain = 0
        /\ Move("loop", "finish")
        /\ UNCHANGED drain
     \/ /\ gone' => drain > 0
        /\ Move("loop", "poll")
        /\ drain' = IF gone' THEN drain - 1 ELSE drain
  /\ UNCHANGED <<process, pty, handler, sig, held, out, logging, history, sigterms, mishaps>>

(* poll: output or a hangup, or nothing before the timeout. *)
Poll ==
  /\ \/ (pty # <<>> \/ slaves = {}) /\ Move("poll", "read")
     \/ pty = <<>> /\ slaves # {} /\ Move("poll", IF gone THEN "finish" ELSE "loop")
  /\ UNCHANGED <<process, pty, handler, sig, copying, history, sigterms, mishaps>>

(* read: up to Chunk bytes, stripped if the log still takes them. *)
Read ==
  LET n == Min({Chunk, Len(pty)})
      fed == IF logging THEN Feed(held, SubSeq(pty, 1, n))
                        ELSE [held |-> held, text |-> <<>>]
  IN /\ pty # <<>>
     /\ Move("read", IF fed.text = <<>> THEN "loop" ELSE "write")
     /\ pty' = SubSeq(pty, n + 1, Len(pty))
     /\ held' = fed.held
     /\ out' = fed.text
     /\ UNCHANGED <<process, handler, sig, gone, drain, logging, history, sigterms, mishaps>>

(* read: the end of the pty, which nobody writes to any more. *)
ReadEnd ==
  /\ pty = <<>>
  /\ Move("read", "finish")
  /\ UNCHANGED <<process, pty, handler, sig, copying, history, sigterms, mishaps>>

(* poll or read fails, and not for a signal. *)
PtyFails ==
  /\ pc \in {"poll", "read"}
  /\ Move(pc, "finish")
  /\ Mishap
  /\ UNCHANGED <<process, pty, handler, sig, copying, history, sigterms>>

(* write_all: a write takes some of what is left, or is interrupted. *)
WriteLog ==
  \E n \in 1 .. Len(out) :
    /\ Move("write", IF n = Len(out) THEN "loop" ELSE "write")
    /\ out' = SubSeq(out, n + 1, Len(out))
    /\ due' = SubSeq(due, n + 1, Len(due))
    /\ UNCHANGED <<process, pty, handler, sig, gone, drain, held, logging, lost, sigterms, mishaps>>

(* The log takes no more: from here on the output is read and dropped. *)
LogRefuses ==
  /\ Move("write", "loop")
  /\ logging' = FALSE
  /\ out' = <<>> /\ due' = <<>>
  /\ Mishap
  /\ UNCHANGED <<process, pty, handler, sig, gone, drain, held, lost, sigterms>>

(* A CR held back to the very end is logged after all: it is due unless    *)
(* the terminal discarded the LF it belonged to.                           *)
HeldIsDue == IsPrefix(held, due)

Finish ==
  /\ Move("finish", "close")
  /\ held' = <<>>
  /\ due' = IF logging /\ HeldIsDue THEN SubSeq(due, Len(held) + 1, Len(due)) ELSE due
  /\ UNCHANGED <<process, pty, handler, sig, gone, drain, out, logging, lost, sigterms, mishaps>>

(* Broken: waits for wine with the master open. *)
WaitWithMaster ==
  /\ Move("close", "wait")
  /\ UNCHANGED <<process, pty, handler, sig, copying, history, sigterms, mishaps>>

ClosePty ==
  /\ Move("close", "wait")
  /\ CloseMaster("pump")
  /\ UNCHANGED <<wine, slaves, handler, sig, copying, history, sigterms, mishaps>>

(* Broken: ends with the copy. *)
EndWithThePty ==
  /\ Move("wait", "ended")
  /\ sig' = "none"
  /\ UNCHANGED <<process, pty, handler, copying, history, sigterms, mishaps>>

WaitForWine ==
  /\ ~Alive
  /\ Move("wait", "ended")
  /\ sig' = "none"
  /\ UNCHANGED <<process, pty, handler, copying, history, sigterms, mishaps>>

-----------------------------------------------------------------------------
(* The SIGTERM *)

(* Force Quit, or anybody else. *)
SendSigterm ==
  /\ PumpAlive /\ sig = "none"
  /\ sigterms < MaxSigterms
  /\ sigterms' = sigterms + 1
  /\ sig' = "sent"
  /\ UNCHANGED <<process, pty, pc, handler, copying, history, mishaps>>

(* With no handler it ends the pump. *)
PumpDies ==
  /\ PumpAlive /\ sig = "sent" /\ ~handler
  /\ pc' = "killed"
  /\ sig' = "none"
  /\ CloseMaster("pump")
  /\ UNCHANGED <<wine, slaves, handler, copying, history, sigterms, mishaps>>

(* Broken: a call the signal cut short counts as one that failed. *)
HandlerChecksEINTR ==
  /\ PumpAlive /\ sig = "sent" /\ handler
  /\ sig' = IF Alive THEN "checked" ELSE "none"
  /\ pc' \in IF pc \in {"poll", "read"} THEN {pc, "finish"} ELSE {pc}
  /\ UNCHANGED <<process, pty, handler, copying, history, sigterms, mishaps>>

(***************************************************************************)
(* on_sigterm looks whether wine is still the parent.  The pump's main     *)
(* code stands still until the handler is through; a poll or a read that   *)
(* was under way returns EINTR then, and the loop starts over.             *)
(***************************************************************************)
HandlerChecks ==
  /\ PumpAlive /\ sig = "sent" /\ handler
  /\ sig' = IF Alive THEN "checked" ELSE "none"
  /\ pc' \in IF pc \in {"poll", "read"} THEN {pc, "loop"} ELSE {pc}
  /\ UNCHANGED <<process, pty, handler, copying, history, sigterms, mishaps>>

(* Broken: sends wine the SIGTERM, which it need not die of. *)
HandlerOnlyReports ==
  /\ InHandler
  /\ sig' = "none"
  /\ UNCHANGED <<process, pty, pc, handler, copying, history, sigterms, mishaps>>

(* It writes its line and kills the process that has wine's pid by now. *)
HandlerKills ==
  /\ InHandler
  /\ sig' = "none"
  /\ \/ Alive /\ WineDies
     \/ /\ ~Alive
        /\ wine' = IF wine = "reused" THEN "struck" ELSE wine
        /\ UNCHANGED <<slaves, masters, pty, lost>>
  /\ UNCHANGED <<pc, handler, copying, due, sigterms, mishaps>>

-----------------------------------------------------------------------------
(* Wine and the other programs on the pty *)

(* The terminal turns LF into CR LF. *)
Cooked(b) == IF b = LF THEN <<CR, LF>> ELSE <<b>>

HasRoom(b) == Len(pty) + Len(Cooked(b)) <= PtyRoom

(* A write waits for room; with no master left it fails. *)
Write(who, b) ==
  /\ who \in slaves /\ masters # {}
  /\ HasRoom(b)
  /\ pty' = pty \o Cooked(b)
  /\ due' = IF logging THEN due \o <<b>> ELSE due
  /\ UNCHANGED <<process, pc, handler, sig, copying, lost, sigterms, mishaps>>

WineWrites == wine \in {"running", "failing"} /\ \E b \in {CR, LF} : Write("wine", b)

OtherWrites(o) == Write(o, Plain)

(* A program inherits the terminal, from wine or from one that did. *)
OtherStarts(o) ==
  /\ wine \notin {"starting", "failing"} /\ slaves # {} /\ o \notin slaves
  /\ slaves' = slaves \cup {o}
  /\ UNCHANGED <<wine, masters, pty, pc, handler, sig, copying, history, sigterms, mishaps>>

(* A program, wine included, closes it or ends. *)
LetGo(who) ==
  /\ wine # "starting" /\ who \in slaves
  /\ CloseSlave(who)
  /\ UNCHANGED <<wine, masters, pc, handler, sig, copying, due, sigterms, mishaps>>

WineExits ==
  /\ wine \in {"running", "failing"}
  /\ WineDies
  /\ UNCHANGED <<pc, handler, sig, copying, due, sigterms, mishaps>>

(* The system gives wine's pid to another process. *)
PidReused ==
  /\ wine = "gone"
  /\ wine' = "reused"
  /\ UNCHANGED <<slaves, masters, pty, pc, handler, sig, copying, history, sigterms, mishaps>>

-----------------------------------------------------------------------------

Launcher == SpawnPump \/ Exec

Pump ==
  \/ InstallHandler \/ CheckWine \/ Poll \/ Read \/ ReadEnd \/ WriteLog
  \/ Finish \/ ClosePty \/ WaitForWine

Signal == PumpDies \/ HandlerChecks \/ HandlerKills

Next ==
  \/ Launcher \/ LaunchFails \/ ExecFails
  \/ Pump \/ PtyFails \/ LogRefuses
  \/ Signal \/ SendSigterm
  \/ WineWrites \/ WineExits \/ PidReused \/ LetGo("wine")
  \/ \E o \in Others : OtherWrites(o) \/ OtherStarts(o) \/ LetGo(o)

Spec == Init /\ [][Next]_vars

(***************************************************************************)
(* The launcher, the pump and a signal that was sent go on.  Wine and the  *)
(* other programs need not do anything: write, read or end.                *)
(***************************************************************************)
FairSpec == Spec /\ WF_vars(Launcher) /\ WF_vars(Pump) /\ WF_vars(Signal)

-----------------------------------------------------------------------------
(* Properties *)

(* Every variable has its type.  That of out is the size of the buffer the *)
(* strip writes into without a check of its own (launch.rs:309).           *)
TypeOK ==
  /\ wine \in {"launching", "starting", "running", "failing", "gone", "reused", "struck"}
  /\ slaves \subseteq {"wine"} \cup Others
  /\ masters \subseteq {"wine", "pump"}
  /\ pty \in Seq(Bytes) /\ Len(pty) <= PtyRoom
  /\ pc \in {"none", "install", "loop", "poll", "read", "write", "finish",
             "close", "wait", "ended", "killed"}
  /\ sig \in {"none", "sent", "checked"}
  /\ {handler, gone, logging} \subseteq BOOLEAN
  /\ held \in {<<>>, <<CR>>}
  /\ drain \in 0 .. DrainChunks
  /\ out \in Seq(Bytes) /\ Len(out) <= Chunk + 1
  /\ due \in Seq(Bytes) /\ lost \in Seq(Bytes)
  /\ sigterms \in 0 .. MaxSigterms
  /\ mishaps \in 0 .. MaxMishaps

(***************************************************************************)
(* As long as the log takes output it gets what was written, in order and  *)
(* as it was written, but for what the terminal discarded: the CR the      *)
(* terminal added to an LF is taken out again, however the reads and       *)
(* writes cut the text, and no other.                                      *)
(***************************************************************************)
LogIsWhatWasWritten ==
  logging /\ pc \in {"loop", "poll", "read", "write", "finish"} =>
    due = out \o Stripped(held \o (pty \o lost))

(***************************************************************************)
(* The pump does not stop short: unless a call fails, all wine wrote is in *)
(* the log when the copy is over, although the drain is bounded, others    *)
(* keep writing into the same pty and a SIGTERM interrupts it; or the last *)
(* slave was closed before that, and the log misses what macOS discarded   *)
(* then and nothing else (launch.rs:312, 489).                             *)
(***************************************************************************)
WineIsLoggedToTheEnd ==
  pc \in {"close", "wait", "ended"} /\ mishaps = 0 =>
    \/ \A i \in 1 .. Len(due) : due[i] = Plain
    \/ slaves = {} /\ due = Stripped(lost)

(***************************************************************************)
(* Force Quit finds the handler for as long as there is a wine to kill,    *)
(* whatever became of the pty and the log (launch.rs:250).                 *)
(***************************************************************************)
PumpOutlivesWine == handler /\ Alive => PumpAlive

(* A SIGTERM to the pump ends wine. *)
ForceQuitEndsWine == sig = "sent" /\ handler ~> ~Alive

(***************************************************************************)
(* The pump ends with wine, although other programs hold the pty open and  *)
(* write into it for ever (launch.rs:288).                                 *)
(***************************************************************************)
PumpEndsWithWine == ~Alive /\ PumpAlive ~> ~PumpAlive

(***************************************************************************)
(* Wine never waits for good for room in a pty nobody reads, be the pump   *)
(* copying, dropping the output, waiting for wine or dead (launch.rs:194). *)
(***************************************************************************)
WineStuck ==
  wine = "running" /\ "wine" \in slaves /\ masters # {} /\ ~HasRoom(LF)

WineGetsOn == WineStuck ~> ~WineStuck
==============================================================================
