---------------------------- MODULE PrefixSession ----------------------------
(***************************************************************************)
(* The wineserver session of one prefix, and the launches that reuse it,   *)
(* stop it or boot it: session::prepare and registry::ensure of            *)
(* launcher/app/src, from the launcher's first look at the lock to the     *)
(* game running in a session.                                              *)
(*                                                                         *)
(* A launcher is one process and one launch.  Launchers share, with no     *)
(* other coordination than the wineserver lock, three things on disk: the  *)
(* lock, user.reg and the session stamp.  The wineserver, `wineserver -k`, *)
(* `wine reg add` and the game are other programs, modelled by what the    *)
(* launcher's code relies on.                                              *)
(***************************************************************************)
EXTENDS Naturals

CONSTANTS
  Launchers,   (* the launches                                                   *)
  Terminals,   (* wine programs started outside the launcher                     *)
  Settings,    (* the registry values registry.rs keeps                          *)
  Stamped,     (* those of them the stamp records: retina mode and DPI           *)
  Values,      (* the values a setting may be given                              *)
  Wants,       (* what a launch may want: every setting with a value             *)
  Pasts,       (* what earlier launches, terminals and users left behind         *)
  Unset,       (* a setting user.reg does not hold                               *)
  NoFile,      (* the prefix has no user.reg yet                                 *)
  NoStamp,     (* no stamp, or one that does not parse                           *)
  NoProcess,   (* the client has no wineserver process of its own starting       *)
  Nobody,      (* the lock is free                                               *)
  Wineserver,  (* the lock is held by a running wineserver                       *)
  MaxTime,     (* bound: the last second of the clock                            *)
  MaxMishaps   (* bound: deaths, failed calls, lost saves and edits of a run     *)

Clients  == Launchers \cup Terminals
Times    == 0 .. MaxTime
Registry == [Settings -> Values \cup {Unset}]
Blank    == [s \in Settings |-> Unset]
Stamps   == [mode : [Stamped -> Values], after : Times]

(* The stamp has these values for the settings it records. *)
Matches(st, w) == \A s \in Stamped : st.mode[s] = w[s]

(* What a wineserver loads from user.reg. *)
Loaded(file) == IF file = NoFile THEN Blank ELSE file

(* A past: user.reg, the stamp, and the session that is up, if one is, with *)
(* the registry it booted from; what it has changed since then it has saved. *)
Past == [reg : Registry \cup {NoFile}, stamp : Stamps \cup {NoStamp},
         up : BOOLEAN, boot : Registry, vouched : BOOLEAN]

ASSUME SessionAssumption ==
  /\ Launchers \cap Terminals = {}
  /\ Nobody \notin Launchers /\ Wineserver \notin Launchers /\ Nobody # Wineserver
  /\ Stamped \subseteq Settings
  /\ Wants \subseteq [Settings -> Values]
  /\ Unset \notin Values
  /\ NoFile \notin Registry
  /\ NoStamp \notin Stamps
  /\ NoProcess \notin Times
  /\ MaxTime \in Nat /\ MaxMishaps \in Nat

ASSUME PastAssumption ==
  /\ Pasts \subseteq Past
  /\ \A past \in Pasts : past.vouched =>
       /\ past.stamp # NoStamp /\ past.reg # NoFile
       /\ Matches(past.stamp, past.reg)
       /\ past.up => Matches(past.stamp, past.boot)

VARIABLES
  now,      (* the clock, in whole seconds                                      *)
  lock,     (* who holds the wineserver lock                                    *)
  server,   (* the running wineserver: process start, registry at boot and now  *)
  reg,      (* user.reg                                                         *)
  stamp,    (* prefix-session in the support directory                          *)
  starting, (* per client: process start of the wineserver it has just spawned  *)
  pc,       (* per launcher: where it is                                        *)
  want,     (* per launcher: the values its config asks for                     *)
  seen,     (* per launcher: the server as the lock and process table showed it *)
  same,     (* per launcher: is the server it looked at still the one running?  *)
  fresh,    (* per launcher: prepare returned Session::Fresh                    *)
  text,     (* per launcher: the user.reg it is about to write                  *)
  missing,  (* per launcher: the settings it still has to `reg add`             *)
  vouched,  (* history: user.reg was brought to the stamped values under the    *)
            (* lock the stamp was written under, and no live registry moved off *)
            (* them since                                                       *)
  mishaps   (* how many mishaps have happened                                   *)

shared == <<now, lock, server, reg, stamp, starting, vouched, mishaps>>
local  == <<pc, want, seen, same, fresh, text, missing>>
vars   == <<now, lock, server, reg, stamp, starting, pc, want, seen, same,
            fresh, text, missing, vouched, mishaps>>

Phases == {"probe", "start", "decide", "stop", "lock", "stamp",   \* session::prepare
           "plan", "write", "regadd", "restop",                  \* registry::ensure
           "client", "playing", "ended", "failed", "dead"}

Sightings == [kind : {"none", "down", "unknown", "started"}, at : Times]
Sighting(kind, at) == [kind |-> kind, at |-> at]

NoServer == [started |-> 0, boot |-> Blank, live |-> Blank]

Init ==
  /\ now = 0
  /\ \E past \in Pasts :
       /\ lock = IF past.up THEN Wineserver ELSE Nobody
       /\ server = IF past.up
                   THEN [started |-> 0, boot |-> past.boot, live |-> Loaded(past.reg)]
                   ELSE NoServer
       /\ reg = past.reg /\ stamp = past.stamp
       /\ vouched = past.vouched
  /\ starting = [c \in Clients |-> NoProcess]
  /\ pc = [l \in Launchers |-> "probe"]
  /\ want \in [Launchers -> Wants]
  /\ seen = [l \in Launchers |-> Sighting("none", 0)]
  /\ same = [l \in Launchers |-> FALSE]
  /\ fresh = [l \in Launchers |-> FALSE]
  /\ text = [l \in Launchers |-> Blank]
  /\ missing = [l \in Launchers |-> {}]
  /\ mishaps = 0

-----------------------------------------------------------------------------
(* Helpers *)

Move(l, from, to) ==
  /\ pc[l] = from
  /\ pc' = [pc EXCEPT ![l] = to]

Mishap ==
  /\ mishaps < MaxMishaps
  /\ mishaps' = mishaps + 1

(* The lock goes away with the file that holds it: at a drop or a death. *)
Unlock(l) == lock' = IF lock = l THEN Nobody ELSE lock

(* Broken: looks for the value's name only. *)
MissingByName(l) == {s \in Settings : reg = NoFile \/ reg[s] = Unset}

(* The settings user.reg does not hold as the launch wants them. *)
Missing(l) == {s \in Settings : reg = NoFile \/ reg[s] # want[l][s]}

(* Broken: does not ask when the server started. *)
ReusableOfAnyAge(l) ==
  seen[l].kind = "started" /\ stamp # NoStamp /\ Matches(stamp, want[l])

(* decide(): the server seen and the stamp read say the session will do. *)
Reusable(l) ==
  /\ seen[l].kind = "started"
  /\ stamp # NoStamp
  /\ seen[l].at >= stamp.after
  /\ Matches(stamp, want[l])

(***************************************************************************)
(* `wineserver -k` signals whatever process holds the lock, and returns    *)
(* once it is gone.  A wineserver ends its session's games and saves its   *)
(* registry, unless it stalls and is killed; a launcher holding the lock   *)
(* dies of the signal.  With nobody there it only exits non-zero.          *)
(***************************************************************************)
StopHolder(l, next) ==
  /\ lock' = Nobody
  /\ server' = NoServer
  /\ same' = [m \in Launchers |-> FALSE]
  /\ pc' = [m \in Launchers |->
              IF m = l THEN next
              ELSE IF m = lock THEN "dead"
              ELSE IF lock = Wineserver /\ pc[m] = "playing" THEN "ended"
              ELSE pc[m]]
  /\ \/ /\ reg' = IF lock = Wineserver THEN server.live ELSE reg
        /\ UNCHANGED mishaps
     \/ /\ lock = Wineserver
        /\ reg' = reg
        /\ Mishap
  /\ UNCHANGED <<now, stamp, starting, want, seen, fresh, text, missing, vouched>>

-----------------------------------------------------------------------------
(* session::prepare *)

(* F_GETLK names the holder; only a wineserver has a start time to read. *)
ServerPid(l) ==
  /\ \/ /\ lock = Wineserver
        /\ Move(l, "probe", "start")
        /\ same' = [same EXCEPT ![l] = TRUE]
        /\ UNCHANGED seen
     \/ /\ lock # Wineserver
        /\ Move(l, "probe", "decide")
        /\ seen' = [seen EXCEPT ![l] =
                      Sighting(IF lock = Nobody THEN "down" ELSE "unknown", 0)]
        /\ UNCHANGED same
  /\ UNCHANGED <<shared, want, fresh, text, missing>>

(* The process table, read after the lock: the process may be gone by now. *)
ProcessStart(l) ==
  /\ Move(l, "start", "decide")
  /\ seen' = [seen EXCEPT ![l] = IF same[l] THEN Sighting("started", server.started)
                                            ELSE Sighting("unknown", 0)]
  /\ UNCHANGED <<shared, want, same, fresh, text, missing>>

(* The stamp is read last, and the three are judged together. *)
Decide(l) ==
  /\ \/ /\ seen[l].kind = "down"
        /\ Move(l, "decide", "lock")
     \/ /\ Reusable(l)
        /\ Move(l, "decide", "plan")
     \/ /\ seen[l].kind # "down" /\ ~Reusable(l)
        /\ Move(l, "decide", "stop")
  /\ seen' = [seen EXCEPT ![l] = Sighting("none", 0)]
  /\ UNCHANGED <<shared, want, same, fresh, text, missing>>

(* The stamp cannot be read, as if there were none: .ok() *)
StampUnread(l) ==
  /\ seen[l].kind # "down"
  /\ Move(l, "decide", "stop")
  /\ Mishap
  /\ seen' = [seen EXCEPT ![l] = Sighting("none", 0)]
  /\ UNCHANGED <<now, lock, server, reg, stamp, starting, vouched,
                 want, same, fresh, text, missing>>

StopServer(l) ==
  /\ pc[l] = "stop"
  /\ StopHolder(l, "lock")

(* Broken: takes a lock that is held for a free one. *)
TakeLockUnasked(l) ==
  /\ Move(l, "lock", "stamp")
  /\ lock' = l
  /\ UNCHANGED <<now, server, reg, stamp, starting, vouched, mishaps,
                 want, seen, same, fresh, text, missing>>

(* One turn of wait_for_lock that finds the lock free. *)
TakeLock(l) ==
  /\ lock = Nobody
  /\ Move(l, "lock", "stamp")
  /\ lock' = l
  /\ UNCHANGED <<now, server, reg, stamp, starting, vouched, mishaps,
                 want, seen, same, fresh, text, missing>>

(* Broken: waits without a deadline. *)
WaitForever(l) == FALSE /\ pc[l] = "lock" /\ UNCHANGED vars

(* The turn of wait_for_lock that finds the lock held past EXIT_WAIT. *)
WaitTimesOut(l) ==
  /\ lock # Nobody
  /\ Move(l, "lock", "failed")
  /\ UNCHANGED <<shared, want, seen, same, fresh, text, missing>>

(* Broken: rounds the time up. *)
WriteStampRoundedUp(l) ==
  /\ Move(l, "stamp", "plan")
  /\ stamp' = [mode |-> [s \in Stamped |-> want[l][s]], after |-> now + 1]
  /\ fresh' = [fresh EXCEPT ![l] = TRUE]
  /\ vouched' = FALSE
  /\ UNCHANGED <<now, lock, server, reg, starting, mishaps,
                 want, seen, same, text, missing>>

WriteStamp(l) ==
  /\ Move(l, "stamp", "plan")
  /\ stamp' = [mode |-> [s \in Stamped |-> want[l][s]], after |-> now]
  /\ fresh' = [fresh EXCEPT ![l] = TRUE]
  /\ vouched' = FALSE
  /\ UNCHANGED <<now, lock, server, reg, starting, mishaps,
                 want, seen, same, text, missing>>

(* Any call of prepare that fails ends the launch, and the lock with it. *)
PrepareFails(l) ==
  /\ pc[l] \in {"probe", "stop", "lock", "stamp"}
  /\ pc' = [pc EXCEPT ![l] = "failed"]
  /\ Unlock(l)
  /\ Mishap
  /\ UNCHANGED <<now, server, reg, stamp, starting, vouched,
                 want, seen, same, fresh, text, missing>>

-----------------------------------------------------------------------------
(* registry::ensure *)

(* Plan::Nothing: the session, and with it the lock, is dropped. *)
PlanNothing(l) ==
  /\ Missing(l) = {}
  /\ Move(l, "plan", "client")
  /\ Unlock(l)
  /\ vouched' = (vouched \/ fresh[l])
  /\ UNCHANGED <<now, server, reg, stamp, starting, mishaps,
                 want, seen, same, fresh, text, missing>>

(* Broken: drops the session, and with it the lock, before the write. *)
PlanWriteUnlocked(l) ==
  /\ Missing(l) # {} /\ reg # NoFile /\ fresh[l]
  /\ Move(l, "plan", "write")
  /\ Unlock(l)
  /\ text' = [text EXCEPT ![l] =
                [s \in Settings |-> IF s \in Missing(l) THEN want[l][s] ELSE reg[s]]]
  /\ missing' = [missing EXCEPT ![l] = Missing(l)]
  /\ UNCHANGED <<now, server, reg, stamp, starting, vouched, mishaps,
                 want, seen, same, fresh>>

(* Plan::WriteFile: the new text is made from the user.reg just read. *)
PlanWrite(l) ==
  /\ Missing(l) # {} /\ reg # NoFile /\ fresh[l]
  /\ Move(l, "plan", "write")
  /\ text' = [text EXCEPT ![l] =
                [s \in Settings |-> IF s \in Missing(l) THEN want[l][s] ELSE reg[s]]]
  /\ missing' = [missing EXCEPT ![l] = Missing(l)]
  /\ UNCHANGED <<shared, want, seen, same, fresh>>

(* Plan::RegAdd: the lock, if held, is dropped before the first command. *)
PlanRegAdd(l) ==
  /\ Missing(l) # {} /\ (reg = NoFile \/ ~fresh[l])
  /\ Move(l, "plan", "regadd")
  /\ missing' = [missing EXCEPT ![l] = Missing(l)]
  /\ Unlock(l)
  /\ UNCHANGED <<now, server, reg, stamp, starting, vouched, mishaps,
                 want, seen, same, fresh, text>>

(* Nor can user.reg: every setting goes through reg add. *)
RegUnread(l) ==
  /\ Move(l, "plan", "regadd")
  /\ missing' = [missing EXCEPT ![l] = Settings]
  /\ Unlock(l)
  /\ Mishap
  /\ UNCHANGED <<now, server, reg, stamp, starting, vouched,
                 want, seen, same, fresh, text>>

(* user.reg is written under the lock, and the lock dropped. *)
WriteUserReg(l) ==
  /\ Move(l, "write", "client")
  /\ reg' = text[l]
  /\ Unlock(l)
  /\ vouched' = TRUE
  /\ text' = [text EXCEPT ![l] = Blank]
  /\ missing' = [missing EXCEPT ![l] = {}]
  /\ UNCHANGED <<now, server, stamp, starting, mishaps, want, seen, same, fresh>>

(* The write fails: the same settings go through reg add, without the lock. *)
WriteFails(l) ==
  /\ Move(l, "write", "regadd")
  /\ Unlock(l)
  /\ Mishap
  /\ text' = [text EXCEPT ![l] = Blank]
  /\ UNCHANGED <<now, server, reg, stamp, starting, vouched,
                 want, seen, same, fresh, missing>>

(* Broken: leaves the session reg add booted for the game. *)
KeepRegAddSession(l, left) == IF left # {} THEN "regadd" ELSE "client"

(* After the last reg add, a launch that was to boot a fresh session stops *)
(* the one reg add booted.                                                 *)
AfterRegAdd(l, left) ==
  IF left # {} THEN "regadd" ELSE IF fresh[l] THEN "restop" ELSE "client"

(* Does giving the live registry this value keep it at the stamp's? *)
KeepsStamp(s, v) == s \in Stamped => stamp # NoStamp /\ stamp.mode[s] = v

(* `wine reg add` changes the live registry of the session it finds. *)
RegAdd(l, s) ==
  /\ s \in missing[l]
  /\ lock = Wineserver
  /\ Move(l, "regadd", AfterRegAdd(l, missing[l] \ {s}))
  /\ server' = [server EXCEPT !.live[s] = want[l][s]]
  /\ missing' = [missing EXCEPT ![l] = @ \ {s}]
  /\ vouched' = (vouched /\ KeepsStamp(s, want[l][s]))
  /\ UNCHANGED <<now, lock, reg, stamp, starting, mishaps,
                 want, seen, same, fresh, text>>

(* A reg add that fails is logged, and the loop goes on. *)
RegAddFails(l, s) ==
  /\ s \in missing[l]
  /\ Move(l, "regadd", AfterRegAdd(l, missing[l] \ {s}))
  /\ missing' = [missing EXCEPT ![l] = @ \ {s}]
  /\ Mishap
  /\ UNCHANGED <<now, lock, server, reg, stamp, starting, vouched,
                 want, seen, same, fresh, text>>

StopRegAddSession(l) ==
  /\ pc[l] = "restop"
  /\ StopHolder(l, "client")

(* That stop may fail as well; this is only logged. *)
StopRegAddFails(l) ==
  /\ Move(l, "restop", "client")
  /\ Mishap
  /\ UNCHANGED <<now, lock, server, reg, stamp, starting, vouched,
                 want, seen, same, fresh, text, missing>>

-----------------------------------------------------------------------------
(* Other programs *)

(* A launcher process dies (a signal, a crash): its lock dies with it. *)
Die(l) ==
  /\ pc[l] \notin {"client", "playing", "ended", "failed", "dead"}
  /\ pc' = [pc EXCEPT ![l] = "dead"]
  /\ Unlock(l)
  /\ Mishap
  /\ UNCHANGED <<now, server, reg, stamp, starting, vouched,
                 want, seen, same, fresh, text, missing>>

(* A wine client that finds no server spawns one: the launch's reg add,    *)
(* the game the launcher turned into, or a program from a terminal.        *)
NeedsServer(c) == c \in Launchers => pc[c] \in {"regadd", "client"}

SpawnServer(c) ==
  /\ NeedsServer(c)
  /\ lock # Wineserver
  /\ starting[c] = NoProcess
  /\ starting' = [starting EXCEPT ![c] = now]
  /\ UNCHANGED <<now, lock, server, reg, stamp, vouched, mishaps, local>>

(* The new wineserver takes the lock and loads user.reg ... *)
ServerBoots(c) ==
  /\ starting[c] # NoProcess
  /\ lock = Nobody
  /\ lock' = Wineserver
  /\ server' = [started |-> starting[c], boot |-> Loaded(reg), live |-> Loaded(reg)]
  /\ starting' = [starting EXCEPT ![c] = NoProcess]
  /\ UNCHANGED <<now, reg, stamp, vouched, mishaps, local>>

(* ... or finds the lock held and exits; its client tries again. *)
ServerLosesLock(c) ==
  /\ starting[c] # NoProcess
  /\ lock # Nobody
  /\ starting' = [starting EXCEPT ![c] = NoProcess]
  /\ UNCHANGED <<now, lock, server, reg, stamp, vouched, mishaps, local>>

(* The running server saves its registry from time to time. *)
ServerSaves ==
  /\ lock = Wineserver
  /\ reg # server.live
  /\ reg' = server.live
  /\ UNCHANGED <<now, lock, server, stamp, starting, vouched, mishaps, local>>

(* With no client left it saves and exits: before a game is in it, between *)
(* two reg adds, or before the next client finds it.                       *)
ServerLeaves ==
  /\ lock = Wineserver
  /\ \A l \in Launchers : pc[l] # "playing"
  /\ lock' = Nobody
  /\ reg' = server.live
  /\ server' = NoServer
  /\ same' = [l \in Launchers |-> FALSE]
  /\ UNCHANGED <<now, stamp, starting, vouched, mishaps,
                 pc, want, seen, fresh, text, missing>>

(* The game the launcher turned into joins the session that is up. *)
Join(l) ==
  /\ lock = Wineserver
  /\ Move(l, "client", "playing")
  /\ same' = [same EXCEPT ![l] = FALSE]
  /\ UNCHANGED <<shared, want, seen, fresh, text, missing>>

GameEnds(l) ==
  /\ Move(l, "playing", "ended")
  /\ UNCHANGED <<shared, want, seen, same, fresh, text, missing>>

(* A user changes a setting in a running session, with winecfg say. *)
UserEdits(s, v) ==
  /\ lock = Wineserver
  /\ server.live[s] # v
  /\ server' = [server EXCEPT !.live[s] = v]
  /\ vouched' = (vouched /\ KeepsStamp(s, v))
  /\ Mishap
  /\ UNCHANGED <<now, lock, reg, stamp, starting, local>>

Tick ==
  /\ now < MaxTime
  /\ now' = now + 1
  /\ UNCHANGED <<lock, server, reg, stamp, starting, vouched, mishaps, local>>

-----------------------------------------------------------------------------

Prepare(l) ==
  \/ ServerPid(l) \/ ProcessStart(l) \/ Decide(l) \/ StopServer(l)
  \/ TakeLock(l) \/ WaitTimesOut(l) \/ WriteStamp(l)

Ensure(l) ==
  \/ PlanNothing(l) \/ PlanWrite(l) \/ PlanRegAdd(l) \/ WriteUserReg(l)
  \/ (\E s \in Settings : RegAdd(l, s)) \/ StopRegAddSession(l)

Boot(c) == SpawnServer(c) \/ ServerBoots(c) \/ ServerLosesLock(c)

Next ==
  \/ \E l \in Launchers :
       \/ Prepare(l) \/ Ensure(l) \/ Join(l) \/ GameEnds(l)
       \/ PrepareFails(l) \/ StampUnread(l) \/ RegUnread(l) \/ WriteFails(l)
       \/ StopRegAddFails(l) \/ Die(l)
       \/ \E s \in Settings : RegAddFails(l, s)
  \/ \E c \in Clients : Boot(c)
  \/ \E s \in Settings, v \in Values : UserEdits(s, v)
  \/ ServerSaves \/ ServerLeaves \/ Tick

Spec == Init /\ [][Next]_vars

(***************************************************************************)
(* A launcher is a running process: it goes on with whatever it can do.    *)
(* So do the wine client it starts or becomes, and the server that client  *)
(* spawns.  A client tries again with a short back-off until it finds a    *)
(* server (session.rs:242), and a server lingers for seconds (launch.rs:   *)
(* 291): a client that finds one up again and again gets to it.  Nothing   *)
(* else is owed: no game has to end, no server to leave, no terminal to    *)
(* start anything, and no mishap to happen.                                *)
(***************************************************************************)
Fairness ==
  \A l \in Launchers :
    /\ WF_vars(Prepare(l))
    /\ SF_vars(Ensure(l))
    /\ WF_vars(Boot(l))
    /\ SF_vars(Join(l))

FairSpec == Spec /\ Fairness

-----------------------------------------------------------------------------
(* Properties *)

(* Every variable has its type. *)
TypeOK ==
  /\ now \in Times
  /\ lock \in Launchers \cup {Nobody, Wineserver}
  /\ server \in [started : Times, boot : Registry, live : Registry]
  /\ reg \in Registry \cup {NoFile}
  /\ stamp \in Stamps \cup {NoStamp}
  /\ starting \in [Clients -> Times \cup {NoProcess}]
  /\ pc \in [Launchers -> Phases]
  /\ want \in [Launchers -> Wants]
  /\ seen \in [Launchers -> Sightings]
  /\ same \in [Launchers -> BOOLEAN]
  /\ fresh \in [Launchers -> BOOLEAN]
  /\ text \in [Launchers -> Registry]
  /\ missing \in [Launchers -> SUBSET Settings]
  /\ vouched \in BOOLEAN
  /\ mishaps \in 0 .. MaxMishaps

(***************************************************************************)
(* A launcher with a fresh session in hand holds the lock from the stamp   *)
(* to the registry (session.rs, Session::Fresh: "none can come up until    *)
(* the registry is written").  Two launchers therefore never stamp or      *)
(* write at the same time.                                                 *)
(***************************************************************************)
HoldsFresh(l) == pc[l] \in {"stamp", "write"} \/ (pc[l] = "plan" /\ fresh[l])

FreshHoldsLock == \A l \in Launchers : HoldsFresh(l) <=> lock = l

(***************************************************************************)
(* The user.reg a launcher writes loses nobody's change: away from the     *)
(* settings it found missing, the text it made earlier is still what is on *)
(* disk when it writes it (registry.rs, set_value: "Everything else is     *)
(* left byte for byte").                                                   *)
(***************************************************************************)
NoLostUpdate ==
  \A l \in Launchers : pc[l] = "write" =>
    /\ reg # NoFile
    /\ \A s \in Settings : text[l][s] = IF s \in missing[l] THEN want[l][s] ELSE reg[s]

(***************************************************************************)
(* What a stamp is for (session.rs:21): a session that is up booted with   *)
(* the retina mode and DPI of the stamp, once user.reg had been brought to *)
(* them under the stamp's lock, whatever launchers, terminals and          *)
(* wineservers do in between.                                              *)
(***************************************************************************)
SessionHasStampedMode ==
  lock = Wineserver /\ vouched => stamp # NoStamp /\ Matches(stamp, server.boot)

(* l decided to reuse the session, and has not got to its game yet. *)
Reusing(l) == ~fresh[l] /\ pc[l] \in {"plan", "regadd", "client"}

(***************************************************************************)
(* A decision to reuse is made from three reads at three moments (the      *)
(* lock, the process table, the stamp).  As long as the server seen first  *)
(* is the one running, the stamp on disk is the one it was judged by: no   *)
(* other launcher has restamped the prefix under it, and it did not start  *)
(* before the stamp.                                                       *)
(***************************************************************************)
ReuseStaysVouched ==
  \A l \in Launchers : Reusing(l) /\ same[l] =>
    /\ lock = Wineserver
    /\ stamp # NoStamp
    /\ Matches(stamp, want[l])
    /\ server.started >= stamp.after

(***************************************************************************)
(* A launch nobody interferes with plays with every value it wants in the  *)
(* registry, whatever stamp, user.reg and session it finds, if what was    *)
(* changed in that session is saved.  The session it boots itself has      *)
(* booted with all of them (a new prefix: reg add, then a second boot);    *)
(* one it reuses with the stamped ones, if it was vouched for, but not     *)
(* always with the others.  Terminals may boot sessions all the while.     *)
(***************************************************************************)
Alone(l) == mishaps = 0 /\ \A m \in Launchers \ {l} : pc[m] = "probe"

AloneGetsItsSettings ==
  \A l \in Launchers : pc[l] = "playing" /\ Alone(l) =>
    /\ server.live = want[l]
    /\ fresh[l] => server.boot = want[l]
    /\ vouched => \A s \in Stamped : server.boot[s] = want[l][s]

(***************************************************************************)
(* What makes the properties above inductive (PrefixSession_proofs proves  *)
(* it).  A launcher whose launch is not fresh yet has not been through the *)
(* stamp; a server is looked at only while it holds the lock, and what was *)
(* read of it stays true while it runs; a launcher about to write user.reg *)
(* holds a stamp with its own values and a text with all of them; and      *)
(* while vouched, user.reg and the live registry both hold the stamp's.    *)
(***************************************************************************)
LaunchInv ==
  \A l \in Launchers :
    /\ pc[l] \in {"probe", "start", "decide", "stop", "lock", "stamp"} => ~fresh[l]
    /\ pc[l] \in {"write", "restop"} => fresh[l]
    /\ same[l] => lock = Wineserver
    /\ pc[l] = "decide" /\ same[l] /\ seen[l].kind = "started"
         => seen[l].at = server.started
    /\ pc[l] = "write" \/ (pc[l] = "plan" /\ fresh[l])
         => stamp # NoStamp /\ Matches(stamp, want[l])
    /\ pc[l] = "write" => missing[l] = Missing(l)

VouchInv ==
  vouched =>
    /\ stamp # NoStamp
    /\ \A s \in Stamped : reg # NoFile /\ reg[s] = stamp.mode[s]
    /\ lock = Wineserver => Matches(stamp, server.boot) /\ Matches(stamp, server.live)

SessionInv ==
  FreshHoldsLock /\ NoLostUpdate /\ ReuseStaysVouched /\ LaunchInv /\ VouchInv

(***************************************************************************)
(* The lock does what PrefixLock promises: user.reg and the stamp change   *)
(* in the owner's hands only, the stamp never while a wineserver is up,    *)
(* and a wineserver runs with the user.reg that was there when it booted.  *)
(***************************************************************************)
Contract == INSTANCE PrefixLock WITH
  Owners <- Launchers \cup {Wineserver},
  Files <- Registry,
  Empty <- Blank,
  owner <- lock,
  file <- reg,
  note <- stamp,
  loaded <- IF lock = Wineserver THEN server.boot ELSE Blank

LockContract == Contract!Spec

(***************************************************************************)
(* Every launch comes to an end of its own: a game in a session, or an     *)
(* error.  Two waits could keep it from one, wait_for_lock while somebody  *)
(* else's game runs on, and a reg add or a game that finds no server.      *)
(***************************************************************************)
LaunchSettles ==
  \A l \in Launchers :
    pc[l] = "probe" ~> pc[l] \in {"playing", "ended", "failed", "dead"}

(***************************************************************************)
(* What two comments say of every session, and not only of a vouched one   *)
(* that nobody replaces.  Both fail, see README.md.                        *)
(*                                                                         *)
(* session.rs:21, "A running wineserver that started at or after that time *)
(* booted from the user.reg the launcher wrote with the stamp": the        *)
(* session a launch reuses booted with the stamped mode.                   *)
(***************************************************************************)
ReusedSessionHasStampedMode ==
  \A l \in Launchers : Reusing(l) /\ same[l] => Matches(stamp, server.boot)

(***************************************************************************)
(* registry.rs:28, "`reg add` is the fallback when a session is running,   *)
(* which then already booted with the wanted retina mode and DPI": stated  *)
(* here for sessions that keep their stamp's word only.                    *)
(***************************************************************************)
RegAddFindsWantedMode ==
  \A l \in Launchers : pc[l] = "regadd" /\ ~fresh[l] /\ lock = Wineserver /\ vouched =>
    \A s \in Stamped : server.boot[s] = want[l][s]
==============================================================================
