------------------------ MODULE PrefixSession_proofs ------------------------
(***************************************************************************)
(* Proofs about PrefixSession, for any number of launchers, terminals and  *)
(* settings, any clock and any number of mishaps.                          *)
(***************************************************************************)
EXTENDS PrefixSession, TLAPS

(* One step of one launcher, and one step of anything else. *)
LauncherStep(l) ==
  \/ Prepare(l) \/ Ensure(l) \/ Join(l) \/ GameEnds(l)
  \/ PrepareFails(l) \/ StampUnread(l) \/ RegUnread(l) \/ WriteFails(l)
  \/ StopRegAddFails(l) \/ Die(l)
  \/ \E s \in Settings : RegAddFails(l, s)

(***************************************************************************)
(* Every variable keeps its type: no handler leaves the program in a state *)
(* the others are not written for.                                         *)
(***************************************************************************)
LEMMA InitTypeOK == Init => TypeOK
<1> SUFFICES ASSUME Init
             PROVE  TypeOK
  OBVIOUS
<1> USE SessionAssumption DEF Init
<1>1. Blank \in Registry /\ 0 \in Times
  BY DEF Blank, Registry, Times
<1>2. /\ server \in [started : Times, boot : Registry, live : Registry]
      /\ lock \in Launchers \cup {Nobody, Wineserver}
      /\ reg \in Registry \cup {NoFile} /\ stamp \in Stamps \cup {NoStamp}
      /\ vouched \in BOOLEAN
  <2>1. PICK past \in Pasts :
          /\ lock = IF past.up THEN Wineserver ELSE Nobody
          /\ server = IF past.up
                      THEN [started |-> 0, boot |-> past.boot, live |-> Loaded(past.reg)]
                      ELSE NoServer
          /\ reg = past.reg /\ stamp = past.stamp
          /\ vouched = past.vouched
    BY Zenon
  <2>2. past \in Past
    BY <2>1, PastAssumption
  <2>3. /\ past.reg \in Registry \cup {NoFile} /\ past.boot \in Registry
        /\ past.stamp \in Stamps \cup {NoStamp} /\ past.vouched \in BOOLEAN
    BY <2>2 DEF Past
  <2>4. Loaded(past.reg) \in Registry
    BY <1>1, <2>3 DEF Loaded
  <2>5. vouched \in BOOLEAN
    BY <2>1, <2>3, Zenon
  <2>6. server \in [started : Times, boot : Registry, live : Registry]
    BY <1>1, <2>1, <2>3, <2>4 DEF NoServer
  <2>7. QED
    BY <2>1, <2>3, <2>5, <2>6
<1>3. seen \in [Launchers -> Sightings]
  BY <1>1 DEF Sightings, Sighting
<1>4. pc \in [Launchers -> Phases]
  BY DEF Phases
<1>5. /\ starting \in [Clients -> Times \cup {NoProcess}]
      /\ same \in [Launchers -> BOOLEAN] /\ fresh \in [Launchers -> BOOLEAN]
      /\ text \in [Launchers -> Registry]
      /\ missing \in [Launchers -> SUBSET Settings]
  BY <1>1
<1>6. now \in Times /\ mishaps \in 0 .. MaxMishaps
  BY <1>1
<1>7. QED
  BY <1>2, <1>3, <1>4, <1>5, <1>6 DEF TypeOK

(* wineserver -k keeps the types (session.rs, stop_server).                *)
LEMMA StopHolderTypeOK ==
  ASSUME TypeOK, NEW l \in Launchers, NEW next \in Phases, StopHolder(l, next)
  PROVE  TypeOK'
<1> USE SessionAssumption DEF TypeOK
<1>1. server' \in [started : Times, boot : Registry, live : Registry]
  BY DEF StopHolder, NoServer, Times, Blank, Registry
<1>2. reg' \in Registry \cup {NoFile}
  BY DEF StopHolder
<1>3. pc' \in [Launchers -> Phases]
  BY DEF StopHolder, Phases
<1>4. mishaps' \in 0 .. MaxMishaps
  BY DEF StopHolder, Mishap
<1>5. QED
  BY <1>1, <1>2, <1>3, <1>4 DEF StopHolder

(* Moving on to another phase leaves every launcher in one. *)
LEMMA MoveTypeOK ==
  ASSUME pc \in [Launchers -> Phases], NEW l \in Launchers,
         NEW from, NEW to \in Phases, Move(l, from, to)
  PROVE  pc' \in [Launchers -> Phases]
BY DEF Move

(* Each step of session::prepare keeps the types.                          *)
LEMMA PrepareTypeOK ==
  ASSUME TypeOK, NEW l \in Launchers, Prepare(l)
  PROVE  TypeOK'
<1> USE SessionAssumption DEF TypeOK, shared
<1>0. /\ Sighting("none", 0) \in Sightings
      /\ Sighting("down", 0) \in Sightings
      /\ Sighting("unknown", 0) \in Sightings
      /\ Sighting("started", server.started) \in Sightings
  BY DEF Sighting, Sightings, Times
<1>1. CASE ServerPid(l)
  <2>1. seen' \in [Launchers -> Sightings]
    BY <1>0, <1>1 DEF ServerPid
  <2>2. QED
    BY <1>1, <2>1 DEF ServerPid, Move, Phases
<1>2. CASE ProcessStart(l)
  <2>1. seen' \in [Launchers -> Sightings]
    BY <1>0, <1>2 DEF ProcessStart
  <2>2. QED
    BY <1>2, <2>1 DEF ProcessStart, Move, Phases
<1>3. CASE Decide(l)
  <2>1. seen' \in [Launchers -> Sightings]
    BY <1>0, <1>3 DEF Decide
  <2>2. pc' \in [Launchers -> Phases]
    <3>1. PICK to \in {"lock", "plan", "stop"} : Move(l, "decide", to)
      BY <1>3 DEF Decide
    <3>2. to \in Phases
      BY DEF Phases
    <3>3. QED
      BY <3>1, <3>2, MoveTypeOK
  <2>3. QED
    BY <1>3, <2>1, <2>2 DEF Decide
<1>4. CASE StopServer(l)
  BY <1>4, StopHolderTypeOK DEF StopServer, Phases
<1>5. CASE TakeLock(l)
  BY <1>5 DEF TakeLock, Move, Phases
<1>6. CASE WaitTimesOut(l)
  BY <1>6 DEF WaitTimesOut, Move, Phases
<1>7. CASE WriteStamp(l)
  <2>1. stamp' \in Stamps
    BY <1>7 DEF WriteStamp, Stamps
  <2>2. QED
    BY <1>7, <2>1 DEF WriteStamp, Move, Phases
<1>8. QED
  BY <1>1, <1>2, <1>3, <1>4, <1>5, <1>6, <1>7 DEF Prepare

(* Each step of registry::ensure keeps the types.                          *)
LEMMA EnsureTypeOK ==
  ASSUME TypeOK, NEW l \in Launchers, Ensure(l)
  PROVE  TypeOK'
<1> USE SessionAssumption DEF TypeOK, shared
<1>1. CASE PlanNothing(l)
  BY <1>1 DEF PlanNothing, Move, Unlock, Phases
<1>2. CASE PlanWrite(l)
  <2>1. text' \in [Launchers -> Registry]
    BY <1>2 DEF PlanWrite, Registry
  <2>2. QED
    BY <1>2, <2>1 DEF PlanWrite, Move, Missing, Phases
<1>3. CASE PlanRegAdd(l)
  BY <1>3 DEF PlanRegAdd, Move, Unlock, Missing, Phases
<1>4. CASE WriteUserReg(l)
  BY <1>4 DEF WriteUserReg, Move, Unlock, Phases, Blank, Registry
<1>5. ASSUME NEW s \in Settings, RegAdd(l, s)
      PROVE  TypeOK'
  <2>1. server' \in [started : Times, boot : Registry, live : Registry]
    <3>1. want[l][s] \in Values
      OBVIOUS
    <3>2. [server.live EXCEPT ![s] = want[l][s]] \in Registry
      BY <3>1 DEF Registry
    <3>3. server' = [server EXCEPT !.live = [server.live EXCEPT ![s] = want[l][s]]]
      BY <1>5 DEF RegAdd
    <3>4. QED
      BY <3>2, <3>3
  <2>2. pc' \in [Launchers -> Phases]
    BY <1>5 DEF RegAdd, Move, AfterRegAdd, Phases
  <2>3. missing' \in [Launchers -> SUBSET Settings]
    BY <1>5 DEF RegAdd
  <2>4. vouched' \in BOOLEAN
    BY <1>5 DEF RegAdd
  <2>5. QED
    BY <1>5, <2>1, <2>2, <2>3, <2>4 DEF RegAdd
<1>6. CASE StopRegAddSession(l)
  BY <1>6, StopHolderTypeOK DEF StopRegAddSession, Phases
<1>7. QED
  BY <1>1, <1>2, <1>3, <1>4, <1>5, <1>6 DEF Ensure

(* Each step of a launcher, from its start to its game, keeps the types.   *)
LEMMA LauncherStepTypeOK ==
  ASSUME TypeOK, NEW l \in Launchers, LauncherStep(l)
  PROVE  TypeOK'
<1> USE SessionAssumption DEF TypeOK, shared
<1>1. CASE Prepare(l)
  BY <1>1, PrepareTypeOK
<1>2. CASE Ensure(l)
  BY <1>2, EnsureTypeOK
<1>3. CASE Join(l) \/ GameEnds(l)
  BY <1>3 DEF Join, GameEnds, Move, Phases
<1>4. CASE PrepareFails(l) \/ Die(l)
  BY <1>4 DEF PrepareFails, Die, Mishap, Unlock, Phases
<1>5. CASE WriteFails(l)
  BY <1>5 DEF WriteFails, Move, Mishap, Unlock, Phases, Blank, Registry
<1>6. CASE StopRegAddFails(l)
  BY <1>6 DEF StopRegAddFails, Move, Mishap, Phases
<1>7. ASSUME NEW s \in Settings, RegAddFails(l, s)
      PROVE  TypeOK'
  BY <1>7 DEF RegAddFails, Move, AfterRegAdd, Mishap, Phases
<1>8. CASE StampUnread(l)
  <2>1. seen' \in [Launchers -> Sightings]
    BY <1>8 DEF StampUnread, Sighting, Sightings, Times
  <2>2. QED
    BY <1>8, <2>1 DEF StampUnread, Move, Mishap, Phases
<1>9. CASE RegUnread(l)
  BY <1>9 DEF RegUnread, Move, Mishap, Unlock, Phases
<1>10. QED
  BY <1>1, <1>2, <1>3, <1>4, <1>5, <1>6, <1>7, <1>8, <1>9 DEF LauncherStep

(* What wineserver, the user and the clock do keeps the types.             *)
LEMMA OtherStepTypeOK ==
  ASSUME TypeOK,
         \/ \E c \in Clients : Boot(c)
         \/ \E s \in Settings, v \in Values : UserEdits(s, v)
         \/ ServerSaves \/ ServerLeaves \/ Tick
  PROVE  TypeOK'
<1> USE SessionAssumption DEF TypeOK, local
<1>1. ASSUME NEW c \in Clients, SpawnServer(c)
      PROVE  TypeOK'
  BY <1>1 DEF SpawnServer
<1>2. ASSUME NEW c \in Clients, ServerBoots(c)
      PROVE  TypeOK'
  <2>1. server' \in [started : Times, boot : Registry, live : Registry]
    BY <1>2 DEF ServerBoots, Loaded, Registry, Blank
  <2>2. QED
    BY <1>2, <2>1 DEF ServerBoots
<1>3. ASSUME NEW c \in Clients, ServerLosesLock(c)
      PROVE  TypeOK'
  BY <1>3 DEF ServerLosesLock
<1>4. ASSUME NEW s \in Settings, NEW v \in Values, UserEdits(s, v)
      PROVE  TypeOK'
  <2>1. server' \in [started : Times, boot : Registry, live : Registry]
    BY <1>4 DEF UserEdits, Registry
  <2>2. QED
    BY <1>4, <2>1 DEF UserEdits, Mishap
<1>5. CASE ServerSaves
  BY <1>5 DEF ServerSaves
<1>6. CASE ServerLeaves
  BY <1>6 DEF ServerLeaves, NoServer, Times, Blank, Registry
<1>7. CASE Tick
  BY <1>7 DEF Tick, Times
<1>8. QED
  BY <1>1, <1>2, <1>3, <1>4, <1>5, <1>6, <1>7 DEF Boot

(* The types hold in every state of every behaviour. *)
THEOREM TypeCorrect == Spec => []TypeOK
<1>1. Init => TypeOK
  BY InitTypeOK
<1>2. TypeOK /\ [Next]_vars => TypeOK'
  <2> SUFFICES ASSUME TypeOK, [Next]_vars
               PROVE  TypeOK'
    OBVIOUS
  <2>1. CASE \E l \in Launchers : LauncherStep(l)
    BY <2>1, LauncherStepTypeOK
  <2>2. CASE \/ \E c \in Clients : Boot(c)
             \/ \E s \in Settings, v \in Values : UserEdits(s, v)
             \/ ServerSaves \/ ServerLeaves \/ Tick
    BY <2>2, OtherStepTypeOK
  <2>3. CASE UNCHANGED vars
    BY <2>3 DEF vars, TypeOK
  <2>4. QED
    BY <2>1, <2>2, <2>3 DEF Next, LauncherStep
<1>3. QED
  BY <1>1, <1>2, PTL DEF Spec
-----------------------------------------------------------------------------
(***************************************************************************)
(* The inductive invariant.  SessionInv is made of the safety properties   *)
(* of PrefixSession and of what they rest on, LaunchInv and VouchInv.      *)
(***************************************************************************)
LEMMA InitSessionInv == Init => SessionInv
<1> SUFFICES ASSUME Init
             PROVE  SessionInv
  OBVIOUS
<1>1. PICK past \in Pasts :
        /\ lock = IF past.up THEN Wineserver ELSE Nobody
        /\ server = IF past.up
                    THEN [started |-> 0, boot |-> past.boot, live |-> Loaded(past.reg)]
                    ELSE NoServer
        /\ reg = past.reg /\ stamp = past.stamp
        /\ vouched = past.vouched
  BY Zenon DEF Init
<1>2. VouchInv
  <2> SUFFICES ASSUME past.vouched
               PROVE  /\ stamp # NoStamp
                      /\ \A s \in Stamped : reg # NoFile /\ reg[s] = stamp.mode[s]
                      /\ lock = Wineserver =>
                           Matches(stamp, server.boot) /\ Matches(stamp, server.live)
    BY <1>1, Zenon DEF VouchInv
  <2>1. /\ past.stamp # NoStamp /\ past.reg # NoFile
        /\ Matches(past.stamp, past.reg)
        /\ past.up => Matches(past.stamp, past.boot)
    BY PastAssumption
  <2>2. lock = Wineserver => past.up
    BY <1>1, SessionAssumption
  <2>3. past.up => server.boot = past.boot /\ server.live = past.reg
    BY <1>1, <2>1 DEF Loaded
  <2>4. QED
    BY <1>1, <2>1, <2>2, <2>3 DEF Matches
<1>3. FreshHoldsLock /\ NoLostUpdate /\ ReuseStaysVouched /\ LaunchInv
  BY <1>1, SessionAssumption
  DEF Init, FreshHoldsLock, HoldsFresh, NoLostUpdate, ReuseStaysVouched, Reusing, LaunchInv
<1>4. QED
  BY <1>2, <1>3 DEF SessionInv

(* wineserver -k, which may end whoever holds the lock, keeps the          *)
(* invariant.                                                              *)
LEMMA StopHolderKeepsInv ==
  ASSUME TypeOK, SessionInv, NEW l \in Launchers, NEW next \in {"lock", "client"},
         pc[l] = (IF next = "lock" THEN "stop" ELSE "restop"),
         StopHolder(l, next)
  PROVE  SessionInv'
  BY SessionAssumption
  DEF TypeOK, SessionInv, FreshHoldsLock, HoldsFresh, NoLostUpdate,
      ReuseStaysVouched, Reusing, LaunchInv, VouchInv, Matches, Missing,
      StopHolder

(* Each step of session::prepare keeps the invariant: none stamps but      *)
(* under the lock.                                                         *)
LEMMA PrepareKeepsInv ==
  ASSUME TypeOK, SessionInv, NEW l \in Launchers, Prepare(l)
  PROVE  SessionInv'
<1> USE SessionAssumption
    DEF TypeOK, SessionInv, FreshHoldsLock, HoldsFresh, NoLostUpdate,
        ReuseStaysVouched, Reusing, LaunchInv, VouchInv, Matches, Missing
<1>1. CASE ServerPid(l)
  <2>1. CASE lock = Wineserver
    <3>1. /\ pc' = [pc EXCEPT ![l] = "start"] /\ pc[l] = "probe"
          /\ same' = [same EXCEPT ![l] = TRUE]
          /\ UNCHANGED <<shared, want, seen, fresh, text, missing>>
      BY <1>1, <2>1 DEF ServerPid, Move
    <3>2. FreshHoldsLock' /\ NoLostUpdate' /\ VouchInv'
      BY <3>1 DEF shared
    <3>3. ReuseStaysVouched'
      BY <3>1 DEF shared
    <3>4. LaunchInv'
      BY <2>1, <3>1 DEF shared
    <3>5. QED
      BY <3>2, <3>3, <3>4
  <2>2. CASE lock # Wineserver
    BY <1>1, <2>2, SMTT(60) DEF ServerPid, Move, shared, Sighting
  <2>3. QED
    BY <2>1, <2>2
<1>2. CASE ProcessStart(l)
  BY <1>2 DEF ProcessStart, Move, shared, Sighting
<1>3. CASE Decide(l)
  BY <1>3, SMTT(60) DEF Decide, Move, shared, Sighting, Reusable
<1>4. CASE StopServer(l)
  BY <1>4, StopHolderKeepsInv DEF StopServer
<1>5. CASE TakeLock(l)
  BY <1>5 DEF TakeLock, Move
<1>6. CASE WaitTimesOut(l)
  BY <1>6 DEF WaitTimesOut, Move, shared
<1>7. CASE WriteStamp(l)
  <2>1. stamp' \in Stamps
    BY <1>7 DEF WriteStamp, Stamps
  <2>2. stamp' # NoStamp /\ Matches(stamp', want[l])
    BY <1>7, <2>1 DEF WriteStamp
  <2>3. QED
    BY <1>7, <2>2 DEF WriteStamp, Move
<1>8. QED
  BY <1>1, <1>2, <1>3, <1>4, <1>5, <1>6, <1>7 DEF Prepare

(* A live registry given a value stays at the stamp's while vouched. *)
LEMMA SetLiveKeepsVouch ==
  ASSUME TypeOK, VouchInv, NEW s \in Settings, NEW v,
         lock = Wineserver, UNCHANGED <<lock, stamp, reg>>,
         server' = [server EXCEPT !.live[s] = v],
         vouched' = (vouched /\ KeepsStamp(s, v))
  PROVE  VouchInv'
<1> SUFFICES ASSUME vouched'
             PROVE  /\ stamp # NoStamp
                    /\ \A r \in Stamped : reg # NoFile /\ reg[r] = stamp.mode[r]
                    /\ Matches(stamp, server'.boot) /\ Matches(stamp, server'.live)
  BY DEF VouchInv, Matches
<1>1. vouched /\ KeepsStamp(s, v)
  BY Zenon
<1>2. server'.boot = server.boot
  BY DEF TypeOK
<1>3. server'.live = [server.live EXCEPT ![s] = v]
  BY DEF TypeOK
<1>4. server.live \in Registry
  BY DEF TypeOK
<1>5. \A r \in Stamped : server'.live[r] = IF r = s THEN v ELSE server.live[r]
  BY <1>3, <1>4, SessionAssumption DEF Registry
<1>6. QED
  BY <1>1, <1>2, <1>5 DEF VouchInv, KeepsStamp, Matches

(* Each step of registry::ensure keeps the invariant: none writes user.reg *)
(* but under its own stamp.                                                *)
LEMMA EnsureKeepsInv ==
  ASSUME TypeOK, SessionInv, NEW l \in Launchers, Ensure(l)
  PROVE  SessionInv'
<1> USE SessionAssumption
    DEF TypeOK, SessionInv, FreshHoldsLock, HoldsFresh, NoLostUpdate,
        ReuseStaysVouched, Reusing, LaunchInv, Matches, Missing
<1>1. CASE PlanNothing(l)
  BY <1>1 DEF PlanNothing, Move, Unlock, VouchInv
<1>2. CASE PlanWrite(l)
  BY <1>2 DEF PlanWrite, Move, shared, VouchInv
<1>3. CASE PlanRegAdd(l)
  BY <1>3 DEF PlanRegAdd, Move, Unlock, VouchInv
<1>4. CASE WriteUserReg(l)
  BY <1>4 DEF WriteUserReg, Move, Unlock, VouchInv
<1>5. ASSUME NEW s \in Settings, RegAdd(l, s)
      PROVE  SessionInv'
  <2>1. VouchInv'
    BY <1>5, SetLiveKeepsVouch DEF RegAdd
  <2>2. QED
    BY <1>5, <2>1 DEF RegAdd, Move, AfterRegAdd
<1>6. CASE StopRegAddSession(l)
  BY <1>6, StopHolderKeepsInv DEF StopRegAddSession
<1>7. QED
  BY <1>1, <1>2, <1>3, <1>4, <1>5, <1>6 DEF Ensure

(* Each step of a launcher, its death included, keeps the invariant.       *)
LEMMA LauncherStepKeepsInv ==
  ASSUME TypeOK, SessionInv, NEW l \in Launchers, LauncherStep(l)
  PROVE  SessionInv'
<1> USE SessionAssumption
    DEF TypeOK, SessionInv, FreshHoldsLock, HoldsFresh, NoLostUpdate,
        ReuseStaysVouched, Reusing, LaunchInv, VouchInv, Matches, Missing
<1>1. CASE Prepare(l)
  BY <1>1, PrepareKeepsInv
<1>2. CASE Ensure(l)
  BY <1>2, EnsureKeepsInv
<1>3. CASE Join(l)
  BY <1>3 DEF Join, Move, shared
<1>4. CASE GameEnds(l)
  BY <1>4 DEF GameEnds, Move, shared
<1>5. CASE PrepareFails(l)
  BY <1>5 DEF PrepareFails, Unlock
<1>6. CASE WriteFails(l)
  BY <1>6 DEF WriteFails, Move, Unlock
<1>7. CASE StopRegAddFails(l)
  BY <1>7 DEF StopRegAddFails, Move
<1>8. CASE Die(l)
  BY <1>8 DEF Die, Unlock
<1>9. ASSUME NEW s \in Settings, RegAddFails(l, s)
      PROVE  SessionInv'
  BY <1>9 DEF RegAddFails, Move, AfterRegAdd
<1>10. CASE StampUnread(l)
  BY <1>10, SMTT(60) DEF StampUnread, Move, Sighting
<1>11. CASE RegUnread(l)
  BY <1>11 DEF RegUnread, Move, Unlock
<1>12. QED
  BY <1>1, <1>2, <1>3, <1>4, <1>5, <1>6, <1>7, <1>8, <1>9, <1>10, <1>11 DEF LauncherStep

(* What wineserver, the user and the clock do keeps the invariant.         *)
LEMMA OtherStepKeepsInv ==
  ASSUME TypeOK, SessionInv,
         \/ \E c \in Clients : Boot(c)
         \/ \E s \in Settings, v \in Values : UserEdits(s, v)
         \/ ServerSaves \/ ServerLeaves \/ Tick
  PROVE  SessionInv'
<1> USE SessionAssumption
    DEF TypeOK, SessionInv, FreshHoldsLock, HoldsFresh, NoLostUpdate,
        ReuseStaysVouched, Reusing, LaunchInv, Matches, Missing
<1>1. ASSUME NEW c \in Clients, SpawnServer(c)
      PROVE  SessionInv'
  BY <1>1 DEF SpawnServer, local, VouchInv
<1>2. ASSUME NEW c \in Clients, ServerBoots(c)
      PROVE  SessionInv'
  BY <1>2 DEF ServerBoots, Loaded, local, VouchInv
<1>3. ASSUME NEW c \in Clients, ServerLosesLock(c)
      PROVE  SessionInv'
  BY <1>3 DEF ServerLosesLock, local, VouchInv
<1>4. ASSUME NEW s \in Settings, NEW v \in Values, UserEdits(s, v)
      PROVE  SessionInv'
  <2>1. VouchInv'
    BY <1>4, SetLiveKeepsVouch DEF UserEdits
  <2>2. QED
    BY <1>4, <2>1 DEF UserEdits, local
<1>5. CASE ServerSaves
  BY <1>5 DEF ServerSaves, local, VouchInv
<1>6. CASE ServerLeaves
  BY <1>6 DEF ServerLeaves, VouchInv
<1>7. CASE Tick
  BY <1>7 DEF Tick, local, VouchInv
<1>8. QED
  BY <1>1, <1>2, <1>3, <1>4, <1>5, <1>6, <1>7 DEF Boot

(* Every step keeps the invariant of the session.                          *)
LEMMA NextKeepsInv ==
  ASSUME TypeOK, SessionInv, [Next]_vars
  PROVE  SessionInv'
<1>1. CASE \E l \in Launchers : LauncherStep(l)
  BY <1>1, LauncherStepKeepsInv
<1>2. CASE \/ \E c \in Clients : Boot(c)
           \/ \E s \in Settings, v \in Values : UserEdits(s, v)
           \/ ServerSaves \/ ServerLeaves \/ Tick
  BY <1>2, OtherStepKeepsInv
<1>3. CASE UNCHANGED vars
  BY <1>3 DEF vars, SessionInv, FreshHoldsLock, HoldsFresh, NoLostUpdate,
              ReuseStaysVouched, Reusing, LaunchInv, VouchInv, Matches, Missing
<1>4. QED
  BY <1>1, <1>2, <1>3 DEF Next, LauncherStep

(* The inductive invariant holds in every state. *)
THEOREM SessionInvariant == Spec => []SessionInv
<1>1. Init => SessionInv
  BY InitSessionInv
<1>2. TypeOK /\ SessionInv /\ [Next]_vars => SessionInv'
  BY NextKeepsInv
<1>3. QED
  BY <1>1, <1>2, TypeCorrect, PTL DEF Spec

(***************************************************************************)
(* A launcher between its stamp and its registry holds the lock, and the   *)
(* lock is held by a launcher only then (session.rs, Session::Fresh).      *)
(***************************************************************************)
THEOREM LockHeldWhileFresh == Spec => []FreshHoldsLock
  BY SessionInvariant, PTL DEF SessionInv

(***************************************************************************)
(* The user.reg a launcher writes takes nobody's change back               *)
(* (registry.rs, the read in ensure and the write of Plan::WriteFile).     *)
(***************************************************************************)
THEOREM UserRegWriteIsCurrent == Spec => []NoLostUpdate
  BY SessionInvariant, PTL DEF SessionInv

(***************************************************************************)
(* A decision to reuse a session stays right for as long as that session   *)
(* lasts (session.rs, the three reads of prepare).                         *)
(***************************************************************************)
THEOREM ReuseDecisionHolds == Spec => []ReuseStaysVouched
  BY SessionInvariant, PTL DEF SessionInv

(***************************************************************************)
(* A vouched session booted with the stamped retina mode and DPI, whatever *)
(* ran in between (session.rs, what the stamp is for).                     *)
(***************************************************************************)
THEOREM StampTellsTheMode == Spec => []SessionHasStampedMode
<1>1. SessionInv => SessionHasStampedMode
  BY DEF SessionInv, VouchInv, SessionHasStampedMode
<1>2. QED
  BY <1>1, SessionInvariant, PTL
-----------------------------------------------------------------------------
(***************************************************************************)
(* PrefixSession implements PrefixLock.  The owner is the lock's holder;   *)
(* each action is one step of the contract or leaves its variables alone.  *)
(***************************************************************************)
LEMMA ContractInit == Init => Contract!Init
<1> SUFFICES ASSUME Init
             PROVE  Contract!Init
  OBVIOUS
<1>1. PICK past \in Pasts :
        /\ lock = IF past.up THEN Wineserver ELSE Nobody
        /\ server = IF past.up
                    THEN [started |-> 0, boot |-> past.boot, live |-> Loaded(past.reg)]
                    ELSE NoServer
        /\ reg = past.reg
  BY Zenon DEF Init
<1>2. past.reg \in Registry \cup {NoFile} /\ past.boot \in Registry
  BY PastAssumption DEF Past
<1>3. CASE past.up
  BY <1>1, <1>2, <1>3 DEF Contract!Init
<1>4. CASE ~past.up
  BY <1>1, <1>2, <1>4, SessionAssumption DEF Contract!Init
<1>5. QED
  BY <1>3, <1>4

(* The steps that end a holding: user.reg stays or becomes a registry. *)
LEMMA ReleaseImplements ==
  ASSUME lock # Nobody, lock' = Nobody, reg' \in Registry \cup {reg}, UNCHANGED stamp
  PROVE  Contract!Next
  BY SessionAssumption DEF Contract!Next, Contract!Release

(* The steps that touch neither lock, user.reg, stamp nor what was booted. *)
LEMMA QuietImplements ==
  ASSUME UNCHANGED <<lock, reg, stamp>>, server'.boot = server.boot
  PROVE  UNCHANGED Contract!lockVars
  BY DEF Contract!lockVars

(* A launcher's lock goes, or it had none. *)
LEMMA UnlockImplements ==
  ASSUME NEW l \in Launchers, Unlock(l), UNCHANGED <<server, reg, stamp>>
  PROVE  [Contract!Next]_Contract!lockVars
<1>1. CASE lock = l
  BY <1>1, ReleaseImplements, SessionAssumption DEF Unlock
<1>2. CASE lock # l
  BY <1>2, QuietImplements DEF Unlock
<1>3. QED
  BY <1>1, <1>2

(* wineserver -k is a step of the lock's contract, or none of its          *)
(* business.                                                               *)
LEMMA StopHolderImplements ==
  ASSUME TypeOK, NEW l \in Launchers, NEW next, StopHolder(l, next)
  PROVE  [Contract!Next]_Contract!lockVars
<1>1. CASE lock = Nobody
  BY <1>1, SessionAssumption DEF StopHolder, Contract!lockVars
<1>2. CASE lock # Nobody
  <2>1. lock' = Nobody /\ UNCHANGED stamp
    BY DEF StopHolder
  <2>2. reg' \in Registry \cup {reg}
    BY DEF StopHolder, TypeOK
  <2>3. QED
    BY <1>2, <2>1, <2>2, ReleaseImplements
<1>3. QED
  BY <1>1, <1>2

(* Each step of a launcher is one of the lock's contract, or none of its   *)
(* business.                                                               *)
LEMMA LauncherStepImplements ==
  ASSUME TypeOK, SessionInv, NEW l \in Launchers, LauncherStep(l)
  PROVE  [Contract!Next]_Contract!lockVars
<1> USE SessionAssumption
<1>1. CASE ServerPid(l) \/ ProcessStart(l) \/ Decide(l) \/ WaitTimesOut(l)
           \/ StampUnread(l) \/ PlanWrite(l) \/ Join(l) \/ GameEnds(l)
  BY <1>1, QuietImplements
  DEF ServerPid, ProcessStart, Decide, WaitTimesOut, StampUnread, PlanWrite, Join, GameEnds, shared
<1>2. CASE StopServer(l) \/ StopRegAddSession(l)
  BY <1>2, StopHolderImplements DEF StopServer, StopRegAddSession
<1>3. CASE TakeLock(l)
  BY <1>3 DEF TakeLock, Contract!Next, Contract!TakeAsLauncher
<1>4. CASE WriteStamp(l)
  <2>1. lock = l
    BY <1>4 DEF SessionInv, FreshHoldsLock, HoldsFresh, WriteStamp, Move
  <2>2. QED
    BY <1>4, <2>1 DEF WriteStamp, Contract!Next, Contract!WriteNote
<1>5. CASE PrepareFails(l) \/ PlanNothing(l) \/ PlanRegAdd(l) \/ RegUnread(l)
           \/ WriteFails(l) \/ Die(l)
  BY <1>5, UnlockImplements
  DEF PrepareFails, PlanNothing, PlanRegAdd, RegUnread, WriteFails, Die
<1>6. CASE WriteUserReg(l)
  <2>1. lock = l
    BY <1>6 DEF SessionInv, FreshHoldsLock, HoldsFresh, WriteUserReg, Move
  <2>2. reg' \in Registry
    BY <1>6 DEF WriteUserReg, TypeOK
  <2>3. QED
    BY <1>6, <2>1, <2>2, ReleaseImplements DEF WriteUserReg, Unlock
<1>7. ASSUME NEW s \in Settings, RegAdd(l, s)
      PROVE  [Contract!Next]_Contract!lockVars
  <2>1. server'.boot = server.boot
    BY <1>7 DEF RegAdd, TypeOK
  <2>2. QED
    BY <1>7, <2>1, QuietImplements DEF RegAdd
<1>8. ASSUME NEW s \in Settings, RegAddFails(l, s)
      PROVE  [Contract!Next]_Contract!lockVars
  BY <1>8, QuietImplements DEF RegAddFails
<1>9. CASE StopRegAddFails(l)
  BY <1>9, QuietImplements DEF StopRegAddFails
<1>10. QED
  BY <1>1, <1>2, <1>3, <1>4, <1>5, <1>6, <1>7, <1>8, <1>9
  DEF LauncherStep, Prepare, Ensure

(* What wineserver, the user and the clock do is a step of the lock's      *)
(* contract, or none of its business.                                      *)
LEMMA OtherStepImplements ==
  ASSUME TypeOK,
         \/ \E c \in Clients : Boot(c)
         \/ \E s \in Settings, v \in Values : UserEdits(s, v)
         \/ ServerSaves \/ ServerLeaves \/ Tick
  PROVE  [Contract!Next]_Contract!lockVars
<1> USE SessionAssumption
<1>1. ASSUME NEW c \in Clients, ServerBoots(c)
      PROVE  [Contract!Next]_Contract!lockVars
  BY <1>1 DEF ServerBoots, Loaded, Contract!Next, Contract!TakeAsServer
<1>2. ASSUME NEW c \in Clients, SpawnServer(c) \/ ServerLosesLock(c)
      PROVE  [Contract!Next]_Contract!lockVars
  BY <1>2, QuietImplements DEF SpawnServer, ServerLosesLock
<1>3. ASSUME NEW s \in Settings, NEW v \in Values, UserEdits(s, v)
      PROVE  [Contract!Next]_Contract!lockVars
  <2>1. server'.boot = server.boot
    BY <1>3 DEF UserEdits, TypeOK
  <2>2. QED
    BY <1>3, <2>1, QuietImplements DEF UserEdits
<1>4. CASE ServerSaves
  <2>1. reg' \in Registry
    BY <1>4 DEF ServerSaves, TypeOK
  <2>2. QED
    BY <1>4, <2>1 DEF ServerSaves, Contract!Next, Contract!WriteFile
<1>5. CASE ServerLeaves
  <2>1. reg' \in Registry
    BY <1>5 DEF ServerLeaves, TypeOK
  <2>2. QED
    BY <1>5, <2>1, ReleaseImplements DEF ServerLeaves
<1>6. CASE Tick
  BY <1>6, QuietImplements DEF Tick
<1>7. QED
  BY <1>1, <1>2, <1>3, <1>4, <1>5, <1>6 DEF Boot

(***************************************************************************)
(* The lock keeps its promises: every behaviour of the launchers and their *)
(* wineservers is a behaviour of PrefixLock.                               *)
(***************************************************************************)
THEOREM SessionImplementsLock == Spec => LockContract
<1>1. Init => Contract!Init
  BY ContractInit
<1>2. TypeOK /\ SessionInv /\ [Next]_vars => [Contract!Next]_Contract!lockVars
  <2> SUFFICES ASSUME TypeOK, SessionInv, [Next]_vars
               PROVE  [Contract!Next]_Contract!lockVars
    OBVIOUS
  <2>1. CASE \E l \in Launchers : LauncherStep(l)
    BY <2>1, LauncherStepImplements
  <2>2. CASE \/ \E c \in Clients : Boot(c)
             \/ \E s \in Settings, v \in Values : UserEdits(s, v)
             \/ ServerSaves \/ ServerLeaves \/ Tick
    BY <2>2, OtherStepImplements
  <2>3. CASE UNCHANGED vars
    BY <2>3, QuietImplements DEF vars
  <2>4. QED
    BY <2>1, <2>2, <2>3 DEF Next, LauncherStep
<1>3. QED
  BY <1>1, <1>2, TypeCorrect, SessionInvariant, PTL DEF Spec, LockContract, Contract!Spec

------------------------------------------------------------------------------
(***************************************************************************)
(* A launch on its own.  Until registry::ensure has read user.reg, a       *)
(* session that is up has the registry of that file; from the first        *)
(* setting it adds to its game, the registry in force has the values it is *)
(* through with, whichever server comes up or goes away; and a session the *)
(* launch finds booted once the write, or reg add and the stop after it,   *)
(* are done has booted with all of them.                                   *)
(***************************************************************************)

(* The live registry of the session that is up, or of one that boots now. *)
InForce == IF lock = Wineserver THEN server.live ELSE Loaded(reg)

Agrees(l, settings) == \A s \in settings : InForce[s] = want[l][s]

Preparing(l) == pc[l] \in {"probe", "start", "decide", "stop", "lock", "stamp", "plan"}

Course(l) ==
  /\ Preparing(l) /\ lock = Wineserver => server.live = Loaded(reg)
  /\ pc[l] \in {"plan", "write", "regadd", "restop", "client", "playing"}
       => stamp # NoStamp /\ Matches(stamp, want[l])
  /\ pc[l] = "regadd" => Agrees(l, Settings \ missing[l])
  /\ pc[l] \in {"restop", "client", "playing"} => Agrees(l, Settings)
  /\ pc[l] = "playing" => lock = Wineserver
  /\ fresh[l] /\ pc[l] \in {"client", "playing"} /\ lock = Wineserver
       => server.boot = want[l]

AloneInv == \A l \in Launchers : Alone(l) => Course(l)

-----------------------------------------------------------------------------
(* No launcher comes back to its first step, whoever is stopped: a launch  *)
(* that is alone now has been alone from the start.                        *)
LEMMA NobodyStartsAgain ==
  ASSUME TypeOK, NEW m \in Launchers, LauncherStep(m)
  PROVE  pc'[m] # "probe" /\ \A k \in Launchers : pc'[k] = "probe" => pc[k] = "probe"
<1> USE DEF TypeOK, Move
<1>1. ASSUME NEW next, next # "probe", StopHolder(m, next)
      PROVE  pc'[m] # "probe" /\ \A k \in Launchers : pc'[k] = "probe" => pc[k] = "probe"
  BY <1>1 DEF StopHolder
<1>2. CASE StopServer(m) \/ StopRegAddSession(m)
  BY <1>1, <1>2 DEF StopServer, StopRegAddSession
<1>3. CASE ServerPid(m) \/ ProcessStart(m) \/ Decide(m) \/ TakeLock(m) \/ WaitTimesOut(m)
           \/ WriteStamp(m) \/ PrepareFails(m) \/ StampUnread(m)
  BY <1>3 DEF ServerPid, ProcessStart, Decide, TakeLock, WaitTimesOut, WriteStamp, PrepareFails,
              StampUnread
<1>4. CASE PlanNothing(m) \/ PlanWrite(m) \/ PlanRegAdd(m) \/ WriteUserReg(m) \/ WriteFails(m)
           \/ RegUnread(m) \/ StopRegAddFails(m) \/ Die(m) \/ Join(m) \/ GameEnds(m)
  BY <1>4 DEF PlanNothing, PlanWrite, PlanRegAdd, WriteUserReg, WriteFails, RegUnread,
              StopRegAddFails, Die, Join, GameEnds
<1>5. ASSUME NEW s \in Settings, RegAdd(m, s) \/ RegAddFails(m, s)
      PROVE  pc'[m] # "probe" /\ \A k \in Launchers : pc'[k] = "probe" => pc[k] = "probe"
  BY <1>5 DEF RegAdd, RegAddFails, AfterRegAdd
<1>6. QED
  BY <1>2, <1>3, <1>4, <1>5 DEF LauncherStep, Prepare, Ensure

(* No mishap is forgotten. *)
LEMMA MishapsAddUp ==
  ASSUME NEW m \in Launchers, LauncherStep(m)
  PROVE  mishaps' \in {mishaps, mishaps + 1}
<1> USE DEF Mishap, shared
<1>1. CASE Prepare(m)
  BY <1>1 DEF Prepare, ServerPid, ProcessStart, Decide, StopServer, StopHolder, TakeLock,
              WaitTimesOut, WriteStamp
<1>2. CASE Ensure(m)
  BY <1>2 DEF Ensure, PlanNothing, PlanWrite, PlanRegAdd, WriteUserReg, RegAdd,
              StopRegAddSession, StopHolder
<1>3. CASE Join(m) \/ GameEnds(m) \/ PrepareFails(m) \/ StampUnread(m) \/ RegUnread(m)
           \/ WriteFails(m) \/ StopRegAddFails(m) \/ Die(m)
           \/ \E s \in Settings : RegAddFails(m, s)
  BY <1>3 DEF Join, GameEnds, PrepareFails, StampUnread, RegUnread, WriteFails, StopRegAddFails,
              Die, RegAddFails
<1>4. QED
  BY <1>1, <1>2, <1>3 DEF LauncherStep

(* While a launch is alone, the lock is its own, a wineserver's or free.   *)
LEMMA AloneWithTheLock ==
  ASSUME SessionInv, TypeOK, NEW l \in Launchers, Alone(l)
  PROVE  lock \in {l, Nobody, Wineserver}
BY DEF SessionInv, FreshHoldsLock, HoldsFresh, Alone, TypeOK, LaunchInv

(* session::prepare of a launch on its own.                                *)
LEMMA PrepareKeepsCourse ==
  ASSUME TypeOK, SessionInv, NEW l \in Launchers, Alone(l), Course(l), mishaps' = 0, Prepare(l)
  PROVE  Course(l)'
<1> USE SessionAssumption DEF Course, Preparing, TypeOK, Move
<1>1. CASE ServerPid(l) \/ ProcessStart(l) \/ WaitTimesOut(l)
  BY <1>1 DEF ServerPid, ProcessStart, WaitTimesOut, shared
<1>2. CASE TakeLock(l)
  BY <1>2 DEF TakeLock
<1>3. CASE Decide(l)
  BY <1>3 DEF Decide, Reusable, Matches, shared
<1>4. CASE StopServer(l)
  BY <1>4 DEF StopServer, StopHolder
<1>5. CASE WriteStamp(l)
  <2>1. stamp' \in Stamps /\ stamp' # NoStamp
    BY <1>5 DEF WriteStamp, Stamps
  <2>2. Matches(stamp', want[l])
    BY <1>5 DEF WriteStamp, Matches
  <2>3. lock # Wineserver
    BY <1>5 DEF WriteStamp, SessionInv, FreshHoldsLock, HoldsFresh
  <2>4. QED
    BY <1>5, <2>1, <2>2, <2>3 DEF WriteStamp, Matches
<1>6. QED
  BY <1>1, <1>2, <1>3, <1>4, <1>5 DEF Prepare

(* With nothing missing from user.reg, a session that boots from it, or is *)
(* up with its registry, has what the launch wants.                        *)
LEMMA InForceAtPlan ==
  ASSUME TypeOK, NEW l \in Launchers, Course(l), pc[l] = "plan"
  PROVE  \A s \in Settings \ Missing(l) : InForce[s] = want[l][s]
BY DEF Course, Preparing, Missing, InForce, Loaded

(* registry::ensure of a launch on its own.                                *)
LEMMA EnsureKeepsCourse ==
  ASSUME TypeOK, SessionInv, NEW l \in Launchers, Alone(l), Course(l), mishaps' = 0, Ensure(l)
  PROVE  Course(l)'
<1> USE SessionAssumption DEF TypeOK, Move, Unlock, Preparing
<1> lock \in {l, Nobody, Wineserver}
  BY AloneWithTheLock
<1>1. CASE PlanNothing(l)
  <2>1. /\ pc[l] = "plan" /\ pc'[l] = "client" /\ Missing(l) = {}
        /\ lock' = IF lock = l THEN Nobody ELSE lock
        /\ UNCHANGED <<server, reg, stamp, want, fresh>>
    BY <1>1 DEF PlanNothing
  <2>2. InForce' = InForce
    BY <2>1 DEF InForce
  <2>3. Agrees(l, Settings)'
    BY <2>1, <2>2, InForceAtPlan DEF Agrees
  <2>4. fresh[l] => lock' = Nobody
    BY <2>1 DEF SessionInv, FreshHoldsLock, HoldsFresh
  <2>5. stamp' # NoStamp /\ Matches(stamp, want[l])'
    BY <2>1 DEF Course, Matches
  <2>6. QED
    BY <2>1, <2>3, <2>4, <2>5 DEF Course
<1>2. CASE PlanWrite(l)
  BY <1>2 DEF PlanWrite, Course, Matches, shared
<1>3. CASE PlanRegAdd(l)
  <2>1. /\ pc[l] = "plan" /\ pc'[l] = "regadd" /\ missing'[l] = Missing(l)
        /\ lock' = IF lock = l THEN Nobody ELSE lock
        /\ UNCHANGED <<server, reg, stamp, want, fresh>>
    BY <1>3 DEF PlanRegAdd
  <2>2. InForce' = InForce
    BY <2>1 DEF InForce
  <2>3. Agrees(l, Settings \ missing[l])'
    BY <2>1, <2>2, InForceAtPlan DEF Agrees
  <2>4. stamp' # NoStamp /\ Matches(stamp, want[l])'
    BY <2>1 DEF Course, Matches
  <2>5. QED
    BY <2>1, <2>3, <2>4 DEF Course
<1>4. CASE WriteUserReg(l)
  <2>1. /\ pc[l] = "write" /\ pc'[l] = "client" /\ lock' = Nobody
        /\ UNCHANGED <<stamp, want, fresh>>
    BY <1>4 DEF WriteUserReg, SessionInv, FreshHoldsLock, HoldsFresh
  <2>2. \A s \in Settings : text[l][s] = want[l][s]
    BY <1>4 DEF WriteUserReg, SessionInv, LaunchInv, NoLostUpdate, Missing
  <2>3. reg' = text[l] /\ reg' # NoFile
    BY <1>4 DEF WriteUserReg
  <2>4. Agrees(l, Settings)'
    BY <2>1, <2>2, <2>3 DEF Agrees, InForce, Loaded
  <2>5. stamp' # NoStamp /\ Matches(stamp, want[l])'
    BY <2>1 DEF Course, Matches
  <2>6. QED
    BY <2>1, <2>4, <2>5 DEF Course
<1>5. ASSUME NEW s \in Settings, RegAdd(l, s)
      PROVE  Course(l)'
  <2>1. /\ pc[l] = "regadd" /\ pc'[l] = AfterRegAdd(l, missing'[l])
        /\ lock = Wineserver /\ Agrees(l, Settings \ missing[l])
        /\ UNCHANGED <<lock, stamp, want, fresh>>
    BY <1>5 DEF RegAdd, Course
  <2>2. server'.live = [server.live EXCEPT ![s] = want[l][s]] /\ server.live \in Registry
    BY <1>5 DEF RegAdd
  <2>3. \A t \in Settings : t \notin missing'[l] => server'.live[t] = want[l][t]
    <3> SUFFICES ASSUME NEW t \in Settings, t \notin missing'[l]
                 PROVE  server'.live[t] = want[l][t]
      OBVIOUS
    <3>1. CASE t = s
      BY <2>2, <3>1 DEF Registry
    <3>2. CASE t # s
      <4>1. t \notin missing[l]
        BY <1>5, <3>2 DEF RegAdd
      <4>2. server.live[t] = want[l][t]
        BY <2>1, <4>1 DEF Agrees, InForce
      <4>3. QED
        BY <2>2, <3>2, <4>2 DEF Registry
    <3>3. QED
      BY <3>1, <3>2
  <2>4. Agrees(l, Settings \ missing[l])'
    BY <2>1, <2>3 DEF Agrees, InForce
  <2>5. stamp' # NoStamp /\ Matches(stamp, want[l])'
    BY <2>1 DEF Course, Matches
  <2>6. CASE missing'[l] # {}
    <3>1. pc'[l] = "regadd"
      BY <2>1, <2>6 DEF AfterRegAdd
    <3>2. QED
      BY <2>4, <2>5, <3>1 DEF Course
  <2>7. CASE missing'[l] = {} /\ fresh[l]
    <3>1. pc'[l] = "restop"
      BY <2>1, <2>7 DEF AfterRegAdd
    <3>2. QED
      BY <2>4, <2>5, <2>7, <3>1 DEF Course
  <2>8. CASE missing'[l] = {} /\ ~fresh[l]
    <3>1. pc'[l] = "client" /\ ~fresh'[l]
      BY <2>1, <2>8 DEF AfterRegAdd
    <3>2. QED
      BY <2>4, <2>5, <2>8, <3>1 DEF Course
  <2>9. QED
    BY <2>6, <2>7, <2>8
<1>6. CASE StopRegAddSession(l)
  <2>1. pc[l] = "restop" /\ Agrees(l, Settings) /\ lock # l
    BY <1>6 DEF StopRegAddSession, Course, SessionInv, FreshHoldsLock, HoldsFresh
  <2>2. pc'[l] = "client" /\ lock' = Nobody /\ UNCHANGED <<stamp, want, fresh>>
    BY <1>6, <2>1 DEF StopRegAddSession, StopHolder
  <2>3. reg' = IF lock = Wineserver THEN server.live ELSE reg
    BY <1>6 DEF StopRegAddSession, StopHolder, Mishap, Alone
  <2>4. InForce' = InForce
    BY <2>2, <2>3 DEF InForce, Loaded, Registry
  <2>5. stamp' # NoStamp /\ Matches(stamp, want[l])'
    BY <2>1, <2>2 DEF Course, Matches
  <2>6. QED
    BY <2>1, <2>2, <2>4, <2>5 DEF Course, Agrees
<1>7. QED
  BY <1>1, <1>2, <1>3, <1>4, <1>5, <1>6 DEF Ensure

(* Every step of the launch itself.                                        *)
LEMMA OwnStepKeepsCourse ==
  ASSUME TypeOK, SessionInv, NEW l \in Launchers, Alone(l), Course(l), Alone(l)', LauncherStep(l)
  PROVE  Course(l)'
<1>1. mishaps = 0 /\ mishaps' = 0
  BY DEF Alone
<1>2. CASE Join(l)
  BY <1>2 DEF Join, Move, Course, Preparing, Agrees, InForce, Matches, TypeOK, shared
<1>3. CASE GameEnds(l)
  BY <1>3 DEF GameEnds, Move, Course, Preparing, TypeOK
<1>4. CASE PrepareFails(l) \/ StampUnread(l) \/ RegUnread(l) \/ WriteFails(l)
           \/ StopRegAddFails(l) \/ Die(l)
  BY <1>1, <1>4 DEF PrepareFails, StampUnread, RegUnread, WriteFails, StopRegAddFails, Die, Mishap
<1>5. ASSUME NEW s \in Settings, RegAddFails(l, s)
      PROVE  Course(l)'
  BY <1>1, <1>5 DEF RegAddFails, Mishap
<1>6. QED
  BY <1>1, <1>2, <1>3, <1>4, <1>5, PrepareKeepsCourse, EnsureKeepsCourse DEF LauncherStep

(* Wineservers and terminals at work around the launch.                    *)
LEMMA OtherStepKeepsCourse ==
  ASSUME TypeOK, SessionInv, NEW l \in Launchers, Alone(l), Course(l), Alone(l)',
         \/ \E c \in Clients : Boot(c)
         \/ \E s \in Settings, v \in Values : UserEdits(s, v)
         \/ ServerSaves \/ ServerLeaves \/ Tick
  PROVE  Course(l)'
<1> USE SessionAssumption DEF TypeOK, Preparing, Matches
<1>1. ASSUME NEW c \in Clients, SpawnServer(c) \/ ServerLosesLock(c)
      PROVE  Course(l)'
  BY <1>1 DEF SpawnServer, ServerLosesLock, Course, Agrees, InForce, local
<1>2. ASSUME NEW c \in Clients, ServerBoots(c)
      PROVE  Course(l)'
  <2>1. /\ lock' = Wineserver /\ server'.boot = InForce /\ server'.live = InForce
        /\ UNCHANGED <<pc, reg, stamp, fresh, want, missing>>
        /\ lock = Nobody
    BY <1>2 DEF ServerBoots, InForce, local
  <2>2. InForce' = InForce /\ InForce = Loaded(reg)
    BY <2>1 DEF InForce
  <2>3. InForce \in Registry /\ want[l] \in Registry
    BY <2>1 DEF InForce, Loaded, Registry, Blank
  <2>4. Agrees(l, Settings) => InForce = want[l]
    BY <2>3 DEF Agrees, Registry
  <2>5. QED
    BY <2>1, <2>2, <2>4 DEF Course, Agrees
<1>3. ASSUME NEW s \in Settings, NEW v \in Values, UserEdits(s, v)
      PROVE  Course(l)'
  BY <1>3 DEF UserEdits, Mishap, Alone
<1>4. CASE ServerSaves
  <2>1. /\ lock = Wineserver /\ reg' = server.live
        /\ UNCHANGED <<lock, server, pc, stamp, fresh, want, missing>>
    BY <1>4 DEF ServerSaves, local
  <2>2. Loaded(reg)' = server.live
    BY <2>1 DEF Loaded
  <2>3. QED
    BY <2>1, <2>2 DEF Course, Agrees, InForce
<1>5. CASE ServerLeaves
  <2>1. /\ lock = Wineserver /\ lock' = Nobody /\ reg' = server.live
        /\ pc[l] # "playing"
        /\ UNCHANGED <<pc, stamp, fresh, want, missing>>
    BY <1>5 DEF ServerLeaves
  <2>2. InForce' = InForce
    BY <2>1 DEF InForce, Loaded
  <2>3. QED
    BY <2>1, <2>2 DEF Course, Agrees
<1>6. CASE Tick
  BY <1>6 DEF Tick, Course, Agrees, InForce, local
<1>7. QED
  BY <1>1, <1>2, <1>3, <1>4, <1>5, <1>6 DEF Boot

(* The course of a launch on its own is inductive.                         *)
LEMMA NextKeepsAlone ==
  ASSUME TypeOK, SessionInv, AloneInv, [Next]_vars
  PROVE  AloneInv'
<1> SUFFICES ASSUME NEW l \in Launchers, Alone(l)'
             PROVE  Course(l)'
  BY DEF AloneInv
<1>1. ASSUME NEW m \in Launchers, LauncherStep(m)
      PROVE  Course(l)'
  <2>1. m = l
    BY <1>1, NobodyStartsAgain DEF Alone
  <2>2. mishaps = 0
    BY <1>1, MishapsAddUp DEF Alone, TypeOK
  <2>3. Alone(l)
    BY <1>1, <2>2, NobodyStartsAgain DEF Alone
  <2>4. QED
    BY <1>1, <2>1, <2>3, OwnStepKeepsCourse DEF AloneInv
<1>2. CASE \/ \E c \in Clients : Boot(c)
           \/ \E s \in Settings, v \in Values : UserEdits(s, v)
           \/ ServerSaves \/ ServerLeaves \/ Tick
  <2>1. Alone(l)
    BY <1>2 DEF Alone, Boot, SpawnServer, ServerBoots, ServerLosesLock, UserEdits, ServerSaves,
      ServerLeaves, Tick, local, Mishap, TypeOK
  <2>2. QED
    BY <1>2, <2>1, OtherStepKeepsCourse DEF AloneInv
<1>3. CASE UNCHANGED vars
  BY <1>3 DEF vars, AloneInv, Alone, Course, Preparing, Agrees, InForce, Matches
<1>4. QED
  BY <1>1, <1>2, <1>3 DEF Next, LauncherStep

(* A launch starts with a session that has saved what it changed. *)
LEMMA InitAlone == Init => AloneInv
<1> SUFFICES ASSUME Init, NEW l \in Launchers
             PROVE  Course(l)
  BY DEF AloneInv
<1>1. PICK past \in Pasts :
        /\ lock = IF past.up THEN Wineserver ELSE Nobody
        /\ server = IF past.up
                    THEN [started |-> 0, boot |-> past.boot, live |-> Loaded(past.reg)]
                    ELSE NoServer
        /\ reg = past.reg
  BY Zenon DEF Init
<1>2. lock = Wineserver => server.live = Loaded(reg)
  BY <1>1, SessionAssumption
<1>3. pc[l] = "probe"
  BY DEF Init
<1>4. QED
  BY <1>2, <1>3 DEF Course

(* What the course gives a launch that plays.                              *)
LEMMA PlayingIsSet ==
  ASSUME TypeOK, VouchInv, NEW l \in Launchers, Course(l), pc[l] = "playing"
  PROVE  /\ server.live = want[l]
         /\ fresh[l] => server.boot = want[l]
         /\ vouched => \A s \in Stamped : server.boot[s] = want[l][s]
<1>1. lock = Wineserver /\ Agrees(l, Settings)
  BY DEF Course
<1>2. server.live \in Registry /\ want[l] \in Registry
  BY SessionAssumption DEF TypeOK, Registry
<1>3. server.live = want[l]
  BY <1>1, <1>2 DEF Agrees, InForce, Registry
<1>4. fresh[l] => server.boot = want[l]
  BY <1>1 DEF Course
<1>5. vouched => \A s \in Stamped : server.boot[s] = want[l][s]
  BY <1>1 DEF Course, VouchInv, Matches
<1>6. QED
  BY <1>3, <1>4, <1>5

(***************************************************************************)
(* A launch nobody interferes with plays with every value it wants in the  *)
(* registry, whatever the prefix has been through: a user.reg, a stamp and *)
(* a session of earlier launches.  A session it booted itself has booted   *)
(* with all of them, be it from its user.reg or from the one reg add's     *)
(* session saved; one it reuses and that is vouched for, with the stamped. *)
(***************************************************************************)
THEOREM AloneLaunchIsSet == Spec => []AloneGetsItsSettings
<1>1. Init => AloneInv
  BY InitAlone
<1>2. TypeOK /\ SessionInv /\ AloneInv /\ [Next]_vars => AloneInv'
  BY NextKeepsAlone
<1>3. TypeOK /\ SessionInv /\ AloneInv => AloneGetsItsSettings
  BY PlayingIsSet DEF AloneInv, AloneGetsItsSettings, SessionInv
<1>4. QED
  BY <1>1, <1>2, <1>3, TypeCorrect, SessionInvariant, PTL DEF Spec
=============================================================================
