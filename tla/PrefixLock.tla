----------------------------- MODULE PrefixLock -----------------------------
(***************************************************************************)
(* What the wineserver lock of a prefix promises to everybody who uses it  *)
(* (the doc of ServerLock in launcher/app/src/session.rs, the module       *)
(* comment of registry.rs): one owner at a time, a wineserver or a         *)
(* launcher; user.reg changes only in the hands of the owner; the session  *)
(* stamp changes only in the hands of an owner that is a launcher, so      *)
(* never while a wineserver is up; and a wineserver runs with the user.reg *)
(* that was on disk when it took the lock.                                 *)
(*                                                                         *)
(* PrefixSession implements this specification.                            *)
(***************************************************************************)

CONSTANTS
  Owners,     (* every process that may hold the lock: launchers, a wineserver *)
  Wineserver, (* the owner that loads user.reg                                 *)
  Nobody,     (* the lock is free                                              *)
  Files,      (* the contents user.reg may have                                *)
  NoFile,     (* user.reg does not exist                                       *)
  Empty       (* what a wineserver runs with when there is no user.reg         *)

VARIABLES
  owner,      (* who holds the lock                                 *)
  file,       (* user.reg                                           *)
  note,       (* the session stamp                                  *)
  loaded      (* what the wineserver that is up booted from         *)

lockVars == <<owner, file, note, loaded>>

(* The lock is free, or a wineserver is up that has booted from some file. *)
Init ==
  /\ file \in Files \cup {NoFile}
  /\ \/ owner = Nobody /\ loaded = Empty
     \/ owner = Wineserver /\ loaded \in Files

(* A launcher takes the free lock; nothing on disk changes. *)
TakeAsLauncher ==
  /\ owner = Nobody
  /\ owner' \in Owners \ {Wineserver}
  /\ UNCHANGED <<file, note, loaded>>

(* A wineserver takes the free lock and loads what is on disk. *)
TakeAsServer ==
  /\ owner = Nobody
  /\ owner' = Wineserver
  /\ loaded' = IF file = NoFile THEN Empty ELSE file
  /\ UNCHANGED <<file, note>>

(* The owner rewrites user.reg and keeps the lock. *)
WriteFile ==
  /\ owner # Nobody
  /\ file' \in Files
  /\ UNCHANGED <<owner, note, loaded>>

(* The owner lets go of the lock, or dies, having rewritten user.reg or not. *)
Release ==
  /\ owner # Nobody
  /\ owner' = Nobody
  /\ file' \in Files \cup {file}
  /\ loaded' = Empty
  /\ UNCHANGED note

(* A launcher that owns the lock stamps the session to come. *)
WriteNote ==
  /\ owner \in Owners \ {Wineserver}
  /\ UNCHANGED <<owner, file, loaded>>

Next == TakeAsLauncher \/ TakeAsServer \/ WriteFile \/ Release \/ WriteNote

Spec == Init /\ [][Next]_lockVars
=============================================================================
