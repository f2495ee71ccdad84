----------------------------- MODULE AtomicFile -----------------------------
(***************************************************************************)
(* write_atomic of launcher/core/src/fsutil.rs: the file is written to a   *)
(* temporary sibling, which is then renamed over it.  The sibling's name   *)
(* comes from the file's alone, so all writers of a file share it.         *)
(*                                                                         *)
(* The launchers write user.reg and the session stamp like this, holding   *)
(* the wineserver lock, and the config files, the game files and the       *)
(* selection without any lock (so does the Dock tile plug-in).             *)
(***************************************************************************)
EXTENDS Naturals

CONSTANTS
  Writers, Readers,
  Inodes,     (* the file system's: one more than can be in use at a time      *)
  Size,       (* the length of a text, in what one write call may write        *)
  Old,        (* what the file held before, where a writer stands for its text *)
  Nothing,    (* a part of a file not written yet                              *)
  NoInode,    (* no such file, or nothing open                                 *)
  Nobody,     (* the lock is free                                              *)
  Locked,     (* do the writers hold a lock?                                   *)
  MaxMishaps  (* bound: failed writes and deaths                               *)

Parts == 1 .. Size
Whole(v) == [k \in Parts |-> v]

ASSUME FileAssumption ==
  /\ Size \in Nat \ {0}
  /\ Old \notin Writers /\ Nothing \notin Writers \cup {Old}
  /\ NoInode \notin Inodes /\ Nobody \notin Writers
  /\ Locked \in BOOLEAN
  /\ MaxMishaps \in Nat

VARIABLES
  data,     (* per inode: its contents                                        *)
  path,     (* the inode of the file                                          *)
  tmp,      (* the inode of its temporary sibling                             *)
  lock,     (* the writer that holds the lock                                 *)
  pc,       (* per writer: where it is                                        *)
  fd,       (* per writer: the inode it has open                              *)
  off,      (* per writer: how much of it is written                          *)
  reading,  (* per reader: the inode it has open                              *)
  got,      (* per reader: the text it has read                               *)
  mishaps

vars == <<data, path, tmp, lock, pc, fd, off, reading, got, mishaps>>

Init ==
  /\ \E i \in Inodes :
       /\ data = [j \in Inodes |-> IF j = i THEN Whole(Old) ELSE Whole(Nothing)]
       /\ path \in {i, NoInode}
  /\ tmp = NoInode
  /\ lock = Nobody
  /\ pc = [w \in Writers |-> "idle"]
  /\ fd = [w \in Writers |-> NoInode]
  /\ off = [w \in Writers |-> 0]
  /\ reading = [r \in Readers |-> NoInode]
  /\ got = [r \in Readers |-> NoInode]
  /\ mishaps = 0

-----------------------------------------------------------------------------

(* Nobody has a name or a descriptor for it. *)
Free(i) ==
  /\ i # path /\ i # tmp
  /\ \A w \in Writers : i # fd[w]
  /\ \A r \in Readers : i # reading[r]

Unlock(w) == lock' = IF lock = w THEN Nobody ELSE lock

(* The caller: it takes its lock, if it has one to take. *)
Begin(w) ==
  /\ pc[w] = "idle"
  /\ Locked => lock = Nobody
  /\ lock' = IF Locked THEN w ELSE lock
  /\ pc' = [pc EXCEPT ![w] = "open"]
  /\ UNCHANGED <<data, path, tmp, fd, off, reading, got, mishaps>>

(* Broken: writes the file itself. *)
OpenInPlace(w) ==
  /\ pc[w] = "open"
  /\ path # NoInode
  /\ tmp' = path
  /\ data' = [data EXCEPT ![path] = Whole(Nothing)]
  /\ fd' = [fd EXCEPT ![w] = path]
  /\ off' = [off EXCEPT ![w] = 0]
  /\ pc' = [pc EXCEPT ![w] = "write"]
  /\ UNCHANGED <<path, lock, reading, got, mishaps>>

(* fs::write opens the sibling: a new one, or the one there is, emptied. *)
Open(w) ==
  /\ pc[w] = "open"
  /\ \E i \in Inodes :
       /\ IF tmp = NoInode THEN Free(i) ELSE i = tmp
       /\ tmp' = i
       /\ data' = [data EXCEPT ![i] = Whole(Nothing)]
       /\ fd' = [fd EXCEPT ![w] = i]
  /\ off' = [off EXCEPT ![w] = 0]
  /\ pc' = [pc EXCEPT ![w] = "write"]
  /\ UNCHANGED <<path, lock, reading, got, mishaps>>

(* Broken: goes on past the end of the text. *)
WritePartPastEnd(w) ==
  /\ pc[w] = "write"
  /\ data' = [data EXCEPT ![fd[w]] = [@ EXCEPT ![off[w] + 1] = w]]
  /\ off' = [off EXCEPT ![w] = @ + 1]
  /\ UNCHANGED <<path, tmp, lock, pc, fd, reading, got, mishaps>>

(* fs::write writes the next part of the text. *)
WritePart(w) ==
  /\ pc[w] = "write" /\ off[w] < Size
  /\ data' = [data EXCEPT ![fd[w]] = [@ EXCEPT ![off[w] + 1] = w]]
  /\ off' = [off EXCEPT ![w] = @ + 1]
  /\ UNCHANGED <<path, tmp, lock, pc, fd, reading, got, mishaps>>

(* Broken: takes a write for done after its first call. *)
CloseEarly(w) ==
  /\ pc[w] = "write" /\ off[w] > 0
  /\ pc' = [pc EXCEPT ![w] = "rename"]
  /\ fd' = [fd EXCEPT ![w] = NoInode]
  /\ UNCHANGED <<data, path, tmp, lock, off, reading, got, mishaps>>

Close(w) ==
  /\ pc[w] = "write" /\ off[w] = Size
  /\ pc' = [pc EXCEPT ![w] = "rename"]
  /\ fd' = [fd EXCEPT ![w] = NoInode]
  /\ UNCHANGED <<data, path, tmp, lock, off, reading, got, mishaps>>

(* fs::rename, and the return to the caller.  The sibling may be gone. *)
Rename(w) ==
  /\ pc[w] = "rename"
  /\ path' = IF tmp = NoInode THEN path ELSE tmp
  /\ tmp' = NoInode
  /\ pc' = [pc EXCEPT ![w] = "idle"]
  /\ off' = [off EXCEPT ![w] = 0]
  /\ Unlock(w)
  /\ UNCHANGED <<data, fd, reading, got, mishaps>>

(* A call fails and the caller gives up, or its process dies: the sibling  *)
(* stays as it is.                                                         *)
GiveUp(w) ==
  /\ pc[w] # "idle"
  /\ mishaps < MaxMishaps
  /\ mishaps' = mishaps + 1
  /\ pc' = [pc EXCEPT ![w] = "idle"]
  /\ fd' = [fd EXCEPT ![w] = NoInode]
  /\ off' = [off EXCEPT ![w] = 0]
  /\ Unlock(w)
  /\ UNCHANGED <<data, path, tmp, reading, got>>

(* A reader opens the file by its name, and reads it to the end. *)
OpenToRead(r) ==
  /\ reading[r] = NoInode /\ path # NoInode
  /\ reading' = [reading EXCEPT ![r] = path]
  /\ UNCHANGED <<data, path, tmp, lock, pc, fd, off, got, mishaps>>

ReadToEnd(r) ==
  /\ reading[r] # NoInode
  /\ got' = [got EXCEPT ![r] = data[reading[r]]]
  /\ reading' = [reading EXCEPT ![r] = NoInode]
  /\ UNCHANGED <<data, path, tmp, lock, pc, fd, off, mishaps>>

Next ==
  \/ \E w \in Writers :
       \/ Begin(w) \/ Open(w) \/ WritePart(w) \/ Close(w) \/ Rename(w) \/ GiveUp(w)
  \/ \E r \in Readers : OpenToRead(r) \/ ReadToEnd(r)

Spec == Init /\ [][Next]_vars

-----------------------------------------------------------------------------
(* Properties *)

Contents == [Parts -> Writers \cup {Old, Nothing}]
Texts == {Whole(v) : v \in Writers \cup {Old}}

(* Every variable has its type. *)
TypeOK ==
  /\ data \in [Inodes -> Contents]
  /\ path \in Inodes \cup {NoInode}
  /\ tmp \in Inodes \cup {NoInode}
  /\ lock \in Writers \cup {Nobody}
  /\ pc \in [Writers -> {"idle", "open", "write", "rename"}]
  /\ fd \in [Writers -> Inodes \cup {NoInode}]
  /\ off \in [Writers -> 0 .. Size]
  /\ reading \in [Readers -> Inodes \cup {NoInode}]
  /\ got \in [Readers -> Contents \cup {NoInode}]
  /\ mishaps \in 0 .. MaxMishaps

(***************************************************************************)
(* fsutil.rs:3, "so a reader never sees a half-written file": what a       *)
(* reader reads is a whole text of one writer.  It holds under a lock,     *)
(* through deaths that leave half a sibling behind, and fails without      *)
(* one, see README.md.                                                     *)
(***************************************************************************)
NeverHalfWritten == \A r \in Readers : got[r] \in Texts \cup {NoInode}

(***************************************************************************)
(* With a lock the file is a WholeFile.  A reader's text is settled when   *)
(* it opens the file, whatever is renamed over it before it reads.         *)
(***************************************************************************)
Contract == INSTANCE WholeFile WITH
  Absent <- NoInode,
  text <- IF path = NoInode THEN NoInode ELSE data[path],
  got <- [r \in Readers |-> IF reading[r] = NoInode THEN got[r] ELSE data[reading[r]]]

WholeFileContract == Contract!Spec

(***************************************************************************)
(* What makes these inductive: the lock's holder alone is at work, the     *)
(* sibling is its own and nobody else's, and a file that has a name or a   *)
(* reader is whole and stays as it is.                                     *)
(***************************************************************************)
OneWriter ==
  /\ \A w \in Writers : pc[w] # "idle" => lock = w
  /\ \A w \in Writers : pc[w] \in {"idle", "open", "rename"} => fd[w] = NoInode
  /\ \A w \in Writers : pc[w] = "write" => fd[w] = tmp /\ tmp # NoInode
  /\ \A w \in Writers : pc[w] = "write" => \A k \in 1 .. off[w] : data[tmp][k] = w
  /\ \A w \in Writers : pc[w] = "rename" => tmp # NoInode /\ data[tmp] = Whole(w)

NamedAreWhole ==
  /\ path # NoInode => path # tmp /\ data[path] \in Texts
  /\ \A r \in Readers :
       reading[r] # NoInode => reading[r] # tmp /\ data[reading[r]] \in Texts

FileInv == OneWriter /\ NamedAreWhole /\ NeverHalfWritten
==============================================================================
