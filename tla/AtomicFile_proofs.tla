-------------------------- MODULE AtomicFile_proofs --------------------------
(***************************************************************************)
(* Proofs about AtomicFile, for any number of writers, readers and inodes, *)
(* any length of the texts and any number of mishaps: with a lock around   *)
(* them, write_atomic's calls do what its comment says.                    *)
(***************************************************************************)
EXTENDS AtomicFile, TLAPS

(* The text of one writer is not half of anything. *)
LEMMA WholeIsText ==
  ASSUME NEW v \in Writers \cup {Old}
  PROVE  Whole(v) \in Texts /\ Whole(v) \in Contents
BY DEF Texts, Contents, Whole

(* A text, and the lack of one, is something a file may hold.              *)
LEMMA TextsAreContents == Texts \subseteq Contents /\ Whole(Nothing) \in Contents
BY DEF Texts, Contents, Whole

(***************************************************************************)
(* Every variable keeps its type, with a lock or without one.              *)
(***************************************************************************)
THEOREM FileTypeCorrect == Spec => []TypeOK
<1> USE FileAssumption
<1>1. Init => TypeOK
  <2> SUFFICES ASSUME Init
               PROVE  TypeOK
    OBVIOUS
  <2>1. PICK i \in Inodes :
          /\ data = [j \in Inodes |-> IF j = i THEN Whole(Old) ELSE Whole(Nothing)]
          /\ path \in {i, NoInode}
    BY DEF Init
  <2>2. data \in [Inodes -> Contents]
    BY <2>1, WholeIsText, TextsAreContents
  <2>3. QED
    BY <2>1, <2>2 DEF Init, TypeOK
<1>2. TypeOK /\ [Next]_vars => TypeOK'
  <2> SUFFICES ASSUME TypeOK, [Next]_vars
               PROVE  TypeOK'
    OBVIOUS
  <2> USE DEF TypeOK
  <2>1. ASSUME NEW w \in Writers, Begin(w)
        PROVE  TypeOK'
    BY <2>1 DEF Begin
  <2>2. ASSUME NEW w \in Writers, Open(w)
        PROVE  TypeOK'
    BY <2>2, TextsAreContents DEF Open
  <2>3. ASSUME NEW w \in Writers, WritePart(w)
        PROVE  TypeOK'
    <3>1. data' \in [Inodes -> Contents]
      BY <2>3 DEF WritePart, Contents, Parts
    <3>2. off' \in [Writers -> 0 .. Size]
      BY <2>3 DEF WritePart
    <3>3. QED
      BY <2>3, <3>1, <3>2 DEF WritePart
  <2>4. ASSUME NEW w \in Writers, Close(w)
        PROVE  TypeOK'
    BY <2>4 DEF Close
  <2>5. ASSUME NEW w \in Writers, Rename(w)
        PROVE  TypeOK'
    BY <2>5 DEF Rename, Unlock
  <2>6. ASSUME NEW w \in Writers, GiveUp(w)
        PROVE  TypeOK'
    BY <2>6 DEF GiveUp, Unlock
  <2>7. ASSUME NEW r \in Readers, OpenToRead(r)
        PROVE  TypeOK'
    BY <2>7 DEF OpenToRead
  <2>8. ASSUME NEW r \in Readers, ReadToEnd(r)
        PROVE  TypeOK'
    BY <2>8 DEF ReadToEnd
  <2>9. CASE UNCHANGED vars
    BY <2>9 DEF vars
  <2>10. QED
    BY <2>1, <2>2, <2>3, <2>4, <2>5, <2>6, <2>7, <2>8, <2>9 DEF Next
<1>3. QED
  BY <1>1, <1>2, PTL DEF Spec

-----------------------------------------------------------------------------
(* The inductive invariant, one lemma per part. *)

(* At first nobody writes, and the file is whole.                          *)
LEMMA InitFileInv == Init => FileInv
<1> SUFFICES ASSUME Init
             PROVE  FileInv
  OBVIOUS
<1> USE FileAssumption DEF Init
<1>1. OneWriter
  BY DEF OneWriter
<1>2. PICK i \in Inodes :
        /\ data = [j \in Inodes |-> IF j = i THEN Whole(Old) ELSE Whole(Nothing)]
        /\ path \in {i, NoInode}
  OBVIOUS
<1>3. NamedAreWhole
  BY <1>2, WholeIsText DEF NamedAreWhole
<1>4. QED
  BY <1>1, <1>3 DEF FileInv, NeverHalfWritten

(* The holder of the lock is the only one at work. *)
LEMMA OneAtWork ==
  ASSUME OneWriter, NEW w \in Writers, pc[w] # "idle",
         NEW v \in Writers, v # w
  PROVE  pc[v] = "idle" /\ fd[v] = NoInode
BY DEF OneWriter

(* Under the lock, a writer's sibling stays its own (write_atomic).        *)
LEMMA OneWriterStep ==
  ASSUME Locked, TypeOK, FileInv, [Next]_vars
  PROVE  OneWriter'
<1> USE FileAssumption DEF TypeOK, FileInv
<1>1. ASSUME NEW w \in Writers, Begin(w)
      PROVE  OneWriter'
  BY <1>1 DEF Begin, OneWriter
<1>2. ASSUME NEW w \in Writers, Open(w)
      PROVE  OneWriter'
  <2>1. \A v \in Writers \ {w} : pc[v] = "idle" /\ fd[v] = NoInode
    BY <1>2, OneAtWork DEF Open
  <2>2. PICK i \in Inodes : tmp' = i /\ fd' = [fd EXCEPT ![w] = i]
    BY <1>2 DEF Open
  <2>3. off'[w] = 0 /\ pc' = [pc EXCEPT ![w] = "write"] /\ lock' = lock /\ lock = w
    BY <1>2 DEF Open, OneWriter
  <2>4. QED
    BY <2>1, <2>2, <2>3 DEF OneWriter
<1>3. ASSUME NEW w \in Writers, WritePart(w)
      PROVE  OneWriter'
  <2>1. \A v \in Writers \ {w} : pc[v] = "idle" /\ fd[v] = NoInode
    BY <1>3, OneAtWork DEF WritePart
  <2>2. fd[w] = tmp /\ tmp \in Inodes /\ lock = w
    BY <1>3 DEF WritePart, OneWriter
  <2>3. \A k \in 1 .. off'[w] : data'[tmp][k] = w
    <3>1. data'[tmp] = [data[tmp] EXCEPT ![off[w] + 1] = w]
      BY <1>3, <2>2 DEF WritePart
    <3>2. data[tmp] \in [Parts -> Writers \cup {Old, Nothing}] /\ off[w] + 1 \in Parts
      BY <1>3, <2>2 DEF WritePart, Contents, Parts
    <3>3. \A k \in 1 .. off[w] : data[tmp][k] = w /\ k \in Parts
      BY <1>3 DEF WritePart, OneWriter, Parts
    <3>4. off'[w] = off[w] + 1 /\ off[w] \in Nat
      BY <1>3 DEF WritePart
    <3>5. QED
      BY <3>1, <3>2, <3>3, <3>4
  <2>4. QED
    BY <1>3, <2>1, <2>2, <2>3 DEF WritePart, OneWriter
<1>4. ASSUME NEW w \in Writers, Close(w)
      PROVE  OneWriter'
  <2>1. \A v \in Writers \ {w} : pc[v] = "idle" /\ fd[v] = NoInode
    BY <1>4, OneAtWork DEF Close
  <2>2. lock = w /\ tmp \in Inodes /\ \A k \in Parts : data[tmp][k] = w
    BY <1>4 DEF Close, OneWriter, Parts
  <2>3. data[tmp] = Whole(w)
    BY <2>2 DEF Contents, Whole
  <2>4. QED
    BY <1>4, <2>1, <2>2, <2>3 DEF Close, OneWriter
<1>5. ASSUME NEW w \in Writers, Rename(w) \/ GiveUp(w)
      PROVE  OneWriter'
  <2>1. \A v \in Writers \ {w} : pc[v] = "idle" /\ fd[v] = NoInode
    BY <1>5, OneAtWork DEF Rename, GiveUp
  <2>2. fd'[w] = NoInode /\ pc' = [pc EXCEPT ![w] = "idle"]
        /\ \A v \in Writers \ {w} : fd'[v] = fd[v]
    BY <1>5 DEF Rename, GiveUp, OneWriter
  <2>3. \A v \in Writers : pc'[v] = "idle" /\ fd'[v] = NoInode
    BY <2>1, <2>2
  <2>4. QED
    BY <2>3 DEF OneWriter
<1>6. ASSUME NEW r \in Readers, OpenToRead(r) \/ ReadToEnd(r)
      PROVE  OneWriter'
  BY <1>6 DEF OpenToRead, ReadToEnd, OneWriter
<1>7. CASE UNCHANGED vars
  BY <1>7 DEF vars, OneWriter
<1>8. QED
  BY <1>1, <1>2, <1>3, <1>4, <1>5, <1>6, <1>7 DEF Next

(* Under the lock, what has a name or a reader stays whole (write_atomic). *)
LEMMA NamedAreWholeStep ==
  ASSUME Locked, TypeOK, FileInv, [Next]_vars
  PROVE  NamedAreWhole' /\ NeverHalfWritten'
<1> USE FileAssumption DEF TypeOK, FileInv
<1> USE DEF NamedAreWhole, NeverHalfWritten
<1>1. ASSUME NEW w \in Writers, Begin(w) \/ Close(w) \/ GiveUp(w)
      PROVE  NamedAreWhole' /\ NeverHalfWritten'
  BY <1>1 DEF Begin, Close, GiveUp
<1>2. ASSUME NEW w \in Writers, Open(w)
      PROVE  NamedAreWhole' /\ NeverHalfWritten'
  BY <1>2 DEF Open, Free
<1>3. ASSUME NEW w \in Writers, WritePart(w)
      PROVE  NamedAreWhole' /\ NeverHalfWritten'
  <2>1. fd[w] = tmp
    BY <1>3 DEF WritePart, OneWriter
  <2>2. QED
    BY <1>3, <2>1 DEF WritePart
<1>4. ASSUME NEW w \in Writers, Rename(w)
      PROVE  NamedAreWhole' /\ NeverHalfWritten'
  <2>1. tmp # NoInode /\ data[tmp] \in Texts
    BY <1>4, WholeIsText DEF Rename, OneWriter
  <2>2. QED
    BY <1>4, <2>1 DEF Rename
<1>5. ASSUME NEW r \in Readers, OpenToRead(r) \/ ReadToEnd(r)
      PROVE  NamedAreWhole' /\ NeverHalfWritten'
  BY <1>5 DEF OpenToRead, ReadToEnd
<1>6. CASE UNCHANGED vars
  BY <1>6 DEF vars
<1>7. QED
  BY <1>1, <1>2, <1>3, <1>4, <1>5, <1>6 DEF Next

(* The invariant of write_atomic under a lock.                             *)
LEMMA FileInvariant ==
  ASSUME Locked
  PROVE  Spec => []FileInv
<1>1. TypeOK /\ FileInv /\ [Next]_vars => FileInv'
  BY OneWriterStep, NamedAreWholeStep DEF FileInv
<1>2. QED
  BY <1>1, InitFileInv, FileTypeCorrect, PTL DEF Spec

(***************************************************************************)
(* Under a lock a reader never sees a half-written file, whichever calls   *)
(* fail and whichever writers die.                                         *)
(***************************************************************************)
THEOREM ReadersSeeWholeTexts ==
  ASSUME Locked
  PROVE  Spec => []NeverHalfWritten
<1>1. FileInv => NeverHalfWritten
  BY DEF FileInv
<1>2. QED
  BY <1>1, FileInvariant, PTL

-----------------------------------------------------------------------------
(* The refinement of WholeFile. *)

(* Under the lock, each step of write_atomic replaces the whole text, or   *)
(* changes nothing a reader sees.                                          *)
LEMMA FileStepImplements ==
  ASSUME Locked, TypeOK, FileInv, [Next]_vars
  PROVE  [Contract!Next]_<<IF path = NoInode THEN NoInode ELSE data[path],
                           [r \in Readers |-> IF reading[r] = NoInode THEN got[r]
                                              ELSE data[reading[r]]]>>
<1> USE FileAssumption DEF TypeOK, FileInv
<1> DEFINE text == IF path = NoInode THEN NoInode ELSE data[path]
           seen == [r \in Readers |-> IF reading[r] = NoInode THEN got[r]
                                      ELSE data[reading[r]]]
<1>1. ASSUME NEW w \in Writers, Begin(w) \/ Close(w) \/ GiveUp(w)
      PROVE  UNCHANGED <<text, seen>>
  BY <1>1 DEF Begin, Close, GiveUp
<1>2. ASSUME NEW w \in Writers, Open(w) \/ WritePart(w)
      PROVE  UNCHANGED <<text, seen>>
  <2>1. PICK i \in Inodes :
          /\ i # path /\ \A r \in Readers : i # reading[r]
          /\ \A j \in Inodes \ {i} : data'[j] = data[j]
    BY <1>2 DEF Open, WritePart, Free, OneWriter, NamedAreWhole
  <2>2. path' = path /\ reading' = reading /\ got' = got
    BY <1>2 DEF Open, WritePart
  <2>3. QED
    BY <2>1, <2>2
<1>3. ASSUME NEW w \in Writers, Rename(w)
      PROVE  Contract!Replace
  <2>1. tmp # NoInode /\ data[tmp] = Whole(w)
    BY <1>3 DEF Rename, OneWriter
  <2>2. text' = Whole(w) /\ seen' = seen
    BY <1>3, <2>1 DEF Rename
  <2>3. QED
    BY <2>2, WholeIsText DEF Contract!Replace
<1>4. ASSUME NEW r \in Readers, OpenToRead(r)
      PROVE  Contract!Read(r)
  BY <1>4 DEF OpenToRead, Contract!Read
<1>5. ASSUME NEW r \in Readers, ReadToEnd(r)
      PROVE  UNCHANGED <<text, seen>>
  BY <1>5 DEF ReadToEnd
<1>6. CASE UNCHANGED vars
  BY <1>6 DEF vars
<1>7. QED
  BY <1>1, <1>2, <1>3, <1>4, <1>5, <1>6 DEF Next, Contract!Next

(***************************************************************************)
(* Under a lock write_atomic implements WholeFile: every step of a writer  *)
(* but its rename changes nothing a reader could see.                      *)
(***************************************************************************)
THEOREM WriteAtomicImplementsWholeFile ==
  ASSUME Locked
  PROVE  Spec => WholeFileContract
<1>1. Init => Contract!Init
  <2> SUFFICES ASSUME Init
               PROVE  Contract!Init
    OBVIOUS
  <2>1. PICK i \in Inodes :
          /\ data = [j \in Inodes |-> IF j = i THEN Whole(Old) ELSE Whole(Nothing)]
          /\ path \in {i, NoInode}
    BY DEF Init
  <2>2. QED
    BY <2>1, WholeIsText, FileAssumption DEF Init, Contract!Init
<1>2. TypeOK /\ FileInv /\ [Next]_vars
        => [Contract!Next]_<<IF path = NoInode THEN NoInode ELSE data[path],
                             [r \in Readers |-> IF reading[r] = NoInode THEN got[r]
                                                ELSE data[reading[r]]]>>
  BY FileStepImplements
<1>3. QED
  BY <1>1, <1>2, FileTypeCorrect, FileInvariant, PTL
     DEF Spec, WholeFileContract, Contract!Spec
==============================================================================
