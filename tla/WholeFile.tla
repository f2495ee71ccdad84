------------------------------ MODULE WholeFile ------------------------------
(***************************************************************************)
(* What write_atomic promises of a file: it changes from one whole text to *)
(* another, and a reader gets a text it held.                              *)
(***************************************************************************)
CONSTANTS
  Texts,    (* the texts the file may hold                                    *)
  Readers,
  Absent    (* there is no such file                                          *)

VARIABLES
  text,     (* the file                                                       *)
  got       (* per reader: what it has read last                              *)

Init ==
  /\ text \in Texts \cup {Absent}
  /\ got = [r \in Readers |-> Absent]

Replace ==
  /\ text' \in Texts
  /\ UNCHANGED got

Read(r) ==
  /\ got' = [got EXCEPT ![r] = text]
  /\ UNCHANGED text

Next == Replace \/ \E r \in Readers : Read(r)

Spec == Init /\ [][Next]_<<text, got>>
==============================================================================
