----------------------------- MODULE Selected -----------------------------
(***************************************************************************)
(* What concat and filter of the code give: FlattenSeq and SelectSeq, the  *)
(* latter with the positions that pass the test, as loops over sequences.  *)
(***************************************************************************)
EXTENDS Sequences

Joined(before, s) == before \o s

Joining == INSTANCE Loop WITH Step <- Joined

(* The sequences of ss one after another. *)
Flat(ss) == Joining!Fold(<<>>, ss)

(* The elements of s at the positions in I, in their order. *)
Selected(s, I) == Flat([i \in DOMAIN s |-> IF i \in I THEN <<s[i]>> ELSE <<>>])

(* Those that pass a test. *)
Filtered(s, Test(_)) == Selected(s, {i \in DOMAIN s : Test(s[i])})
============================================================================
