------------------------------- MODULE Loop -------------------------------
(***************************************************************************)
(* A loop of the code over the elements of a sequence: Fold is FoldLeft,   *)
(* as a recursive function of the rounds done.  First come the lemmas      *)
(* about induction that the proofs about loops share; their predicates are *)
(* sets and the rounds of a loop are functions, so that the provers can    *)
(* instantiate them.                                                       *)
(***************************************************************************)
EXTENDS Integers, Sequences, TLAPS, WellFoundedInduction

CONSTANT Step(_, _)

----------------------------------------------------------------------------
(* Induction *)

(* What holds before a loop and after every round of it holds after any    *)
(* number of rounds.                                                       *)
LEMMA Induction ==
  ASSUME NEW S, 0 \in S, \A n \in Nat : n \in S => n + 1 \in S
  PROVE  \A n \in Nat : n \in S
<1> DEFINE T == {n \in Nat : n \notin S}
           Less == OpToRel(<, Nat)
<1>1. SUFFICES ASSUME T # {}
               PROVE  FALSE
  OBVIOUS
<1>0. \A x, y \in Nat : x < y => <<x, y>> \in Less
  BY DEF OpToRel
<1> HIDE DEF Less
<1>2. PICK x \in T : \A y \in T : ~ (<<y, x>> \in Less)
  <2>1. T \subseteq Nat
    OBVIOUS
  <2> HIDE DEF T
  <2>2. IsWellFoundedOn(Less, Nat)
    BY NatLessThanWellFounded DEF Less
  <2>3. QED
    BY <1>1, <2>1, <2>2, WFMin
<1>3. x # 0 /\ x - 1 \in Nat
  OBVIOUS
<1>4. x - 1 \notin T
  <2>1. <<x - 1, x>> \in Less
    BY <1>0, <1>3
  <2>2. QED
    BY <1>2, <2>1
<1>5. x - 1 \in S
  BY <1>3, <1>4
<1>6. (x - 1) + 1 \in S
  BY <1>3, <1>5
<1>7. QED
  BY <1>6

(* A loop of n rounds over a state in A, which starts in a and which round *)
(* i takes through step[i], and the states it has after each of its rounds.*)
IsLoop(A, a, n, step) ==
  a \in A /\ n \in Nat /\ step \in [1 .. n -> [A -> A]]

Rounds(A, a, n, step, g) ==
  g \in [0 .. n -> A] /\ g[0] = a /\ \A k \in 1 .. n : g[k] = step[k][g[k - 1]]

(* Every such loop has a state after each of its rounds.                   *)
LEMMA Recursion ==
  ASSUME NEW A, NEW a, NEW n, NEW step, IsLoop(A, a, n, step)
  PROVE  \E g : Rounds(A, a, n, step, g)
<1>0. a \in A /\ n \in Nat /\ step \in [1 .. n -> [A -> A]]
  BY DEF IsLoop
<1> USE <1>0
<1> DEFINE Is(m, g) == g[0] = a /\ \A k \in 1 .. m : g[k] = step[k][g[k - 1]]
           S == {m \in Nat : m <= n => \E g \in [0 .. m -> A] : Is(m, g)}
<1>1. 0 \in S
  <2>1. [k \in 0 .. 0 |-> a] \in [0 .. 0 -> A]
    OBVIOUS
  <2>2. Is(0, [k \in 0 .. 0 |-> a])
    OBVIOUS
  <2>3. QED
    BY <2>1, <2>2
<1>2. ASSUME NEW m \in Nat, m \in S
      PROVE  m + 1 \in S
  <2>1. SUFFICES ASSUME m + 1 <= n
                 PROVE  \E h \in [0 .. m + 1 -> A] : Is(m + 1, h)
    OBVIOUS
  <2>2. PICK g \in [0 .. m -> A] : Is(m, g)
    BY <1>2, <2>1
  <2> DEFINE h == [k \in 0 .. m + 1 |-> IF k = m + 1 THEN step[k][g[m]] ELSE g[k]]
  <2>3. h \in [0 .. m + 1 -> A]
    <3>1. m + 1 \in 1 .. n
      BY <2>1
    <3>2. step[m + 1] \in [A -> A]
      BY <3>1
    <3>3. g[m] \in A
      OBVIOUS
    <3>4. step[m + 1][g[m]] \in A
      BY <3>2, <3>3
    <3>5. \A k \in 0 .. m + 1 : k # m + 1 => k \in 0 .. m
      OBVIOUS
    <3>6. QED
      BY <3>4, <3>5
  <2>4. Is(m + 1, h)
    <3>1. h[0] = a
      BY <2>2
    <3>2. ASSUME NEW k \in 1 .. m + 1
          PROVE  h[k] = step[k][h[k - 1]]
      <4>1. k - 1 \in 0 .. m + 1 /\ k - 1 # m + 1 /\ k \in 0 .. m + 1
        OBVIOUS
      <4>2. h[k - 1] = g[k - 1]
        BY <4>1
      <4>3. CASE k = m + 1
        <5>1. k - 1 = m
          BY <4>3
        <5>2. QED
          BY <4>1, <4>2, <4>3, <5>1
      <4>4. CASE k # m + 1
        <5>1. k \in 1 .. m
          BY <4>4
        <5>2. QED
          BY <4>1, <4>2, <4>4, <5>1, <2>2
      <4>5. QED
        BY <4>3, <4>4
    <3>3. QED
      BY <3>1, <3>2
  <2>5. QED
    BY <2>3, <2>4
<1>3. n \in S
  <2> HIDE DEF S
  <2>1. QED
    BY <1>1, <1>2, Induction
<1>4. QED
  BY <1>0, <1>3 DEF Rounds

(* A loop that starts in A and whose rounds stay in A stays in A.          *)
StaysIn(A, n, f) ==
  /\ n \in Nat /\ f = [i \in 0 .. n |-> f[i]]
  /\ f[0] \in A
  /\ \A i \in 1 .. n : f[i - 1] \in A => f[i] \in A

(* The states of such a loop are in A, one and all.                        *)
LEMMA RecursionType ==
  ASSUME NEW A, NEW n, NEW f, StaysIn(A, n, f)
  PROVE  f \in [0 .. n -> A]
<1> USE DEF StaysIn
<1> DEFINE S == {i \in Nat : i <= n => f[i] \in A}
<1>1. 0 \in S
  OBVIOUS
<1>2. ASSUME NEW i \in Nat, i \in S
      PROVE  i + 1 \in S
  <2>1. i + 1 <= n => f[i] \in A /\ i + 1 \in 1 .. n /\ (i + 1) - 1 = i
    BY <1>2
  <2>2. QED
    BY <2>1
<1>3. \A i \in Nat : i \in S
  <2> HIDE DEF S
  <2>1. QED
    BY <1>1, <1>2, Induction
<1>4. \A i \in 0 .. n : f[i] \in A
  BY <1>3
<1>5. QED
  BY <1>4

----------------------------------------------------------------------------
(* Sequences *)

(* What holds of the empty sequence, and of every longer one if it holds   *)
(* without the last element, holds of every sequence.                      *)
LEMMA SeqInduction ==
  ASSUME NEW S, NEW P,
         <<>> \in P,
         \A s \in Seq(S), x \in S : s \in P => s \o <<x>> \in P
  PROVE  \A s \in Seq(S) : s \in P
<1> DEFINE N == {n \in Nat : \A s \in Seq(S) : Len(s) = n => s \in P}
<1>1. 0 \in N
  <2>1. \A s \in Seq(S) : Len(s) = 0 => s = <<>>
    OBVIOUS
  <2>2. QED
    BY <2>1
<1>2. ASSUME NEW n \in Nat, n \in N
      PROVE  n + 1 \in N
  <2>1. SUFFICES ASSUME NEW s \in Seq(S), Len(s) = n + 1
                 PROVE  s \in P
    OBVIOUS
  <2> DEFINE t == SubSeq(s, 1, n)
             x == s[n + 1]
  <2>2. t \in Seq(S) /\ x \in S /\ Len(t) = n
    BY <2>1
  <2>3. s = t \o <<x>>
    <3>1. t \o <<x>> \in Seq(S) /\ Len(t \o <<x>>) = n + 1
      BY <2>2
    <3>2. \A i \in 1 .. n + 1 : (t \o <<x>>)[i] = s[i]
      <4>1. \A i \in 1 .. n : t[i] = s[i]
        BY <2>1
      <4>2. QED
        BY <2>2, <4>1
    <3>3. QED
      BY <2>1, <3>1, <3>2
  <2>4. t \in P
    BY <1>2, <2>2
  <2> HIDE DEF t, x
  <2>5. QED
    BY <2>2, <2>3, <2>4
<1>3. \A n \in Nat : n \in N
  <2> HIDE DEF N
  <2>1. QED
    BY <1>1, <1>2, Induction
<1>4. QED
  BY <1>3

(* Two sequences are one if they are as long and have the same elements.   *)
LEMMA SameSeq ==
  ASSUME NEW S, NEW T, NEW s \in Seq(S), NEW t \in Seq(T), Len(s) = Len(t),
         \A i \in 1 .. Len(s) : s[i] = t[i]
  PROVE  s = t
OBVIOUS

(* The provers see to the empty sequence as a value one at a time.         *)
LEMMA EmptyInSeq ==
  ASSUME NEW S
  PROVE  <<>> \in Seq(S)
OBVIOUS

(* Concatenation is associative, and the empty sequence adds nothing.      *)
LEMMA Concat ==
  ASSUME NEW S, NEW r \in Seq(S), NEW s \in Seq(S), NEW t \in Seq(S)
  PROVE  /\ (r \o s) \o t = r \o (s \o t)
         /\ r \o s \in Seq(S) /\ Len(r \o s) = Len(r) + Len(s)
         /\ r \o <<>> = r /\ <<>> \o r = r
<1>1. (r \o s) \o t = r \o (s \o t)
  <2>1. /\ (r \o s) \o t \in Seq(S) /\ r \o (s \o t) \in Seq(S)
        /\ Len((r \o s) \o t) = Len(r) + Len(s) + Len(t)
        /\ Len(r \o (s \o t)) = Len(r) + Len(s) + Len(t)
    OBVIOUS
  <2>2. ASSUME NEW i \in 1 .. Len(r) + Len(s) + Len(t)
        PROVE  ((r \o s) \o t)[i] = (r \o (s \o t))[i]
    <3>1. CASE i <= Len(r)
      BY <3>1
    <3>2. CASE i > Len(r) /\ i <= Len(r) + Len(s)
      BY <3>2
    <3>3. CASE i > Len(r) + Len(s)
      BY <3>3
    <3>4. QED
      BY <3>1, <3>2, <3>3
  <2>3. QED
    BY <2>1, <2>2, SameSeq
<1>2. r \o <<>> = r /\ <<>> \o r = r
  OBVIOUS
<1>3. QED
  BY <1>1, <1>2

(* The same, with the types of the three under one name.                   *)
AllIn(S, r, s, t) == r \in Seq(S) /\ s \in Seq(S) /\ t \in Seq(S)

LEMMA EitherWay ==
  ASSUME NEW S, NEW r, NEW s, NEW t, AllIn(S, r, s, t)
  PROVE  (r \o s) \o t = r \o (s \o t)
BY Concat DEF AllIn

----------------------------------------------------------------------------
(* The loop *)

(* What the loop has after each number of rounds. *)
States(base, s) ==
  LET state[i \in 0 .. Len(s)] == IF i = 0 THEN base ELSE Step(state[i - 1], s[i])
  IN state

Fold(base, s) == States(base, s)[Len(s)]

(* A recursive function is the one its equation defines: such a function   *)
(* exists for every number of rounds, whatever the values are.             *)
LEMMA StatesAre ==
  ASSUME NEW base, NEW s, Len(s) \in Nat
  PROVE  States(base, s) =
           [i \in 0 .. Len(s) |-> IF i = 0 THEN base ELSE Step(States(base, s)[i - 1], s[i])]
<1> DEFINE Is(f, n) == f = [i \in 0 .. n |-> IF i = 0 THEN base ELSE Step(f[i - 1], s[i])]
           S == {n \in Nat : \E f : Is(f, n)}
<1>1. 0 \in S
  <2>1. Is([i \in 0 .. 0 |-> base], 0)
    OBVIOUS
  <2>2. QED
    BY <2>1
<1>2. ASSUME NEW n \in Nat, n \in S
      PROVE  n + 1 \in S
  <2>1. PICK f : Is(f, n)
    BY <1>2
  <2> DEFINE g == [i \in 0 .. n + 1 |-> IF i = n + 1 THEN Step(f[n], s[n + 1]) ELSE f[i]]
  <2>2. ASSUME NEW i \in 0 .. n + 1
        PROVE  g[i] = IF i = 0 THEN base ELSE Step(g[i - 1], s[i])
    <3>1. CASE i = 0
      BY <2>1, <3>1
    <3>2. CASE i = n + 1
      <4>1. i - 1 = n /\ i - 1 \in 0 .. n + 1 /\ i - 1 # n + 1
        BY <3>2
      <4>2. g[i - 1] = f[n]
        BY <4>1
      <4>3. QED
        BY <4>2, <3>2
    <3>3. CASE i # 0 /\ i # n + 1
      <4>1. i \in 0 .. n /\ i - 1 \in 0 .. n + 1 /\ i - 1 # n + 1
        BY <3>3
      <4>2. g[i - 1] = f[i - 1]
        BY <4>1
      <4>3. f[i] = Step(f[i - 1], s[i])
        BY <4>1, <2>1, <3>3
      <4>4. QED
        BY <4>2, <4>3, <3>3, <4>1
    <3>4. QED
      BY <3>1, <3>2, <3>3
  <2>3. Is(g, n + 1)
    <3>1. g = [i \in 0 .. n + 1 |-> g[i]]
      OBVIOUS
    <3> HIDE DEF g
    <3>2. QED
      BY <2>2, <3>1
  <2>4. \E h : Is(h, n + 1)
    <3> HIDE DEF Is, g
    <3>1. QED
      BY <2>3
  <2>5. QED
    BY <2>4
<1>3. \A n \in Nat : n \in S
  <2> HIDE DEF S
  <2>1. QED
    BY <1>1, <1>2, Induction
<1>4. QED
  BY <1>3 DEF States

(* The fold of nothing is what it starts from.                             *)
LEMMA FoldOfNothing ==
  ASSUME NEW base
  PROVE  Fold(base, <<>>) = base
BY StatesAre DEF Fold

(* A loop starts from its base, and each round is a step.                  *)
LEMMA StatesStep ==
  ASSUME NEW base, NEW s, Len(s) \in Nat
  PROVE  /\ States(base, s)[0] = base
         /\ \A i \in 1 .. Len(s) : States(base, s)[i] = Step(States(base, s)[i - 1], s[i])
BY StatesAre

(* The states of a loop over a sequence and more are those it had of it.   *)
LEMMA StatesOfMore ==
  ASSUME NEW base, NEW s, NEW t, Len(s) \in Nat, Len(t) \in Nat, Len(s) <= Len(t),
         \A i \in 1 .. Len(s) : t[i] = s[i]
  PROVE  \A i \in 0 .. Len(s) : States(base, t)[i] = States(base, s)[i]
<1> DEFINE S == {i \in Nat : i <= Len(s) => States(base, t)[i] = States(base, s)[i]}
<1>1. 0 \in S
  BY StatesStep
<1>2. ASSUME NEW n \in Nat, n \in S
      PROVE  n + 1 \in S
  <2>1. CASE n + 1 <= Len(s)
    <3>1. n + 1 \in 1 .. Len(s) /\ n + 1 \in 1 .. Len(t) /\ (n + 1) - 1 = n /\ n <= Len(s)
      BY <2>1
    <3>2. States(base, t)[n + 1] = Step(States(base, t)[n], t[n + 1])
      BY <3>1, StatesStep
    <3>3. States(base, s)[n + 1] = Step(States(base, s)[n], s[n + 1])
      BY <3>1, StatesStep
    <3>4. QED
      BY <1>2, <3>1, <3>2, <3>3
  <2>2. QED
    BY <2>1
<1>3. \A n \in Nat : n \in S
  <2> HIDE DEF S
  <2>1. QED
    BY <1>1, <1>2, Induction
<1>4. QED
  BY <1>3

(* The fold of one element more is one step more.                          *)
LEMMA FoldOfOneMore ==
  ASSUME NEW S, NEW base, NEW s \in Seq(S), NEW x \in S
  PROVE  Fold(base, s \o <<x>>) = Step(Fold(base, s), x)
<1> DEFINE t == s \o <<x>>
<1>1. /\ Len(s) \in Nat /\ Len(t) \in Nat /\ Len(t) = Len(s) + 1 /\ t[Len(t)] = x
      /\ \A i \in 1 .. Len(s) : t[i] = s[i]
  OBVIOUS
<1> HIDE DEF t
<1>2. States(base, t)[Len(s)] = States(base, s)[Len(s)]
  BY <1>1, StatesOfMore
<1>3. States(base, t)[Len(t)] = Step(States(base, t)[Len(s)], x)
  <2>1. Len(t) \in 1 .. Len(t) /\ Len(t) - 1 = Len(s)
    BY <1>1
  <2>2. QED
    BY <1>1, <2>1, StatesStep
<1>4. QED
  BY <1>2, <1>3 DEF Fold, t

(* What every round keeps, the loop keeps.                                 *)
LEMMA FoldType ==
  ASSUME NEW S, NEW R, \A r \in R, x \in S : Step(r, x) \in R
  PROVE  \A base \in R, s \in Seq(S) : Fold(base, s) \in R
<1> SUFFICES ASSUME NEW base \in R
             PROVE  \A s \in Seq(S) : Fold(base, s) \in R
  OBVIOUS
<1> DEFINE P == {s \in Seq(S) : Fold(base, s) \in R}
<1>1. <<>> \in P
  BY FoldOfNothing, EmptyInSeq
<1>2. ASSUME NEW s \in Seq(S), NEW x \in S, s \in P
      PROVE  s \o <<x>> \in P
  <2>1. Fold(base, s \o <<x>>) = Step(Fold(base, s), x)
    BY FoldOfOneMore
  <2>2. Fold(base, s) \in R
    BY <1>2
  <2>3. s \o <<x>> \in Seq(S)
    OBVIOUS
  <2>4. QED
    BY <2>1, <2>2, <2>3
<1> HIDE DEF P
<1>3. \A s \in Seq(S) : s \in P
  BY <1>1, <1>2, SeqInduction
<1>4. QED
  BY <1>3 DEF P

(* The fold of two sequences, one after the other.                         *)
LEMMA FoldOfMore ==
  ASSUME NEW S, NEW base, NEW s \in Seq(S), NEW t \in Seq(S)
  PROVE  Fold(base, s \o t) = Fold(Fold(base, s), t)
<1> DEFINE P == {u \in Seq(S) : Fold(base, s \o u) = Fold(Fold(base, s), u)}
<1>1. <<>> \in P
  <2>1. s \o <<>> = s
    OBVIOUS
  <2>2. Fold(base, s \o <<>>) = Fold(Fold(base, s), <<>>)
    BY <2>1, FoldOfNothing
  <2>3. QED
    BY <2>2, EmptyInSeq
<1>2. ASSUME NEW u \in Seq(S), NEW x \in S, u \in P
      PROVE  u \o <<x>> \in P
  <2>1. <<x>> \in Seq(S) /\ u \o <<x>> \in Seq(S) /\ s \o u \in Seq(S)
    OBVIOUS
  <2>2. s \o (u \o <<x>>) = (s \o u) \o <<x>>
    BY <2>1, Concat
  <2>3. Fold(base, (s \o u) \o <<x>>) = Step(Fold(base, s \o u), x)
    <3> DEFINE v == s \o u
    <3> HIDE DEF v
    <3>1. v \in Seq(S)
      BY <2>1 DEF v
    <3>2. Fold(base, v \o <<x>>) = Step(Fold(base, v), x)
      BY <3>1, FoldOfOneMore
    <3>3. QED
      BY <3>2 DEF v
  <2>4. Fold(Fold(base, s), u \o <<x>>) = Step(Fold(Fold(base, s), u), x)
    BY FoldOfOneMore
  <2>5. Fold(base, s \o u) = Fold(Fold(base, s), u)
    BY <1>2
  <2>6. QED
    BY <2>1, <2>2, <2>3, <2>4, <2>5
<1> HIDE DEF P
<1>3. \A u \in Seq(S) : u \in P
  BY <1>1, <1>2, SeqInduction
<1>4. QED
  BY <1>3 DEF P
============================================================================
