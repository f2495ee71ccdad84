------------------------- MODULE CompatRules_proofs -------------------------
(***************************************************************************)
(* Lemmas about the rules, as pure algorithms: that a rule and a table     *)
(* written as text read back as they were, the types of what rules fold    *)
(* into, and what each fold keeps.                                         *)
(***************************************************************************)
EXTENDS CompatBuiltin, FiniteSetTheorems, TLAPS

-----------------------------------------------------------------------------
(* Sequences *)

(* Sequences one after another: the first, and a sequence more.            *)
LEMMA FlatOfNothing == Flat(<<>>) = <<>>
BY Joining!FoldOfNothing DEF Flat

(* One sequence more goes after the others (concat).                       *)
LEMMA FlatOfOneMore ==
  ASSUME NEW S, NEW ss \in Seq(S), NEW x \in S
  PROVE  Flat(ss \o <<x>>) = Flat(ss) \o x
<1>1. Joining!Fold(<<>>, ss \o <<x>>) = Joined(Joining!Fold(<<>>, ss), x)
  BY Joining!FoldOfOneMore
<1>2. QED
  BY <1>1 DEF Flat, Joined

(* Sequences one after another are one of what their elements are.         *)
LEMMA FlatType ==
  ASSUME NEW S, NEW ss \in Seq(Seq(S))
  PROVE  Flat(ss) \in Seq(S)
<1> DEFINE P == {t \in Seq(Seq(S)) : Flat(t) \in Seq(S)}
<1>1. <<>> \in P
  <2>1. Flat(<<>>) \in Seq(S)
    BY FlatOfNothing, Joining!EmptyInSeq
  <2>2. QED
    BY <2>1, Joining!EmptyInSeq
<1>2. ASSUME NEW t \in Seq(Seq(S)), NEW x \in Seq(S), t \in P
      PROVE  t \o <<x>> \in P
  <2>1. Flat(t \o <<x>>) = Flat(t) \o x
    BY FlatOfOneMore
  <2>2. Flat(t) \in Seq(S)
    BY <1>2
  <2>3. Flat(t) \o x \in Seq(S)
    BY <2>2
  <2>3a. t \o <<x>> \in Seq(Seq(S))
    OBVIOUS
  <2>4. QED
    BY <2>1, <2>3, <2>3a
<1> HIDE DEF P
<1>3. \A t \in Seq(Seq(S)) : t \in P
  BY <1>1, <1>2, Joining!SeqInduction
<1>4. QED
  BY <1>3 DEF P

(* The elements at some positions: of nothing, and of one element more.    *)
LEMMA SelectedOfNothing ==
  ASSUME NEW I
  PROVE  Selected(<<>>, I) = <<>>
<1>1. [i \in DOMAIN <<>> |-> IF i \in I THEN << <<>>[i]>> ELSE <<>>] = <<>>
  OBVIOUS
<1>2. QED
  BY <1>1, FlatOfNothing DEF Selected

(* A filter takes one element more, or leaves it (filter).                 *)
LEMMA SelectedOfOneMore ==
  ASSUME NEW S, NEW s \in Seq(S), NEW x \in S, NEW I
  PROVE  Selected(s \o <<x>>, I) =
           IF Len(s) + 1 \in I THEN Selected(s, I) \o <<x>> ELSE Selected(s, I)
<1> DEFINE n == Len(s)
           t == s \o <<x>>
           f == [i \in DOMAIN s |-> IF i \in I THEN <<s[i]>> ELSE <<>>]
           g == [i \in DOMAIN t |-> IF i \in I THEN <<t[i]>> ELSE <<>>]
           y == IF n + 1 \in I THEN <<x>> ELSE <<>>
<1>1. /\ n \in Nat /\ DOMAIN s = 1 .. n /\ DOMAIN t = 1 .. n + 1
      /\ t[n + 1] = x /\ \A i \in 1 .. n : t[i] = s[i]
  OBVIOUS
<1>2. \A i \in 1 .. n : s[i] \in S
  OBVIOUS
<1> HIDE DEF t, n
<1>3. f \in Seq(Seq(S)) /\ Len(f) = n
  <2>1. \A i \in 1 .. n : (IF i \in I THEN <<s[i]>> ELSE <<>>) \in Seq(S)
    BY <1>2
  <2>2. f = [i \in 1 .. n |-> IF i \in I THEN <<s[i]>> ELSE <<>>]
    BY <1>1
  <2>3. QED
    BY <2>1, <2>2, <1>1
<1>4. y \in Seq(S)
  OBVIOUS
<1>5. g \in Seq(Seq(S)) /\ Len(g) = n + 1
  <2>1. \A i \in 1 .. n + 1 : t[i] \in S
    BY <1>1, <1>2
  <2>2. \A i \in 1 .. n + 1 : (IF i \in I THEN <<t[i]>> ELSE <<>>) \in Seq(S)
    BY <2>1
  <2>3. g = [i \in 1 .. n + 1 |-> IF i \in I THEN <<t[i]>> ELSE <<>>]
    BY <1>1
  <2>4. QED
    BY <2>2, <2>3, <1>1
<1>6. g = f \o <<y>>
  <2>1. \A i \in 1 .. n + 1 : g[i] = (f \o <<y>>)[i]
    <3>1. ASSUME NEW i \in 1 .. n
          PROVE  g[i] = (f \o <<y>>)[i]
      <4>1. g[i] = f[i]
        BY <1>1
      <4> HIDE DEF g, f, y
      <4>2. (f \o <<y>>)[i] = f[i]
        BY <1>3, <1>4, <1>1
      <4>3. QED
        BY <4>1, <4>2
    <3>2. g[n + 1] = y
      BY <1>1
    <3> HIDE DEF g, f, y
    <3>3. (f \o <<y>>)[n + 1] = y
      BY <1>3, <1>4, <1>1
    <3>4. \A i \in 1 .. n + 1 : i \in 1 .. n \/ i = n + 1
      BY <1>1
    <3>5. QED
      BY <3>1, <3>2, <3>3, <3>4
  <2> HIDE DEF g, f, y
  <2>2. f \o <<y>> \in Seq(Seq(S)) /\ Len(f \o <<y>>) = n + 1
    BY <1>3, <1>4, <1>1
  <2>3. QED
    BY <2>1, <2>2, <1>5, Joining!SameSeq
<1>7. Selected(t, I) = Flat(g) /\ Selected(s, I) = Flat(f)
  BY DEF Selected
<1>8. Flat(g) = Flat(f) \o y
  <2> HIDE DEF g, f, y
  <2>1. QED
    BY <1>3, <1>4, <1>6, FlatOfOneMore
<1>9. Selected(s, I) \in Seq(S)
  <2> HIDE DEF f
  <2>1. QED
    BY <1>3, <1>7, FlatType
<1>10. QED
  <2>1. Selected(t, I) = Selected(s, I) \o y
    BY <1>7, <1>8
  <2> HIDE DEF g, f
  <2>2. CASE n + 1 \in I
    BY <2>1, <2>2 DEF t, n
  <2>3. CASE n + 1 \notin I
    BY <2>1, <2>3, <1>9 DEF t, n
  <2>4. QED
    BY <2>2, <2>3 DEF n

(* What a filter takes are elements of the sequence.                       *)
LEMMA SelectedType ==
  ASSUME NEW S, NEW s \in Seq(S), NEW I
  PROVE  Selected(s, I) \in Seq(S)
<1> DEFINE P == {t \in Seq(S) : Selected(t, I) \in Seq(S)}
<1>1. <<>> \in P
  <2>1. Selected(<<>>, I) \in Seq(S)
    BY SelectedOfNothing, Joining!EmptyInSeq
  <2>2. QED
    BY <2>1, Joining!EmptyInSeq
<1>2. ASSUME NEW t \in Seq(S), NEW x \in S, t \in P
      PROVE  t \o <<x>> \in P
  <2>1. Selected(t, I) \in Seq(S)
    BY <1>2
  <2>2. Selected(t \o <<x>>, I) =
          IF Len(t) + 1 \in I THEN Selected(t, I) \o <<x>> ELSE Selected(t, I)
    BY SelectedOfOneMore
  <2> DEFINE c == Selected(t, I)
  <2>2a. c \o <<x>> \in Seq(S)
    <3> HIDE DEF c
    <3>1. c \in Seq(S)
      BY <2>1 DEF c
    <3>2. QED
      BY <3>1
  <2>3. Selected(t \o <<x>>, I) \in Seq(S)
    BY <2>1, <2>2, <2>2a
  <2>4. QED
    BY <2>3
<1> HIDE DEF P
<1>3. \A t \in Seq(S) : t \in P
  BY <1>1, <1>2, Joining!SeqInduction
<1>4. QED
  BY <1>3 DEF P

(* Only the positions that the sequence has count.                         *)
LEMMA SelectedSame ==
  ASSUME NEW S, NEW s \in Seq(S), NEW I, NEW J,
         \A i \in 1 .. Len(s) : i \in I <=> i \in J
  PROVE  Selected(s, I) = Selected(s, J)
<1>1. [i \in DOMAIN s |-> IF i \in I THEN <<s[i]>> ELSE <<>>]
        = [i \in DOMAIN s |-> IF i \in J THEN <<s[i]>> ELSE <<>>]
  OBVIOUS
<1>2. QED
  BY <1>1 DEF Selected

(* All of a sequence is the sequence, and none of it is nothing.           *)
LEMMA SelectedAll ==
  ASSUME NEW S
  PROVE  \A s \in Seq(S) : Selected(s, 1 .. Len(s)) = s
<1> DEFINE P == {s \in Seq(S) : Selected(s, 1 .. Len(s)) = s}
<1>1. <<>> \in P
  BY SelectedOfNothing, Joining!EmptyInSeq
<1>2. ASSUME NEW s \in Seq(S), NEW x \in S, s \in P
      PROVE  s \o <<x>> \in P
  <2> DEFINE t == s \o <<x>>
             I == 1 .. Len(s) + 1
             J == 1 .. Len(s)
  <2>1. t \in Seq(S) /\ Len(t) = Len(s) + 1 /\ Len(s) \in Nat
    OBVIOUS
  <2>2. Len(s) + 1 \in I /\ \A i \in 1 .. Len(s) : i \in I <=> i \in J
    BY <2>1
  <2> HIDE DEF I, J
  <2>3. Selected(t, I) = Selected(s, I) \o <<x>>
    <3>1. Selected(t, I) = IF Len(s) + 1 \in I THEN Selected(s, I) \o <<x>> ELSE Selected(s, I)
      BY SelectedOfOneMore
    <3> HIDE DEF t
    <3>2. QED
      BY <3>1, <2>2
  <2>4. Selected(s, I) = Selected(s, J)
    BY <2>2, SelectedSame
  <2>5. Selected(s, J) = s
    BY <1>2 DEF J
  <2>6. Selected(t, I) = t
    BY <2>3, <2>4, <2>5
  <2>7. I = 1 .. Len(t)
    BY <2>1 DEF I
  <2>8. QED
    BY <2>1, <2>6, <2>7
<1> HIDE DEF P
<1>3. \A s \in Seq(S) : s \in P
  BY <1>1, <1>2, Joining!SeqInduction
<1>4. QED
  BY <1>3 DEF P

(* A filter that takes no position takes nothing.                          *)
LEMMA SelectedNone ==
  ASSUME NEW S
  PROVE  \A s \in Seq(S) : Selected(s, {}) = <<>>
<1> DEFINE P == {s \in Seq(S) : Selected(s, {}) = <<>>}
<1>1. <<>> \in P
  BY SelectedOfNothing, Joining!EmptyInSeq
<1>2. ASSUME NEW s \in Seq(S), NEW x \in S, s \in P
      PROVE  s \o <<x>> \in P
  <2>1. Selected(s \o <<x>>, {}) = Selected(s, {})
    BY SelectedOfOneMore
  <2>2. Selected(s, {}) = <<>>
    BY <1>2
  <2>3. s \o <<x>> \in Seq(S)
    OBVIOUS
  <2>4. QED
    BY <2>1, <2>2, <2>3
<1> HIDE DEF P
<1>3. \A s \in Seq(S) : s \in P
  BY <1>1, <1>2, Joining!SeqInduction
<1>4. QED
  BY <1>3 DEF P

(* The positions the elements have in the sequence they are selected from: *)
(* each is one of I, they rise, and all of I are there.                    *)
IsPlaced(c, s, I, at) ==
  /\ Len(c) \in Nat
  /\ \A k \in 1 .. Len(c) : at[k] \in 1 .. Len(s) /\ at[k] \in I /\ c[k] = s[at[k]]
  /\ \A k, l \in 1 .. Len(c) : k < l => at[k] < at[l]
  /\ \A i \in 1 .. Len(s) : i \in I => \E k \in 1 .. Len(c) : at[k] = i

(* What a filter takes is where its positions are, in their order.         *)
LEMMA SelectedInOrder ==
  ASSUME NEW S, NEW I
  PROVE  \A s \in Seq(S) : \E at : IsPlaced(Selected(s, I), s, I, at)
<1> DEFINE P == {s \in Seq(S) : \E at : IsPlaced(Selected(s, I), s, I, at)}
<1>1. <<>> \in P
  <2>1. Len(<<>>) = 0
    OBVIOUS
  <2>2. IsPlaced(<<>>, <<>>, I, <<>>)
    BY <2>1 DEF IsPlaced
  <2>3. \E at : IsPlaced(Selected(<<>>, I), <<>>, I, at)
    BY <2>2, SelectedOfNothing
  <2>4. QED
    BY <2>3, Joining!EmptyInSeq
<1>2. ASSUME NEW s \in Seq(S), NEW x \in S, s \in P
      PROVE  s \o <<x>> \in P
  <2> DEFINE t == s \o <<x>>
             n == Len(s)
             c == Selected(s, I)
             d == Selected(t, I)
  <2>1. PICK at : IsPlaced(c, s, I, at)
    BY <1>2
  <2>2. /\ t \in Seq(S) /\ n \in Nat /\ Len(t) = n + 1 /\ t[n + 1] = x
        /\ \A i \in 1 .. n : t[i] = s[i]
    OBVIOUS
  <2>3. c \in Seq(S)
    BY SelectedType
  <2>4. d = IF n + 1 \in I THEN c \o <<x>> ELSE c
    BY SelectedOfOneMore
  <2> HIDE DEF t, n, c, d
  <2>5. \E to : IsPlaced(d, t, I, to)
    <3>1. CASE n + 1 \notin I
      <4>1. d = c
        BY <2>4, <3>1
      <4>2. n = Len(s)
        BY DEF n
      <4>3. IsPlaced(c, t, I, at)
        BY <2>1, <2>2, <3>1, <4>2 DEF IsPlaced
      <4>4. QED
        BY <4>1, <4>3
    <3>2. CASE n + 1 \in I
      <4> DEFINE m == Len(c)
                 to == [k \in 1 .. m + 1 |-> IF k = m + 1 THEN n + 1 ELSE at[k]]
      <4>1. /\ m \in Nat /\ Len(d) = m + 1 /\ d[m + 1] = x
            /\ \A k \in 1 .. m : d[k] = c[k]
        BY <2>3, <2>4, <3>2
      <4>2. \A k \in 1 .. m : at[k] \in 1 .. n /\ at[k] \in I /\ c[k] = s[at[k]]
        BY <2>1 DEF IsPlaced, n
      <4>3. \A k, l \in 1 .. m : k < l => at[k] < at[l]
        BY <2>1 DEF IsPlaced
      <4>4. \A i \in 1 .. n : i \in I => \E k \in 1 .. m : at[k] = i
        BY <2>1 DEF IsPlaced, n
      <4> HIDE DEF m
      <4>5. to[m + 1] = n + 1 /\ \A k \in 1 .. m : to[k] = at[k]
        BY <4>1
      <4> HIDE DEF to
      <4>6. \A k \in 1 .. m + 1 : k \in 1 .. m \/ k = m + 1
        BY <4>1
      <4>7. ASSUME NEW k \in 1 .. m + 1
            PROVE  to[k] \in 1 .. n + 1 /\ to[k] \in I /\ d[k] = t[to[k]]
        <5>1. CASE k \in 1 .. m
          BY <5>1, <4>1, <4>2, <4>5, <2>2
        <5>2. CASE k = m + 1
          BY <5>2, <4>1, <4>5, <2>2, <3>2
        <5>3. QED
          BY <5>1, <5>2, <4>6
      <4>8. ASSUME NEW k \in 1 .. m + 1, NEW l \in 1 .. m + 1, k < l
            PROVE  to[k] < to[l]
        <5>1. k \in 1 .. m
          BY <4>8, <4>1
        <5>2. CASE l \in 1 .. m
          BY <5>1, <5>2, <4>3, <4>5, <4>8
        <5>3. CASE l = m + 1
          <6>1. at[k] \in 1 .. n
            BY <5>1, <4>2
          <6>2. QED
            BY <5>1, <5>3, <6>1, <4>5, <2>2
        <5>4. QED
          BY <5>2, <5>3, <4>6
      <4>9. ASSUME NEW i \in 1 .. n + 1, i \in I
            PROVE  \E k \in 1 .. m + 1 : to[k] = i
        <5>1. CASE i \in 1 .. n
          <6>1. PICK k \in 1 .. m : at[k] = i
            BY <5>1, <4>4, <4>9
          <6>2. k \in 1 .. m + 1 /\ to[k] = i
            BY <6>1, <4>1, <4>5
          <6>3. QED
            BY <6>2
        <5>2. CASE i = n + 1
          <6>1. m + 1 \in 1 .. m + 1
            BY <4>1
          <6>2. QED
            BY <6>1, <5>2, <4>5
        <5>3. QED
          BY <5>1, <5>2, <2>2
      <4>10. IsPlaced(d, t, I, to)
        BY <2>2, <4>1, <4>7, <4>8, <4>9 DEF IsPlaced
      <4>11. QED
        BY <4>10
    <3>3. QED
      BY <3>1, <3>2
  <2>6. QED
    BY <2>2, <2>5 DEF d, t
<1> HIDE DEF P
<1>3. \A s \in Seq(S) : s \in P
  BY <1>1, <1>2, Joining!SeqInduction
<1>4. QED
  BY <1>3 DEF P

-----------------------------------------------------------------------------
(* Splitting and joining *)

(* Part of a sequence, and of the sequence made longer. *)
LEMMA PartIs ==
  ASSUME NEW S, NEW t \in Seq(S), NEW a \in 1 .. Len(t) + 1, NEW b \in a - 1 .. Len(t)
  PROVE  /\ SubSeq(t, a, b) \in Seq(S)
         /\ Len(SubSeq(t, a, b)) = b - a + 1
         /\ \A i \in 1 .. b - a + 1 : SubSeq(t, a, b)[i] = t[a + i - 1]
<1>1. SubSeq(t, a, b) = [i \in 1 .. b - a + 1 |-> t[a + i - 1]]
  OBVIOUS
<1>2. \A i \in 1 .. b - a + 1 : a + i - 1 \in 1 .. Len(t)
  OBVIOUS
<1>3. b - a + 1 \in Nat
  OBVIOUS
<1>4. \A i \in 1 .. b - a + 1 : t[a + i - 1] \in S
  BY <1>2
<1>5. QED
  BY <1>1, <1>3, <1>4

(* The parts of a text and of one with a word more.                        *)
LEMMA PartOfMore ==
  ASSUME NEW S, NEW t \in Seq(S), NEW x \in S,
         NEW a \in 1 .. Len(t) + 1, NEW b \in a - 1 .. Len(t)
  PROVE  /\ SubSeq(t \o <<x>>, a, b) = SubSeq(t, a, b)
         /\ SubSeq(t \o <<x>>, a, Len(t) + 1) = SubSeq(t, a, Len(t)) \o <<x>>
<1> DEFINE u == t \o <<x>>
           n == Len(t)
<1>1. /\ u \in Seq(S) /\ n \in Nat /\ Len(u) = n + 1 /\ u[n + 1] = x
      /\ \A i \in 1 .. n : u[i] = t[i]
  OBVIOUS
<1>2. a \in 1 .. n + 1 /\ b \in a - 1 .. n /\ n \in a - 1 .. n /\ n + 1 \in a - 1 .. n + 1
  BY <1>1
<1> HIDE DEF u
<1>3. a \in 1 .. Len(u) + 1 /\ b \in a - 1 .. Len(u) /\ Len(u) \in a - 1 .. Len(u)
  BY <1>1, <1>2
<1>4. SubSeq(u, a, b) = SubSeq(t, a, b)
  <2>1. /\ SubSeq(u, a, b) \in Seq(S) /\ Len(SubSeq(u, a, b)) = b - a + 1
        /\ \A i \in 1 .. b - a + 1 : SubSeq(u, a, b)[i] = u[a + i - 1]
    BY <1>1, <1>3, PartIs
  <2>2. /\ SubSeq(t, a, b) \in Seq(S) /\ Len(SubSeq(t, a, b)) = b - a + 1
        /\ \A i \in 1 .. b - a + 1 : SubSeq(t, a, b)[i] = t[a + i - 1]
    BY PartIs
  <2>3. \A i \in 1 .. b - a + 1 : a + i - 1 \in 1 .. n
    BY <1>1, <1>2
  <2>4. \A i \in 1 .. b - a + 1 : SubSeq(u, a, b)[i] = SubSeq(t, a, b)[i]
    BY <2>1, <2>2, <2>3, <1>1
  <2>5. QED
    BY <2>1, <2>2, <2>4, Joining!SameSeq
<1>5. SubSeq(u, a, n + 1) = SubSeq(t, a, n) \o <<x>>
  <2> DEFINE v == SubSeq(u, a, n + 1)
             w == SubSeq(t, a, n)
             m == n - a + 1
  <2>1. v \in Seq(S) /\ Len(v) = m + 1 /\ \A i \in 1 .. m + 1 : v[i] = u[a + i - 1]
    BY <1>1, <1>3, PartIs
  <2>2. w \in Seq(S) /\ Len(w) = m /\ \A i \in 1 .. m : w[i] = t[a + i - 1]
    BY <1>2, PartIs
  <2>3. m \in Nat /\ a + (m + 1) - 1 = n + 1 /\ \A i \in 1 .. m : a + i - 1 \in 1 .. n
    BY <1>1, <1>2
  <2> HIDE DEF v, w, m
  <2>4. /\ w \o <<x>> \in Seq(S) /\ Len(w \o <<x>>) = m + 1 /\ (w \o <<x>>)[m + 1] = x
        /\ \A i \in 1 .. m : (w \o <<x>>)[i] = w[i]
    BY <2>2
  <2>5. \A i \in 1 .. m : v[i] = w[i]
    <3>1. \A i \in 1 .. m : i \in 1 .. m + 1
      BY <2>3
    <3>2. QED
      BY <2>1, <2>2, <2>3, <3>1, <1>1
  <2>6. v[m + 1] = x
    <3>1. m + 1 \in 1 .. m + 1
      BY <2>3
    <3>2. v[m + 1] = u[n + 1]
      BY <2>1, <2>3, <3>1
    <3>3. QED
      BY <3>2, <1>1
  <2>7. \A i \in 1 .. m + 1 : v[i] = (w \o <<x>>)[i]
    <3>1. \A i \in 1 .. m + 1 : i \in 1 .. m \/ i = m + 1
      BY <2>3
    <3>2. QED
      BY <2>4, <2>5, <2>6, <3>1
  <2>8. v = w \o <<x>>
    BY <2>1, <2>4, <2>7, Joining!SameSeq
  <2>9. QED
    BY <2>8 DEF v, w
<1>6. QED
  BY <1>4, <1>5 DEF u

(* Where a text is cut. *)
Numbers(n) == [i \in 1 .. n |-> i]
Cuts(text, separator) ==
  Selected(Numbers(Len(text)), {i \in 1 .. Len(text) : text[i] = separator})

(* Positions are numbers; one more is the last.                            *)
LEMMA NumbersMore ==
  ASSUME NEW n \in Nat
  PROVE  /\ Numbers(n) \in Seq(Nat) /\ Len(Numbers(n)) = n
         /\ Numbers(n + 1) = Numbers(n) \o <<n + 1>>
<1>1. Numbers(n) \in Seq(Nat) /\ Len(Numbers(n)) = n /\ \A i \in 1 .. n : Numbers(n)[i] = i
  BY DEF Numbers
<1>2. /\ Numbers(n + 1) \in Seq(Nat) /\ Len(Numbers(n + 1)) = n + 1
      /\ \A i \in 1 .. n + 1 : Numbers(n + 1)[i] = i
  BY DEF Numbers
<1> DEFINE a == Numbers(n)
           b == Numbers(n + 1)
<1> HIDE DEF a, b
<1>3. /\ a \o <<n + 1>> \in Seq(Nat) /\ Len(a \o <<n + 1>>) = n + 1
      /\ (a \o <<n + 1>>)[n + 1] = n + 1 /\ \A i \in 1 .. n : (a \o <<n + 1>>)[i] = a[i]
  BY <1>1 DEF a
<1>4. \A i \in 1 .. n + 1 : (a \o <<n + 1>>)[i] = b[i]
  <2>1. \A i \in 1 .. n + 1 : i \in 1 .. n \/ i = n + 1
    OBVIOUS
  <2>2. \A i \in 1 .. n : (a \o <<n + 1>>)[i] = i
    BY <1>1, <1>3 DEF a
  <2>3. QED
    BY <2>1, <2>2, <1>2, <1>3 DEF b
<1>5. b = a \o <<n + 1>>
  <2>1. b \in Seq(Nat) /\ Len(b) = n + 1
    BY <1>2 DEF b
  <2>2. QED
    BY <2>1, <1>3, <1>4, Joining!SameSeq
<1>6. QED
  BY <1>1, <1>5 DEF a, b

(* The separators of a text are positions of it, in their order (split).   *)
LEMMA CutsAre ==
  ASSUME NEW S, NEW t \in Seq(S), NEW separator
  PROVE  /\ Cuts(t, separator) \in Seq(Nat)
         /\ \A k \in 1 .. Len(Cuts(t, separator)) : Cuts(t, separator)[k] \in 1 .. Len(t)
         /\ \A k, l \in 1 .. Len(Cuts(t, separator)) :
              k < l => Cuts(t, separator)[k] < Cuts(t, separator)[l]
<1> DEFINE c == Cuts(t, separator)
           s == Numbers(Len(t))
           I == {i \in 1 .. Len(t) : t[i] = separator}
<1>1. Len(t) \in Nat
  OBVIOUS
<1>2. s \in Seq(Nat) /\ Len(s) = Len(t)
  BY <1>1, NumbersMore
<1>3. \A i \in 1 .. Len(t) : s[i] = i
  BY DEF Numbers
<1>4. c = Selected(s, I)
  BY DEF Cuts
<1> HIDE DEF c, s, I
<1>5. c \in Seq(Nat)
  BY <1>2, <1>4, SelectedType
<1>6. PICK at : IsPlaced(c, s, I, at)
  BY <1>2, <1>4, SelectedInOrder
<1>7. \A k \in 1 .. Len(c) : at[k] \in 1 .. Len(t) /\ c[k] = at[k]
  BY <1>2, <1>3, <1>6 DEF IsPlaced
<1>8. \A k, l \in 1 .. Len(c) : k < l => c[k] < c[l]
  BY <1>6, <1>7 DEF IsPlaced
<1>9. QED
  BY <1>5, <1>7, <1>8 DEF c

(* One word more is a separator more, or none.                             *)
LEMMA CutsOfMore ==
  ASSUME NEW S, NEW t \in Seq(S), NEW x \in S, NEW separator
  PROVE  Cuts(t \o <<x>>, separator) =
           IF x = separator THEN Cuts(t, separator) \o <<Len(t) + 1>> ELSE Cuts(t, separator)
<1> DEFINE u == t \o <<x>>
           n == Len(t)
           I == {i \in 1 .. n : t[i] = separator}
           J == {i \in 1 .. n + 1 : u[i] = separator}
<1>1. n \in Nat /\ Len(u) = n + 1 /\ u[n + 1] = x /\ \A i \in 1 .. n : u[i] = t[i]
  OBVIOUS
<1>2. Cuts(u, separator) = Selected(Numbers(n + 1), J) /\ Cuts(t, separator) = Selected(Numbers(n), I)
  BY <1>1 DEF Cuts
<1>3. n + 1 \in J <=> x = separator
  BY <1>1
<1>4. \A i \in 1 .. n : i \in J <=> i \in I
  BY <1>1
<1> HIDE DEF u, n, I, J
<1>5. Numbers(n) \in Seq(Nat) /\ Len(Numbers(n)) = n /\ Numbers(n + 1) = Numbers(n) \o <<n + 1>>
  BY <1>1, NumbersMore
<1> DEFINE s == Numbers(n)
<1> HIDE DEF s
<1>6. n + 1 \in Nat /\ s \in Seq(Nat) /\ Len(s) = n
  BY <1>1, <1>5 DEF s
<1>7. Selected(s \o <<n + 1>>, J) =
        IF Len(s) + 1 \in J THEN Selected(s, J) \o <<n + 1>> ELSE Selected(s, J)
  <2> DEFINE N == Nat
             y == n + 1
  <2>1. s \in Seq(N) /\ y \in N
    BY <1>6
  <2> HIDE DEF N, y
  <2>2. Selected(s \o <<y>>, J) =
          IF Len(s) + 1 \in J THEN Selected(s, J) \o <<y>> ELSE Selected(s, J)
    BY ONLY <2>1, SelectedOfOneMore
  <2>3. QED
    BY ONLY <2>2 DEF y
<1>8. Selected(s, J) = Selected(s, I)
  BY <1>6, <1>4, SelectedSame
<1>9. Cuts(u, separator) =
        IF x = separator THEN Cuts(t, separator) \o <<n + 1>> ELSE Cuts(t, separator)
  BY <1>2, <1>3, <1>5, <1>6, <1>7, <1>8 DEF s
<1>10. QED
  BY <1>9 DEF u, n

(* A text in parts: the parts begin after a cut, and end before the next.  *)
Begins(c, k) == (IF k = 1 THEN 0 ELSE c[k - 1]) + 1
Ends(c, n, k) == IF k = Len(c) + 1 THEN n ELSE c[k] - 1

(* The pieces split gives are what is between the separators.              *)
LEMMA SplitIs ==
  ASSUME NEW S, NEW t \in Seq(S), NEW separator
  PROVE  LET c == Cuts(t, separator)
         IN Split(t, separator) =
              [k \in 1 .. Len(c) + 1 |-> SubSeq(t, Begins(c, k), Ends(c, Len(t), k))]
<1> DEFINE c == Cuts(t, separator)
           n == Len(t)
           I == {i \in 1 .. n + 1 : i > n \/ t[i] = separator}
           J == {i \in 1 .. n : t[i] = separator}
           s == Numbers(n)
           ends == Selected([i \in 1 .. n + 1 |-> i], I)
<1>1. n \in Nat
  OBVIOUS
<1>2. n + 1 \in I /\ \A i \in 1 .. n : i \in I <=> i \in J
  OBVIOUS
<1>3. c = Selected(s, J)
  BY DEF Cuts
<1>4. [i \in 1 .. n + 1 |-> i] = s \o <<n + 1>> /\ s \in Seq(Nat) /\ Len(s) = n
  BY <1>1, NumbersMore DEF Numbers
<1>5. Split(t, separator) =
        [k \in DOMAIN ends |-> SubSeq(t, (IF k = 1 THEN 0 ELSE ends[k - 1]) + 1, ends[k] - 1)]
  BY DEF Split
<1>6. c \in Seq(Nat) /\ Len(c) \in Nat
  BY CutsAre
<1> HIDE DEF I, J, s
<1>7. ends = Selected(s \o <<n + 1>>, I)
  BY <1>4
<1>8. ends = c \o <<n + 1>>
  <2>1. n + 1 \in Nat
    BY <1>1
  <2> DEFINE x == n + 1
             N == Nat
  <2> HIDE DEF n, x
  <2>2. Selected(s \o <<x>>, I) =
          IF Len(s) + 1 \in I THEN Selected(s, I) \o <<x>> ELSE Selected(s, I)
    <3>1. s \in Seq(N) /\ x \in N
      BY <1>4, <2>1 DEF x
    <3> HIDE DEF N
    <3>2. QED
      BY ONLY <3>1, SelectedOfOneMore
  <2>3. Selected(s, I) = Selected(s, J)
    BY <1>4, <1>2, SelectedSame
  <2> HIDE DEF ends, c
  <2>4. QED
    BY <1>2, <1>3, <1>4, <1>7, <2>2, <2>3 DEF x
<1> HIDE DEF c, n, ends
<1>9. /\ DOMAIN ends = 1 .. Len(c) + 1 /\ ends[Len(c) + 1] = n + 1
      /\ \A k \in 1 .. Len(c) : ends[k] = c[k]
  BY <1>1, <1>6, <1>8
<1>10. ASSUME NEW k \in 1 .. Len(c) + 1
       PROVE  SubSeq(t, (IF k = 1 THEN 0 ELSE ends[k - 1]) + 1, ends[k] - 1)
                = SubSeq(t, Begins(c, k), Ends(c, n, k))
  <2>1. (IF k = 1 THEN 0 ELSE ends[k - 1]) + 1 = Begins(c, k)
    <3>1. k # 1 => k - 1 \in 1 .. Len(c)
      BY <1>6
    <3>2. QED
      BY <3>1, <1>9 DEF Begins
  <2>2. ends[k] - 1 = Ends(c, n, k)
    <3>1. CASE k = Len(c) + 1
      BY <3>1, <1>1, <1>9 DEF Ends
    <3>2. CASE k # Len(c) + 1
      <4>1. k \in 1 .. Len(c)
        BY <3>2, <1>6
      <4>2. QED
        BY <3>2, <4>1, <1>9 DEF Ends
    <3>3. QED
      BY <3>1, <3>2
  <2>3. QED
    BY <2>1, <2>2
<1>11. QED
  BY <1>5, <1>9, <1>10 DEF c, n

(* Every piece lies in the text.                                           *)
LEMMA PartsFit ==
  ASSUME NEW S, NEW t \in Seq(S), NEW separator,
         NEW k \in 1 .. Len(Cuts(t, separator)) + 1
  PROVE  LET c == Cuts(t, separator)
         IN Begins(c, k) \in 1 .. Len(t) + 1 /\ Ends(c, Len(t), k) \in Begins(c, k) - 1 .. Len(t)
<1> DEFINE c == Cuts(t, separator)
           n == Len(t)
<1>1. /\ n \in Nat /\ Len(c) \in Nat
      /\ \A j \in 1 .. Len(c) : c[j] \in 1 .. n
      /\ \A i, j \in 1 .. Len(c) : i < j => c[i] < c[j]
  BY CutsAre
<1> HIDE DEF c, n
<1>2. k \in 1 .. Len(c) + 1
  BY DEF c
<1>3. k # 1 => k - 1 \in 1 .. Len(c)
  BY <1>1, <1>2
<1>4. k # Len(c) + 1 => k \in 1 .. Len(c)
  BY <1>1, <1>2
<1>5. Begins(c, k) \in 1 .. n + 1
  BY <1>1, <1>3 DEF Begins
<1>6. Ends(c, n, k) \in Begins(c, k) - 1 .. n
  <2>1. CASE k = Len(c) + 1
    BY <2>1, <1>5, <1>1 DEF Ends
  <2>2. CASE k # Len(c) + 1 /\ k = 1
    <3>1. c[k] \in 1 .. n
      BY <2>2, <1>1, <1>4
    <3>2. QED
      BY <2>2, <1>1, <3>1 DEF Ends, Begins
  <2>3. CASE k # Len(c) + 1 /\ k # 1
    <3>1. c[k] \in 1 .. n /\ c[k - 1] \in 1 .. n /\ c[k - 1] < c[k]
      BY <2>3, <1>1, <1>3, <1>4
    <3>2. QED
      BY <2>3, <1>1, <3>1 DEF Ends, Begins
  <2>4. QED
    BY <2>1, <2>2, <2>3
<1>7. QED
  BY <1>5, <1>6 DEF c, n

(* split gives texts: one more than there are separators.                  *)
LEMMA SplitType ==
  ASSUME NEW S, NEW t \in Seq(S), NEW separator
  PROVE  /\ Split(t, separator) \in Seq(Seq(S))
         /\ Len(Split(t, separator)) = Len(Cuts(t, separator)) + 1
         /\ Len(Split(t, separator)) \in Nat \ {0}
<1> DEFINE c == Cuts(t, separator)
           n == Len(t)
<1>1. Split(t, separator) = [k \in 1 .. Len(c) + 1 |-> SubSeq(t, Begins(c, k), Ends(c, n, k))]
  BY SplitIs
<1>2. \A k \in 1 .. Len(c) + 1 :
        Begins(c, k) \in 1 .. n + 1 /\ Ends(c, n, k) \in Begins(c, k) - 1 .. n
  BY PartsFit
<1>3. ASSUME NEW k \in 1 .. Len(c) + 1
      PROVE  SubSeq(t, Begins(c, k), Ends(c, n, k)) \in Seq(S)
  BY <1>2, PartIs
<1>4. Len(c) \in Nat
  BY CutsAre
<1> HIDE DEF c, n
<1>5. QED
  BY <1>1, <1>3, <1>4 DEF c

Longer(p, x) == [p EXCEPT ![Len(p)] = @ \o <<x>>]
GrownBy(p, x, separator) == IF x = separator THEN p \o << <<>> >> ELSE Longer(p, x)

(* A word more begins a new piece, or makes the last one longer.           *)
LEMMA SplitOfMore ==
  ASSUME NEW S, NEW t \in Seq(S), NEW x \in S, NEW separator
  PROVE  Split(t \o <<x>>, separator) = GrownBy(Split(t, separator), x, separator)
<1> USE DEF GrownBy, Longer
<1> DEFINE u == t \o <<x>>
           n == Len(t)
           c == Cuts(t, separator)
           d == Cuts(u, separator)
           m == Len(c)
           p == Split(t, separator)
           q == Split(u, separator)
<1>1. u \in Seq(S) /\ n \in Nat /\ Len(u) = n + 1
  OBVIOUS
<1>2. d = IF x = separator THEN c \o <<n + 1>> ELSE c
  BY CutsOfMore
<1>3. c \in Seq(Nat) /\ m \in Nat /\ \A k \in 1 .. m : c[k] \in 1 .. n
  BY CutsAre
<1>4. \A k \in 1 .. m + 1 : Begins(c, k) \in 1 .. n + 1 /\ Ends(c, n, k) \in Begins(c, k) - 1 .. n
  BY PartsFit
<1>5. p = [k \in 1 .. m + 1 |-> SubSeq(t, Begins(c, k), Ends(c, n, k))]
  BY SplitIs
<1> HIDE DEF u
<1>6. q = [k \in 1 .. Len(d) + 1 |-> SubSeq(u, Begins(d, k), Ends(d, Len(u), k))]
  BY <1>1, SplitIs
<1>7. p \in Seq(Seq(S)) /\ Len(p) = m + 1
  BY SplitType
<1>8. q \in Seq(Seq(S)) /\ Len(q) = Len(d) + 1
  BY <1>1, SplitType
<1>9. ASSUME NEW k \in 1 .. m + 1
      PROVE  /\ SubSeq(u, Begins(c, k), Ends(c, n, k)) = SubSeq(t, Begins(c, k), Ends(c, n, k))
             /\ SubSeq(u, Begins(c, k), n + 1) = SubSeq(t, Begins(c, k), n) \o <<x>>
  BY <1>4, PartOfMore DEF u
<1> HIDE DEF n, c, d, m, p, q
<1>10. CASE x = separator
  <2>1. /\ d \in Seq(Nat) /\ Len(d) = m + 1 /\ d[m + 1] = n + 1
        /\ \A k \in 1 .. m : d[k] = c[k]
    BY <1>1, <1>2, <1>3, <1>10 DEF m
  <2>2. ASSUME NEW k \in 1 .. m + 1
        PROVE  q[k] = p[k]
    <3>1. Begins(d, k) = Begins(c, k)
      <4>1. k # 1 => k - 1 \in 1 .. m
        BY <1>3
      <4>2. QED
        BY <4>1, <2>1 DEF Begins
    <3>2. Ends(d, n + 1, k) = Ends(c, n, k)
      <4>1. k = m + 1 => d[k] - 1 = n
        BY <2>1, <1>1
      <4>2. k # m + 1 => k \in 1 .. m
        BY <1>3
      <4>3. k # Len(d) + 1
        BY <2>1, <1>3
      <4>4. Ends(d, n + 1, k) = d[k] - 1
        BY <4>3 DEF Ends
      <4>5. Ends(c, n, k) = IF k = m + 1 THEN n ELSE c[k] - 1
        BY DEF Ends, m
      <4>6. QED
        BY <4>1, <4>2, <4>4, <4>5, <2>1
    <3>3. k \in 1 .. Len(d) + 1
      BY <2>1, <1>3
    <3>4. q[k] = SubSeq(u, Begins(d, k), Ends(d, n + 1, k))
      BY <3>3, <1>6, <1>1
    <3>5. p[k] = SubSeq(t, Begins(c, k), Ends(c, n, k))
      BY <1>5
    <3>6. QED
      BY <3>1, <3>2, <3>4, <3>5, <1>9
  <2>3. q[m + 2] = <<>>
    <3>1. m + 2 \in 1 .. Len(d) + 1 /\ m + 2 # 1 /\ (m + 2) - 1 = m + 1 /\ m + 2 = Len(d) + 1
      BY <2>1, <1>3
    <3>2. Begins(d, m + 2) = n + 2
      BY <3>1, <2>1, <1>1 DEF Begins
    <3>3. Ends(d, n + 1, m + 2) = n + 1
      BY <3>1 DEF Ends
    <3>4. q[m + 2] = SubSeq(u, n + 2, n + 1)
      BY <3>1, <3>2, <3>3, <1>6, <1>1
    <3>5. n + 2 \in 1 .. Len(u) + 1 /\ n + 1 \in (n + 2) - 1 .. Len(u) /\ (n + 1) - (n + 2) + 1 = 0
      BY <1>1
    <3>6. SubSeq(u, n + 2, n + 1) \in Seq(S) /\ Len(SubSeq(u, n + 2, n + 1)) = 0
      <4> DEFINE a == n + 2
                 b == n + 1
      <4>1. a \in 1 .. Len(u) + 1 /\ b \in a - 1 .. Len(u) /\ b - a + 1 = 0
        BY <3>5
      <4> HIDE DEF a, b
      <4>2. SubSeq(u, a, b) \in Seq(S) /\ Len(SubSeq(u, a, b)) = b - a + 1
        BY <4>1, <1>1, PartIs
      <4>3. QED
        BY <4>1, <4>2 DEF a, b
    <3>7. QED
      BY <3>4, <3>6
  <2>4. /\ p \o << <<>> >> \in Seq(Seq(S)) /\ Len(p \o << <<>> >>) = m + 2
        /\ (p \o << <<>> >>)[m + 2] = <<>> /\ \A k \in 1 .. m + 1 : (p \o << <<>> >>)[k] = p[k]
    BY <1>7, <1>3, Joining!EmptyInSeq
  <2>5. \A k \in 1 .. m + 2 : q[k] = (p \o << <<>> >>)[k]
    <3>1. \A k \in 1 .. m + 2 : k \in 1 .. m + 1 \/ k = m + 2
      BY <1>3
    <3>2. QED
      BY <3>1, <2>2, <2>3, <2>4
  <2>6. q = p \o << <<>> >>
    <3>1. Len(q) = m + 2
      BY <1>8, <2>1, <1>3
    <3>2. QED
      BY <3>1, <1>8, <2>4, <2>5, Joining!SameSeq
  <2>7. QED
    BY <2>6, <1>10 DEF p, q, u
<1>11. CASE x # separator
  <2>1. d = c
    BY <1>2, <1>11
  <2> DEFINE r == [p EXCEPT ![m + 1] = @ \o <<x>>]
  <2>2. \A k \in 1 .. m + 1 : q[k] = SubSeq(u, Begins(c, k), Ends(c, n + 1, k))
    BY <1>1, <1>6, <2>1 DEF m
  <2>3. q[m + 1] = p[m + 1] \o <<x>>
    <3>1. Ends(c, n + 1, m + 1) = n + 1 /\ Ends(c, n, m + 1) = n
      BY DEF Ends, m
    <3>2. m + 1 \in 1 .. m + 1
      BY <1>3
    <3>3. QED
      BY <3>1, <3>2, <2>2, <1>5, <1>9
  <2>4. ASSUME NEW k \in 1 .. m
        PROVE  q[k] = p[k]
    <3>1. k # m + 1 /\ k \in 1 .. m + 1
      BY <1>3
    <3>2. Ends(c, n + 1, k) = Ends(c, n, k)
      BY <3>1 DEF Ends, m
    <3>3. QED
      BY <3>1, <3>2, <2>2, <1>5, <1>9
  <2>5. DOMAIN q = 1 .. m + 1 /\ DOMAIN p = 1 .. m + 1 /\ q = [k \in 1 .. m + 1 |-> q[k]]
    BY <1>5, <1>6, <2>1 DEF m
  <2>6. q = r
    <3>1. r = [k \in 1 .. m + 1 |-> IF k = m + 1 THEN p[m + 1] \o <<x>> ELSE p[k]]
      BY <2>5
    <3>2. \A k \in 1 .. m + 1 : k \in 1 .. m \/ k = m + 1
      BY <1>3
    <3>3. \A k \in 1 .. m + 1 : q[k] = IF k = m + 1 THEN p[m + 1] \o <<x>> ELSE p[k]
      BY <3>2, <2>3, <2>4
    <3> HIDE DEF r
    <3>4. QED
      BY <2>5, <3>1, <3>3
  <2>7. QED
    BY <2>6, <1>7, <1>11 DEF p, q, u
<1>12. QED
  BY <1>10, <1>11

(* A text without the separator is one part. *)
Lacks(t, separator) == \A i \in 1 .. Len(t) : t[i] # separator

(* A longer text lacks a word when its start and its last word do.         *)
LEMMA LacksMore ==
  ASSUME NEW S, NEW t \in Seq(S), NEW x \in S, NEW separator
  PROVE  Lacks(t \o <<x>>, separator) <=> Lacks(t, separator) /\ x # separator
<1>1. /\ Len(t) \in Nat /\ Len(t \o <<x>>) = Len(t) + 1 /\ (t \o <<x>>)[Len(t) + 1] = x
      /\ \A i \in 1 .. Len(t) : (t \o <<x>>)[i] = t[i]
  OBVIOUS
<1>2. QED
  BY <1>1 DEF Lacks

(* split of the empty text is one piece, which is empty.                   *)
LEMMA SplitOfNothing ==
  ASSUME NEW separator
  PROVE  Split(<<>>, separator) = << <<>> >>
<1> DEFINE t == <<>>
           c == Cuts(t, separator)
<1>1. t \in Seq(Nat) /\ Len(t) = 0
  OBVIOUS
<1>2. Numbers(0) = <<>>
  BY DEF Numbers
<1>3. Len(c) = 0
  <2>1. c = <<>>
    BY <1>1, <1>2, SelectedOfNothing DEF Cuts
  <2>2. QED
    BY <2>1
<1>4. SubSeq(t, 1, 0) = <<>>
  OBVIOUS
<1> HIDE DEF t
<1>5. Split(t, separator) = [k \in 1 .. Len(c) + 1 |-> SubSeq(t, Begins(c, k), Ends(c, Len(t), k))]
  BY <1>1, SplitIs
<1> HIDE DEF c
<1>6. Begins(c, 1) = 1 /\ Ends(c, 0, 1) = 0
  BY <1>3 DEF Begins, Ends
<1>7. Split(t, separator) = [k \in 1 .. 1 |-> <<>>]
  BY <1>1, <1>3, <1>4, <1>5, <1>6
<1>8. QED
  BY <1>7 DEF t

(* A text without the separator is its only piece.                         *)
LEMMA SplitOfOne ==
  ASSUME NEW S, NEW separator
  PROVE  \A y \in Seq(S) : Lacks(y, separator) => Split(y, separator) = <<y>>
<1> DEFINE P == {y \in Seq(S) : Lacks(y, separator) => Split(y, separator) = <<y>>}
<1>1. <<>> \in P
  BY SplitOfNothing, Joining!EmptyInSeq
<1>2. ASSUME NEW y \in Seq(S), NEW x \in S, y \in P
      PROVE  y \o <<x>> \in P
  <2>1. y \o <<x>> \in Seq(S)
    OBVIOUS
  <2>2. SUFFICES ASSUME Lacks(y \o <<x>>, separator)
                 PROVE  Split(y \o <<x>>, separator) = <<y \o <<x>> >>
    BY <2>1
  <2>3. Lacks(y, separator) /\ x # separator
    BY <2>2, LacksMore
  <2>4. Split(y, separator) = <<y>>
    BY <1>2, <2>3
  <2>5. Split(y \o <<x>>, separator) = GrownBy(Split(y, separator), x, separator)
    BY SplitOfMore
  <2> DEFINE z == y \o <<x>>
  <2>6. Split(z, separator) = Longer(<<y>>, x)
    BY <2>3, <2>4, <2>5 DEF GrownBy
  <2>7. Longer(<<y>>, x) = <<y \o <<x>> >>
    BY DEF Longer
  <2>8. QED
    BY <2>6, <2>7
<1> HIDE DEF P
<1>3. \A y \in Seq(S) : y \in P
  BY <1>1, <1>2, Joining!SeqInduction
<1>4. QED
  BY <1>3 DEF P

(* SplitOfMore, for every text over some words.                            *)
LEMMA SplitsOfMore ==
  ASSUME NEW S, NEW separator
  PROVE  \A v \in Seq(S), x \in S :
           Split(v \o <<x>>, separator) = GrownBy(Split(v, separator), x, separator)
<1> TAKE v \in Seq(S), x \in S
<1> QED
  BY SplitOfMore

(* Behind a separator, a text without it is one part more. *)
LEMMA SplitOfOneMore ==
  ASSUME NEW S, NEW separator \in S, NEW t \in Seq(S)
  PROVE  \A y \in Seq(S) :
           Lacks(y, separator) => Split((t \o <<separator>>) \o y, separator) = Split(t, separator) \o <<y>>
<1> DEFINE u == t \o <<separator>>
           p == Split(t, separator)
           P == {y \in Seq(S) : Lacks(y, separator) => Split(u \o y, separator) = p \o <<y>>}
<1>a. \A v \in Seq(S), x \in S :
        Split(v \o <<x>>, separator) =
          GrownBy(Split(v, separator), x, separator)
  BY SplitsOfMore
<1>b. Split(u, separator) = p \o << <<>> >>
  <2>1. Split(u, separator) = GrownBy(p, separator, separator)
    BY <1>a
  <2>2. QED
    BY <2>1 DEF GrownBy
<1>0. u \in Seq(S) /\ p \in Seq(Seq(S))
  BY SplitType
<1> HIDE DEF u, p
<1>1. <<>> \in P
  <2>1. u \o <<>> = u
    BY <1>0
  <2>2. Split(u \o <<>>, separator) = p \o << <<>> >>
    BY <1>b, <2>1
  <2>3. QED
    BY <2>2, Joining!EmptyInSeq
<1>2. ASSUME NEW y \in Seq(S), NEW x \in S, y \in P
      PROVE  y \o <<x>> \in P
  <2>1. y \o <<x>> \in Seq(S) /\ u \o y \in Seq(S) /\ <<x>> \in Seq(S)
    BY <1>0
  <2>2. SUFFICES ASSUME Lacks(y \o <<x>>, separator)
                 PROVE  Split(u \o (y \o <<x>>), separator) = p \o <<y \o <<x>> >>
    BY <2>1
  <2>3. Lacks(y, separator) /\ x # separator
    BY <2>2, LacksMore
  <2> DEFINE v == u \o y
  <2>4. Split(v, separator) = p \o <<y>>
    BY <1>2, <2>3
  <2>5. u \o (y \o <<x>>) = v \o <<x>>
    BY <1>0, <2>1, Joining!Concat
  <2> HIDE DEF v
  <2>6. Split(v \o <<x>>, separator) =
          GrownBy(Split(v, separator), x, separator)
    <3>1. v \in Seq(S)
      BY <2>1 DEF v
    <3>2. QED
      BY <3>1, <1>a
  <2>7. Split(v \o <<x>>, separator) = [p \o <<y>> EXCEPT ![Len(p \o <<y>>)] = @ \o <<x>>]
    BY <2>3, <2>4, <2>6 DEF GrownBy, Longer
  <2>8. [p \o <<y>> EXCEPT ![Len(p \o <<y>>)] = @ \o <<x>>] = p \o <<y \o <<x>> >>
    <3> DEFINE z == y \o <<x>>
               n == Len(p)
               a == p \o <<y>>
               b == p \o <<z>>
    <3>1. /\ n \in Nat /\ a \in Seq(Seq(S)) /\ Len(a) = n + 1 /\ a[n + 1] = y
          /\ \A i \in 1 .. n : a[i] = p[i]
      BY <1>0
    <3>2. z \in Seq(S)
      BY <2>1
    <3> HIDE DEF z
    <3>3. /\ b \in Seq(Seq(S)) /\ Len(b) = n + 1 /\ b[n + 1] = z
          /\ \A i \in 1 .. n : b[i] = p[i]
      BY <1>0, <3>2
    <3> HIDE DEF a, b, n
    <3>4. b = [i \in 1 .. n + 1 |-> b[i]] /\ DOMAIN a = 1 .. n + 1
      BY <3>1, <3>3
    <3>5. [a EXCEPT ![n + 1] = z] = b
      <4>1. [a EXCEPT ![n + 1] = z] = [i \in 1 .. n + 1 |-> IF i = n + 1 THEN z ELSE a[i]]
        BY <3>1, <3>4
      <4>2. \A i \in 1 .. n + 1 : (IF i = n + 1 THEN z ELSE a[i]) = b[i]
        <5>1. \A i \in 1 .. n + 1 : i \in 1 .. n \/ i = n + 1
          BY <3>1
        <5>2. QED
          BY <5>1, <3>1, <3>3
      <4>3. QED
        BY <4>1, <4>2, <3>4
    <3>6. [a EXCEPT ![Len(a)] = @ \o <<x>>] = [a EXCEPT ![n + 1] = z]
      BY <3>1 DEF z
    <3>7. QED
      BY <3>5, <3>6 DEF a, b, z
  <2>9. QED
    BY <2>5, <2>7, <2>8
<1> HIDE DEF P
<1>3. \A y \in Seq(S) : y \in P
  BY <1>1, <1>2, Joining!SeqInduction
<1>4. QED
  BY <1>3 DEF P, u, p

(* Joining one text more. *)
LEMMA JoinOfMore ==
  ASSUME NEW S, NEW ts \in Seq(Seq(S)), NEW y \in Seq(S), NEW separator \in S
  PROVE  Join(ts \o <<y>>, separator) =
           IF ts = <<>> THEN y ELSE (Join(ts, separator) \o <<separator>>) \o y
<1> DEFINE us == ts \o <<y>>
           n == Len(ts)
           f == [i \in DOMAIN ts |-> IF i = 1 THEN ts[i] ELSE <<separator>> \o ts[i]]
           g == [i \in DOMAIN us |-> IF i = 1 THEN us[i] ELSE <<separator>> \o us[i]]
           z == IF ts = <<>> THEN y ELSE <<separator>> \o y
<1>1. /\ n \in Nat /\ DOMAIN ts = 1 .. n /\ DOMAIN us = 1 .. n + 1
      /\ us[n + 1] = y /\ \A i \in 1 .. n : us[i] = ts[i]
      /\ \A i \in 1 .. n : ts[i] \in Seq(S)
  OBVIOUS
<1>2. Join(us, separator) = Flat(g) /\ Join(ts, separator) = Flat(f)
  BY DEF Join
<1>3. ts = <<>> <=> n = 0
  OBVIOUS
<1> HIDE DEF us, n
<1>4. z \in Seq(S)
  OBVIOUS
<1>5. f \in Seq(Seq(S)) /\ Len(f) = n
  <2>1. \A i \in 1 .. n : (IF i = 1 THEN ts[i] ELSE <<separator>> \o ts[i]) \in Seq(S)
    BY <1>1
  <2>2. f = [i \in 1 .. n |-> IF i = 1 THEN ts[i] ELSE <<separator>> \o ts[i]]
    BY <1>1
  <2> HIDE DEF f
  <2>3. QED
    BY <2>1, <2>2, <1>1
<1>6. g = f \o <<z>>
  <2>1. /\ f \o <<z>> \in Seq(Seq(S)) /\ Len(f \o <<z>>) = n + 1 /\ (f \o <<z>>)[n + 1] = z
        /\ \A i \in 1 .. n : (f \o <<z>>)[i] = f[i]
    <3> HIDE DEF f, z
    <3>1. QED
      BY <1>4, <1>5, <1>1
  <2>2. g[n + 1] = z
    BY <1>1, <1>3
  <2>3. \A i \in 1 .. n : g[i] = f[i]
    BY <1>1
  <2>4. g = [i \in 1 .. n + 1 |-> g[i]]
    BY <1>1
  <2> HIDE DEF f, g, z
  <2>5. f \o <<z>> = [i \in 1 .. n + 1 |-> (f \o <<z>>)[i]]
    BY <2>1, <1>1
  <2>6. \A i \in 1 .. n + 1 : g[i] = (f \o <<z>>)[i]
    <3>1. \A i \in 1 .. n + 1 : i \in 1 .. n \/ i = n + 1
      BY <1>1
    <3>2. QED
      BY <3>1, <2>1, <2>2, <2>3
  <2>7. QED
    BY <2>4, <2>5, <2>6
<1>7. Flat(g) = Flat(f) \o z
  <2> HIDE DEF f, g, z
  <2>1. QED
    BY <1>4, <1>5, <1>6, FlatOfOneMore
<1>8. Flat(f) \in Seq(S)
  <2> HIDE DEF f
  <2>1. QED
    BY <1>5, FlatType
<1>9. CASE ts = <<>>
  <2>1. f = <<>>
    BY <1>9, <1>1, <1>3
  <2>2. Flat(f) = <<>>
    BY <2>1, FlatOfNothing
  <2>3. <<>> \o y = y
    OBVIOUS
  <2>4. z = y
    BY <1>9
  <2> HIDE DEF f, g, z
  <2>5. Flat(g) = y
    BY <1>7, <2>2, <2>3, <2>4
  <2>6. QED
    BY <1>2, <1>9, <2>5 DEF us
<1>10. CASE ts # <<>>
  <2>1. z = <<separator>> \o y
    BY <1>10
  <2> DEFINE j == Flat(f)
  <2>2. j \o (<<separator>> \o y) = (j \o <<separator>>) \o y
    <3> DEFINE w == <<separator>>
    <3>1. j \in Seq(S) /\ w \in Seq(S)
      BY <1>8 DEF j
    <3> HIDE DEF j, w
    <3>2. (j \o w) \o y = j \o (w \o y)
      BY <3>1, Joining!Concat
    <3>3. QED
      BY <3>2 DEF w
  <2> HIDE DEF f, g, z
  <2>3. Flat(g) = (j \o <<separator>>) \o y
    BY <1>7, <2>1, <2>2
  <2>4. QED
    BY <1>2, <1>10, <2>3 DEF us
<1>11. QED
  BY <1>9, <1>10

(* Texts without the separator, joined and split, are the texts they were. *)
LEMMA SplitOfJoin ==
  ASSUME NEW S, NEW separator \in S
  PROVE  \A ts \in Seq(Seq(S)) :
           /\ Join(ts, separator) \in Seq(S)
           /\ ts # <<>> /\ (\A i \in 1 .. Len(ts) : Lacks(ts[i], separator))
                => Split(Join(ts, separator), separator) = ts
<1> DEFINE all(ts) == \A i \in 1 .. Len(ts) : Lacks(ts[i], separator)
           P == {ts \in Seq(Seq(S)) :
                   /\ Join(ts, separator) \in Seq(S)
                   /\ ts # <<>> /\ all(ts) => Split(Join(ts, separator), separator) = ts}
<1>1. <<>> \in P
  <2>1. [i \in DOMAIN <<>> |-> IF i = 1 THEN <<>>[i] ELSE <<separator>> \o <<>>[i]] = <<>>
    OBVIOUS
  <2>2. Join(<<>>, separator) = <<>>
    BY <2>1, FlatOfNothing DEF Join
  <2>3. QED
    BY <2>2, Joining!EmptyInSeq
<1>2. ASSUME NEW ts \in Seq(Seq(S)), NEW y \in Seq(S), ts \in P
      PROVE  ts \o <<y>> \in P
  <2> DEFINE us == ts \o <<y>>
             j == Join(ts, separator)
             k == Join(us, separator)
  <2>1. us \in Seq(Seq(S)) /\ us # <<>>
    OBVIOUS
  <2>2. j \in Seq(S)
    BY <1>2
  <2>3. k = IF ts = <<>> THEN y ELSE (j \o <<separator>>) \o y
    BY JoinOfMore
  <2>4. all(us) => all(ts) /\ Lacks(y, separator)
    <3>1. /\ Len(ts) \in Nat /\ Len(us) = Len(ts) + 1 /\ us[Len(ts) + 1] = y
          /\ \A i \in 1 .. Len(ts) : us[i] = ts[i]
      OBVIOUS
    <3> HIDE DEF us
    <3>2. QED
      BY <3>1
  <2>5. ts # <<>> /\ all(ts) => Split(j, separator) = ts
    BY <1>2
  <2>6. ts = <<>> => us = <<y>>
    OBVIOUS
  <2> HIDE DEF all, j, k
  <2>7. k \in Seq(S)
    BY <2>2, <2>3
  <2>8. ASSUME all(us)
        PROVE  Split(k, separator) = us
    <3>1. CASE ts = <<>>
      <4>1. k = y
        BY <2>3, <3>1
      <4>2. Split(y, separator) = <<y>>
        BY <2>4, <2>8, SplitOfOne
      <4>3. QED
        BY <4>1, <4>2, <2>6, <3>1
    <3>2. CASE ts # <<>>
      <4>1. k = (j \o <<separator>>) \o y
        BY <2>3, <3>2
      <4>2. Split((j \o <<separator>>) \o y, separator) = Split(j, separator) \o <<y>>
        BY <2>2, <2>4, <2>8, SplitOfOneMore
      <4>3. Split(j, separator) = ts
        BY <2>4, <2>5, <2>8, <3>2
      <4>4. QED
        BY <4>1, <4>2, <4>3
    <3>3. QED
      BY <3>1, <3>2
  <2>9. QED
    BY <2>1, <2>7, <2>8 DEF k, all
<1> HIDE DEF P
<1>3. \A ts \in Seq(Seq(S)) : ts \in P
  BY <1>1, <1>2, Joining!SeqInduction
<1>4. QED
  BY <1>3 DEF P

-----------------------------------------------------------------------------
(* Escapes *)

(* A sequence with one element more is the one that was, and the element. *)
LEMMA Extended ==
  ASSUME NEW T, NEW h \in Seq(T), NEW y \in T, NEW g \in Seq(T),
         Len(g) = Len(h) + 1, g[Len(h) + 1] = y, \A i \in 1 .. Len(h) : g[i] = h[i]
  PROVE  g = h \o <<y>>
<1> DEFINE n == Len(h)
           k == h \o <<y>>
<1>1. n \in Nat
  OBVIOUS
<1>2. k \in Seq(T) /\ Len(k) = n + 1 /\ k[n + 1] = y /\ \A i \in 1 .. n : k[i] = h[i]
  OBVIOUS
<1> HIDE DEF k, n
<1>3. \A i \in 1 .. n + 1 : i \in 1 .. n \/ i = n + 1
  BY <1>1
<1>4. \A i \in 1 .. Len(g) : g[i] = k[i]
  BY <1>2, <1>3 DEF n
<1>5. g = k
  BY <1>2, <1>4, Joining!SameSeq DEF n
<1>6. QED
  BY <1>5 DEF k

(* Two elements more are one, and one more. *)
LEMMA TwoMore ==
  ASSUME NEW T, NEW e \in Seq(T), NEW a \in T, NEW b \in T
  PROVE  e \o <<a, b>> = (e \o <<a>>) \o <<b>>
<1> DEFINE n == Len(e)
           l == e \o <<a, b>>
           r == (e \o <<a>>) \o <<b>>
<1>1. /\ n \in Nat /\ l \in Seq(T) /\ Len(l) = n + 2 /\ l[n + 1] = a /\ l[n + 2] = b
      /\ \A i \in 1 .. n : l[i] = e[i]
  OBVIOUS
<1>2. /\ r \in Seq(T) /\ Len(r) = n + 2 /\ r[n + 1] = a /\ r[n + 2] = b
      /\ \A i \in 1 .. n : r[i] = e[i]
  OBVIOUS
<1> HIDE DEF n, l, r
<1>3. \A i \in 1 .. n + 2 : i \in 1 .. n \/ i = n + 1 \/ i = n + 2
  BY <1>1
<1>4. l = r
  BY <1>1, <1>2, <1>3, Joining!SameSeq
<1>5. QED
  BY <1>4 DEF l, r

WrittenOne(x) == IF x \in DOMAIN Escaped THEN <<"%", Escaped[x]>> ELSE <<x>>

(* What encode writes for a word is words.                                 *)
LEMMA WrittenType ==
  ASSUME NEW x \in Word
  PROVE  WrittenOne(x) \in Seq(Word)
<1>1. Escaped = [c \in {"%", ";", "newline"} |->
         CASE c = "%" -> "25" [] c = ";" -> "3B" [] OTHER -> "0A"]
  BY DEF Escaped
<1>1a. HexPairs = [d \in {"25", "3B", "0A", "3D", "00"} |->
         CASE d = "25" -> "%" [] d = "3B" -> ";" [] d = "0A" -> "newline"
           [] d = "3D" -> "=" [] OTHER -> "nul"]
  BY DEF HexPairs
<1>1b. DOMAIN Escaped = {"%", ";", "newline"} /\ DOMAIN HexPairs = {"25", "3B", "0A", "3D", "00"}
  BY <1>1, <1>1a
<1>2. "25" \in Word /\ "3B" \in Word /\ "0A" \in Word /\ "%" \in Word
  BY <1>1b, WireAssumption
<1>3. \A c \in DOMAIN Escaped : Escaped[c] \in {"25", "3B", "0A"}
  BY <1>1
<1>4. x \in DOMAIN Escaped => Escaped[x] \in Word
  BY <1>2, <1>3
<1>5. QED
  BY <1>2, <1>4 DEF WrittenOne

(* Writing a text word by word. *)
LEMMA EncodeOfMore ==
  ASSUME NEW t \in Seq(Word), NEW x \in Word
  PROVE  Encode(t \o <<x>>) = Encode(t) \o WrittenOne(x)
<1> DEFINE u == t \o <<x>>
           n == Len(t)
           g == [i \in DOMAIN u |-> WrittenOne(u[i])]
           h == [i \in DOMAIN t |-> WrittenOne(t[i])]
<1>1. /\ n \in Nat /\ DOMAIN u = 1 .. n + 1 /\ DOMAIN t = 1 .. n /\ u[n + 1] = x
      /\ \A i \in 1 .. n : u[i] = t[i] /\ t[i] \in Word
  OBVIOUS
<1>1a. \A i \in 1 .. n + 1 : u[i] \in Word
  OBVIOUS
<1>2. Encode(u) = Flat(g) /\ Encode(t) = Flat(h)
  BY DEF Encode, WrittenOne
<1> HIDE DEF u, n
<1>3. h \in Seq(Seq(Word)) /\ Len(h) = n
  <2>1. \A i \in 1 .. n : WrittenOne(t[i]) \in Seq(Word)
    BY <1>1, WrittenType
  <2>2. QED
    BY <1>1, <2>1
<1>4. /\ g \in Seq(Seq(Word)) /\ Len(g) = n + 1 /\ g[n + 1] = WrittenOne(x)
      /\ \A i \in 1 .. n : g[i] = h[i]
  <2>1. \A i \in 1 .. n + 1 : u[i] \in Word
    BY <1>1a DEF u
  <2>2. \A i \in 1 .. n + 1 : WrittenOne(u[i]) \in Seq(Word)
    BY <2>1, WrittenType
  <2>3. QED
    BY <2>2, <1>1
<1>5. WrittenOne(x) \in Seq(Word)
  BY WrittenType
<1> HIDE DEF g, h
<1>6. g = h \o <<WrittenOne(x)>>
  BY <1>3, <1>4, <1>5, Extended
<1>7. Flat(g) = Flat(h) \o WrittenOne(x)
  BY <1>3, <1>5, <1>6, FlatOfOneMore
<1>8. QED
  BY <1>2, <1>7 DEF u

(* encode of the empty text, and of any, is a text.                        *)
LEMMA EncodeOfNothing == Encode(<<>>) = <<>>
<1>1. [i \in DOMAIN <<>> |-> WrittenOne(<<>>[i])] = <<>>
  OBVIOUS
<1>2. QED
  BY <1>1, FlatOfNothing DEF Encode, WrittenOne

(* encode writes words.                                                    *)
LEMMA EncodeType ==
  \A t \in Seq(Word) : Encode(t) \in Seq(Word)
<1> DEFINE P == {t \in Seq(Word) : Encode(t) \in Seq(Word)}
<1>1. <<>> \in P
  BY EncodeOfNothing, Joining!EmptyInSeq
<1>2. ASSUME NEW t \in Seq(Word), NEW x \in Word, t \in P
      PROVE  t \o <<x>> \in P
  <2>1. Encode(t \o <<x>>) = Encode(t) \o WrittenOne(x)
    BY EncodeOfMore
  <2>2. Encode(t) \in Seq(Word) /\ WrittenOne(x) \in Seq(Word)
    BY <1>2, WrittenType
  <2>3. t \o <<x>> \in Seq(Word) /\ Encode(t) \o WrittenOne(x) \in Seq(Word)
    BY <2>2, Joining!Concat
  <2>4. QED
    BY <2>1, <2>3
<1> HIDE DEF P
<1>3. \A t \in Seq(Word) : t \in P
  BY <1>1, <1>2, Joining!SeqInduction
<1>4. QED
  BY <1>3 DEF P

(* Two texts written one after another are the two together, written. *)
LEMMA EncodeOfTwo ==
  ASSUME NEW s \in Seq(Word)
  PROVE  \A t \in Seq(Word) : Encode(s \o t) = Encode(s) \o Encode(t)
<1> DEFINE P == {t \in Seq(Word) : Encode(s \o t) = Encode(s) \o Encode(t)}
<1>0. Encode(s) \in Seq(Word)
  BY EncodeType
<1>1. <<>> \in P
  <2>1. s \o <<>> = s /\ Encode(s) \o <<>> = Encode(s)
    BY <1>0
  <2>2. Encode(s \o <<>>) = Encode(s) \o Encode(<<>>)
    BY <2>1, EncodeOfNothing
  <2>3. QED
    BY <2>2, Joining!EmptyInSeq
<1>2. ASSUME NEW t \in Seq(Word), NEW x \in Word, t \in P
      PROVE  t \o <<x>> \in P
  <2> DEFINE v == s \o t
  <2>1. /\ v \in Seq(Word) /\ t \o <<x>> \in Seq(Word) /\ <<x>> \in Seq(Word)
        /\ WrittenOne(x) \in Seq(Word) /\ Encode(t) \in Seq(Word)
    BY WrittenType, EncodeType
  <2>2. s \o (t \o <<x>>) = v \o <<x>>
    BY <2>1, Joining!Concat
  <2>3. Encode(v) = Encode(s) \o Encode(t)
    BY <1>2
  <2> HIDE DEF v
  <2>4. Encode(v \o <<x>>) = Encode(v) \o WrittenOne(x)
    BY <2>1, EncodeOfMore
  <2>5. Encode(t \o <<x>>) = Encode(t) \o WrittenOne(x)
    BY EncodeOfMore
  <2>6. (Encode(s) \o Encode(t)) \o WrittenOne(x) = Encode(s) \o (Encode(t) \o WrittenOne(x))
    <3> DEFINE a == Encode(s)
               b == Encode(t)
               c == WrittenOne(x)
    <3>1. a \in Seq(Word) /\ b \in Seq(Word) /\ c \in Seq(Word)
      BY <1>0, <2>1
    <3> HIDE DEF a, b, c
    <3>2. (a \o b) \o c = a \o (b \o c)
      <4>1. Joining!AllIn(Word, a, b, c)
        BY ONLY <3>1 DEF Joining!AllIn
      <4>2. QED
        BY ONLY <4>1, Joining!EitherWay
    <3>3. QED
      BY <3>2 DEF a, b, c
  <2>7. Encode(s \o (t \o <<x>>)) = Encode(s) \o Encode(t \o <<x>>)
    BY <2>2, <2>3, <2>4, <2>5, <2>6
  <2>8. QED
    BY <2>1, <2>7
<1> HIDE DEF P
<1>3. \A t \in Seq(Word) : t \in P
  BY <1>1, <1>2, Joining!SeqInduction
<1>4. QED
  BY <1>3 DEF P

(* Reading a text: what each word of it gives. *)
Escapes(e, i) == e[i] = "%" /\ i < Len(e) /\ e[i + 1] \in DOMAIN HexPairs
Piece(e, i) ==
  IF i > 1 /\ Escapes(e, i - 1) THEN <<>>
  ELSE IF Escapes(e, i) THEN <<HexPairs[e[i + 1]]>> ELSE <<e[i]>>
Pieces(e) == [i \in 1 .. Len(e) |-> Piece(e, i)]
Clean(e) == e \in Seq(Word) /\ \A i \in 1 .. Len(e) : e[i] = "%" => Escapes(e, i)

(* decode reads an encoded text piece by piece, with no bad escape.        *)
LEMMA DecodeIs ==
  ASSUME NEW e \in Seq(Word)
  PROVE  /\ Decode(e).text = Flat(Pieces(e))
         /\ Clean(e) => ~Decode(e).bad
<1>1. DOMAIN e = 1 .. Len(e)
  OBVIOUS
<1>2. Decode(e).text = Flat([i \in DOMAIN e |-> Piece(e, i)])
  BY DEF Decode, Piece, Escapes
<1>3. Decode(e).bad <=> \E i \in DOMAIN e : e[i] = "%" /\ ~Escapes(e, i)
  BY DEF Decode, Escapes
<1>4. QED
  BY <1>1, <1>2, <1>3 DEF Pieces, Clean

(* Each of the pieces is words.                                            *)
LEMMA PieceType ==
  ASSUME NEW e \in Seq(Word)
  PROVE  /\ Pieces(e) \in Seq(Seq(Word)) /\ Len(Pieces(e)) = Len(e)
         /\ \A i \in 1 .. Len(e) : Piece(e, i) \in Seq(Word)
<1>1. \A d \in DOMAIN HexPairs : HexPairs[d] \in Word
  BY WireAssumption
<1>2. ASSUME NEW i \in 1 .. Len(e)
      PROVE  Piece(e, i) \in Seq(Word)
  <2>1. e[i] \in Word
    OBVIOUS
  <2>2. Escapes(e, i) => HexPairs[e[i + 1]] \in Word
    BY <1>1 DEF Escapes
  <2> DEFINE y == IF Escapes(e, i) THEN HexPairs[e[i + 1]] ELSE e[i]
  <2>3. y \in Word
    BY <2>1, <2>2
  <2>4. Piece(e, i) = IF i > 1 /\ Escapes(e, i - 1) THEN <<>> ELSE <<y>>
    BY DEF Piece
  <2> HIDE DEF y
  <2>5. <<y>> \in Seq(Word) /\ <<>> \in Seq(Word)
    BY <2>3, Joining!EmptyInSeq
  <2>6. QED
    BY <2>4, <2>5
<1>3. QED
  BY <1>2 DEF Pieces

(* The words of a clean text are read as before with a word behind them. *)
LEMMA PiecesStay ==
  ASSUME NEW e, Clean(e), NEW x \in Word
  PROVE  /\ \A i \in 1 .. Len(e) : Piece(e \o <<x>>, i) = Piece(e, i)
         /\ \A i \in 1 .. Len(e) : Escapes(e \o <<x>>, i) <=> Escapes(e, i)
         /\ Len(e) > 0 => ~Escapes(e \o <<x>>, Len(e))
<1> DEFINE n == Len(e)
           f == e \o <<x>>
<1>1. /\ e \in Seq(Word) /\ n \in Nat /\ f \in Seq(Word) /\ Len(f) = n + 1
      /\ \A i \in 1 .. n : f[i] = e[i]
  BY DEF Clean
<1>2. n > 0 => e[n] # "%"
  <2>1. ~Escapes(e, n)
    BY <1>1 DEF Escapes
  <2>2. n > 0 => n \in 1 .. n
    BY <1>1
  <2>3. QED
    BY <2>1, <2>2 DEF Clean
<1> HIDE DEF f, n
<1>3. ASSUME NEW i \in 1 .. n
      PROVE  Escapes(f, i) <=> Escapes(e, i)
  <2>1. CASE i = n
    BY <2>1, <1>1, <1>2 DEF Escapes
  <2>2. CASE i # n
    <3>1. i + 1 \in 1 .. n /\ i < n /\ i < Len(f)
      BY <2>2, <1>1
    <3>2. QED
      BY <3>1, <1>1 DEF Escapes, n
  <2>3. QED
    BY <2>1, <2>2
<1>4. ASSUME NEW i \in 1 .. n
      PROVE  Piece(f, i) = Piece(e, i)
  <2>1. i > 1 => (Escapes(f, i - 1) <=> Escapes(e, i - 1))
    <3>1. i > 1 => i - 1 \in 1 .. n
      BY <1>1
    <3>2. QED
      BY <3>1, <1>3
  <2>2. Escapes(e, i) => f[i + 1] = e[i + 1]
    <3>1. Escapes(e, i) => i + 1 \in 1 .. n
      BY <1>1 DEF Escapes, n
    <3>2. QED
      BY <3>1, <1>1
  <2>3. f[i] = e[i] /\ (Escapes(f, i) <=> Escapes(e, i))
    BY <1>1, <1>3
  <2>4. QED
    BY <2>1, <2>2, <2>3 DEF Piece
<1>5. n > 0 => ~Escapes(f, n)
  <2>1. n > 0 => n \in 1 .. n
    BY <1>1
  <2>2. QED
    BY <2>1, <1>1, <1>2 DEF Escapes
<1>6. QED
  BY <1>3, <1>4, <1>5 DEF f, n

(* A word after a clean text is a piece of its own.                        *)
LEMMA PiecesOfMore ==
  ASSUME NEW e, Clean(e), NEW x \in Word
  PROVE  /\ Pieces(e \o <<x>>) = Pieces(e) \o << <<x>> >>
         /\ x # "%" => Clean(e \o <<x>>)
<1> DEFINE n == Len(e)
           f == e \o <<x>>
<1>1. /\ e \in Seq(Word) /\ n \in Nat /\ f \in Seq(Word) /\ Len(f) = n + 1
      /\ f[n + 1] = x /\ \A i \in 1 .. n : f[i] = e[i]
  BY DEF Clean
<1>2. /\ \A i \in 1 .. n : Piece(f, i) = Piece(e, i)
      /\ \A i \in 1 .. n : Escapes(f, i) <=> Escapes(e, i)
      /\ n > 0 => ~Escapes(f, n)
  BY PiecesStay
<1> HIDE DEF f, n
<1>3. ~Escapes(f, n + 1)
  BY <1>1 DEF Escapes
<1>4. Piece(f, n + 1) = <<x>>
  <2>1. n + 1 > 1 => n > 0
    BY <1>1
  <2>2. (n + 1) - 1 = n
    BY <1>1
  <2>3. QED
    BY <1>1, <1>2, <1>3, <2>1, <2>2 DEF Piece
<1>5. Pieces(f) = Pieces(e) \o << <<x>> >>
  <2>1. Pieces(e) \in Seq(Seq(Word)) /\ Len(Pieces(e)) = n /\ <<x>> \in Seq(Word)
    BY <1>1, PieceType DEF n
  <2>2. Pieces(f) = [i \in 1 .. n + 1 |-> Piece(f, i)]
    BY <1>1 DEF Pieces
  <2>3. Pieces(e) = [i \in 1 .. n |-> Piece(e, i)]
    BY DEF Pieces, n
  <2>4. /\ Pieces(f) \in Seq(Seq(Word)) /\ Len(Pieces(f)) = n + 1 /\ Pieces(f)[n + 1] = <<x>>
        /\ \A i \in 1 .. n : Pieces(f)[i] = Pieces(e)[i]
    <3>1. Pieces(f) \in Seq(Seq(Word)) /\ Len(Pieces(f)) = n + 1
      BY <1>1, PieceType
    <3>2. QED
      BY <3>1, <1>1, <1>2, <1>4, <2>2, <2>3
  <2>5. QED
    BY <2>1, <2>4, Extended
<1>6. x # "%" => Clean(f)
  <2>1. \A i \in 1 .. Len(f) : i \in 1 .. n \/ i = n + 1
    BY <1>1
  <2>2. \A i \in 1 .. n : f[i] = "%" => Escapes(e, i)
    BY <1>1 DEF Clean, n
  <2>3. QED
    BY <2>1, <2>2, <1>1, <1>2 DEF Clean
<1>7. QED
  BY <1>5, <1>6 DEF f

(* An escape behind a clean text. *)
LEMMA PiecesOfEscape ==
  ASSUME NEW e, Clean(e), NEW d \in DOMAIN HexPairs
  PROVE  /\ Pieces((e \o <<"%">>) \o <<d>>) = (Pieces(e) \o << <<HexPairs[d]>> >>) \o << <<>> >>
         /\ Clean((e \o <<"%">>) \o <<d>>)
<1> DEFINE n == Len(e)
           f == e \o <<"%">>
           g == f \o <<d>>
<1>0. "%" \in Word /\ d \in Word /\ HexPairs[d] \in Word /\ d # "%"
  <2>1. DOMAIN HexPairs = {"25", "3B", "0A", "3D", "00"} /\ "%" \in DOMAIN Escaped
    BY DEF HexPairs, Escaped
  <2>2. QED
    BY <2>1, WireAssumption
<1>1. /\ e \in Seq(Word) /\ n \in Nat /\ f \in Seq(Word) /\ Len(f) = n + 1
      /\ f[n + 1] = "%" /\ \A i \in 1 .. n : f[i] = e[i]
  BY <1>0 DEF Clean
<1>2. /\ \A i \in 1 .. n : Piece(f, i) = Piece(e, i)
      /\ \A i \in 1 .. n : Escapes(f, i) <=> Escapes(e, i)
      /\ n > 0 => ~Escapes(f, n)
  BY <1>0, PiecesStay
<1> HIDE DEF f
<1>3. /\ g \in Seq(Word) /\ Len(g) = n + 2 /\ g[n + 2] = d
      /\ \A i \in 1 .. n + 1 : g[i] = f[i]
  BY <1>0, <1>1
<1> HIDE DEF n, g
<1>4. \A i \in 1 .. n : Escapes(g, i) <=> Escapes(f, i)
  <2> TAKE i \in 1 .. n
  <2>1. i \in 1 .. n + 1 /\ i + 1 \in 1 .. n + 1 /\ i < n + 1 /\ i < n + 2
    BY <1>1
  <2>2. g[i] = f[i] /\ g[i + 1] = f[i + 1]
    BY <1>3, <2>1
  <2>3. QED
    BY <2>1, <2>2, <1>1, <1>3 DEF Escapes
<1>5. Escapes(g, n + 1)
  <2>1. n + 1 \in 1 .. n + 1 /\ (n + 1) + 1 = n + 2 /\ n + 1 < n + 2
    BY <1>1
  <2>2. QED
    BY <1>1, <1>3, <2>1 DEF Escapes
<1>6. \A i \in 1 .. n : Piece(g, i) = Piece(e, i)
  <2> TAKE i \in 1 .. n
  <2>1. i > 1 => (Escapes(g, i - 1) <=> Escapes(f, i - 1))
    <3>1. i > 1 => i - 1 \in 1 .. n
      BY <1>1
    <3>2. QED
      BY <3>1, <1>4
  <2>2. i \in 1 .. n + 1 /\ i + 1 \in 1 .. n + 1
    BY <1>1
  <2>3. g[i] = f[i] /\ g[i + 1] = f[i + 1]
    BY <1>3, <2>2
  <2>4. Piece(g, i) = Piece(f, i)
    BY <2>1, <2>3, <1>4 DEF Piece
  <2>5. QED
    BY <2>4, <1>2
<1>7. Piece(g, n + 1) = <<HexPairs[d]>>
  <2>1. n + 1 > 1 => n > 0 /\ n \in 1 .. n
    BY <1>1
  <2>2. (n + 1) - 1 = n /\ (n + 1) + 1 = n + 2
    BY <1>1
  <2>3. n + 1 > 1 => ~Escapes(g, n)
    BY <2>1, <1>2, <1>4
  <2>4. QED
    BY <2>2, <2>3, <1>3, <1>5 DEF Piece
<1>8. Piece(g, n + 2) = <<>>
  <2>1. n + 2 > 1 /\ (n + 2) - 1 = n + 1
    BY <1>1
  <2>2. QED
    BY <2>1, <1>5 DEF Piece
<1>9. Pieces(g) = (Pieces(e) \o << <<HexPairs[d]>> >>) \o << <<>> >>
  <2> DEFINE p == Pieces(e)
             q == p \o << <<HexPairs[d]>> >>
             z == <<>>
             y == <<HexPairs[d]>>
  <2>1. p \in Seq(Seq(Word)) /\ Len(p) = n /\ y \in Seq(Word) /\ z \in Seq(Word)
    BY <1>0, <1>1, PieceType, Joining!EmptyInSeq DEF n
  <2>2. \A i \in 1 .. n : p[i] = Piece(e, i)
    BY DEF Pieces, n
  <2>3. Piece(g, n + 1) = y /\ Piece(g, n + 2) = z
    BY <1>7, <1>8
  <2>3a. q = p \o <<y>>
    OBVIOUS
  <2> HIDE DEF p, y, q, z
  <2>4. /\ q \in Seq(Seq(Word)) /\ Len(q) = n + 1 /\ q[n + 1] = y
        /\ \A i \in 1 .. n : q[i] = p[i]
    BY <2>1, <2>3a
  <2>5. Pieces(g) = [i \in 1 .. n + 2 |-> Piece(g, i)]
    BY <1>3 DEF Pieces
  <2>6. \A i \in 1 .. n + 1 : i \in 1 .. n \/ i = n + 1
    BY <1>1
  <2>7. \A i \in 1 .. n + 1 : Piece(g, i) = q[i]
    BY <2>2, <2>3, <2>4, <2>6, <1>6
  <2>8. n + 2 = Len(q) + 1
    BY <2>4, <1>1
  <2>9. /\ Pieces(g) \in Seq(Seq(Word)) /\ Len(Pieces(g)) = Len(q) + 1
        /\ Pieces(g)[Len(q) + 1] = z
        /\ \A i \in 1 .. Len(q) : Pieces(g)[i] = q[i]
    <3>1. n + 2 \in 1 .. n + 2 /\ \A i \in 1 .. n + 1 : i \in 1 .. n + 2
      BY <1>1
    <3>2. Pieces(g) \in Seq(Seq(Word)) /\ Len(Pieces(g)) = n + 2
      BY <1>3, PieceType
    <3>3. QED
      BY <3>1, <3>2, <2>3, <2>4, <2>5, <2>7, <2>8
  <2>9a. q \in Seq(Seq(Word)) /\ z \in Seq(Word)
    BY <2>1, <2>4
  <2>10. Pieces(g) = q \o <<z>>
    <3> DEFINE k == Pieces(g)
    <3> HIDE DEF k
    <3>1. k = q \o <<z>>
      BY <2>9a, <2>9, Extended DEF k
    <3>2. QED
      BY <3>1 DEF k
  <2>11. QED
    BY <2>10 DEF p, q, y, z
<1>10. Clean(g)
  <2>1. \A i \in 1 .. Len(g) : i \in 1 .. n \/ i = n + 1 \/ i = n + 2
    BY <1>1, <1>3
  <2>2. ASSUME NEW i \in 1 .. n, g[i] = "%"
        PROVE  Escapes(g, i)
    <3>1. i \in 1 .. n + 1
      BY <1>1
    <3>2. e[i] = "%"
      BY <2>2, <3>1, <1>1, <1>3
    <3>3. Escapes(e, i)
      BY <3>2 DEF Clean, n
    <3>4. QED
      BY <3>3, <1>2, <1>4
  <2>3. QED
    BY <2>1, <2>2, <1>0, <1>3, <1>5 DEF Clean
<1>11. QED
  BY <1>9, <1>10 DEF f, g

(* Reading what was written gives the text that was, without a complaint. *)
LEMMA DecodeOfEncode ==
  \A t \in Seq(Word) : Decode(Encode(t)).text = t /\ ~Decode(Encode(t)).bad
<1> DEFINE P == {t \in Seq(Word) : Clean(Encode(t)) /\ Flat(Pieces(Encode(t))) = t}
<1>1. <<>> \in P
  <2>1. Clean(<<>>)
    BY Joining!EmptyInSeq DEF Clean
  <2>2. Pieces(<<>>) = <<>>
    BY DEF Pieces
  <2>3. Clean(Encode(<<>>)) /\ Flat(Pieces(Encode(<<>>))) = <<>>
    BY <2>1, <2>2, EncodeOfNothing, FlatOfNothing
  <2>4. QED
    BY <2>3, Joining!EmptyInSeq
<1>2. ASSUME NEW t \in Seq(Word), NEW x \in Word, t \in P
      PROVE  t \o <<x>> \in P
  <2> DEFINE e == Encode(t)
             p == Pieces(e)
  <2>1. t \o <<x>> \in Seq(Word) /\ <<x>> \in Seq(Word)
    OBVIOUS
  <2>2. Clean(e) /\ Flat(p) = t
    BY <1>2
  <2>3. Encode(t \o <<x>>) = e \o WrittenOne(x)
    BY EncodeOfMore
  <2>4. e \in Seq(Word)
    BY <2>2 DEF Clean
  <2>5. p \in Seq(Seq(Word))
    BY <2>4, PieceType
  <2> HIDE DEF e, p
  <2>6. CASE x \notin DOMAIN Escaped
    <3>1. WrittenOne(x) = <<x>>
      BY <2>6 DEF WrittenOne
    <3>2. "%" \in DOMAIN Escaped
      BY DEF Escaped
    <3>3. Clean(e \o <<x>>) /\ Pieces(e \o <<x>>) = p \o << <<x>> >>
      BY <2>2, <2>6, <3>2, PiecesOfMore DEF p
    <3>4. Flat(p \o << <<x>> >>) = Flat(p) \o <<x>>
      BY <2>1, <2>5, FlatOfOneMore
    <3>5. Clean(Encode(t \o <<x>>)) /\ Flat(Pieces(Encode(t \o <<x>>))) = t \o <<x>>
      BY <2>2, <2>3, <3>1, <3>3, <3>4
    <3>6. QED
      BY <2>1, <3>5
  <2>7. CASE x \in DOMAIN Escaped
    <3> DEFINE d == Escaped[x]
    <3>1. d \in DOMAIN HexPairs /\ HexPairs[d] = x
      <4>1. Escaped = [c \in {"%", ";", "newline"} |->
              CASE c = "%" -> "25" [] c = ";" -> "3B" [] OTHER -> "0A"]
        BY DEF Escaped
      <4>2. HexPairs = [c \in {"25", "3B", "0A", "3D", "00"} |->
              CASE c = "25" -> "%" [] c = "3B" -> ";" [] c = "0A" -> "newline"
                [] c = "3D" -> "=" [] OTHER -> "nul"]
        BY DEF HexPairs
      <4>3. x \in {"%", ";", "newline"}
        BY <2>7, <4>1
      <4>4. CASE x = "%"
        BY <4>1, <4>2, <4>4
      <4>5. CASE x = ";"
        BY <4>1, <4>2, <4>5
      <4>6. CASE x = "newline"
        BY <4>1, <4>2, <4>6
      <4>7. QED
        BY <4>3, <4>4, <4>5, <4>6
    <3>2. WrittenOne(x) = <<"%", d>>
      BY <2>7 DEF WrittenOne
    <3> HIDE DEF d
    <3>3. "%" \in Word /\ d \in Word
      <4>1. "%" \in DOMAIN Escaped
        BY DEF Escaped
      <4>2. QED
        BY <4>1, <3>1, WireAssumption
    <3>4. e \o WrittenOne(x) = (e \o <<"%">>) \o <<d>>
      <4> DEFINE a == "%"
      <4>1. a \in Word
        BY <3>3
      <4> HIDE DEF a
      <4>2. e \o <<a, d>> = (e \o <<a>>) \o <<d>>
        BY <2>4, <3>3, <4>1, TwoMore
      <4>3. QED
        BY <3>2, <4>2 DEF a
    <3> DEFINE f == (e \o <<"%">>) \o <<d>>
               y == <<HexPairs[d]>>
               z == <<>>
    <3>5. Clean(f) /\ Pieces(f) = (p \o <<y>>) \o <<z>>
      BY <2>2, <3>1, PiecesOfEscape DEF p
    <3>6. y = <<x>> /\ y \in Seq(Word) /\ z \in Seq(Word)
      BY <2>1, <3>1, Joining!EmptyInSeq
    <3> HIDE DEF f, y, z
    <3>7. p \o <<y>> \in Seq(Seq(Word))
      BY <2>5, <3>6
    <3>7a. Flat(p \o <<y>>) = Flat(p) \o y
      BY <2>5, <3>6, FlatOfOneMore
    <3>8. Flat((p \o <<y>>) \o <<z>>) = Flat(p \o <<y>>) \o z
      <4> DEFINE q == p \o <<y>>
      <4>1. q \in Seq(Seq(Word))
        BY <3>7
      <4> HIDE DEF q
      <4>2. Flat(q \o <<z>>) = Flat(q) \o z
        BY <3>6, <4>1, FlatOfOneMore
      <4>3. QED
        BY <4>2 DEF q
    <3>9. Flat(Pieces(f)) = (t \o <<x>>) \o <<>>
      BY <2>2, <3>5, <3>6, <3>7a, <3>8 DEF z
    <3>10. (t \o <<x>>) \o <<>> = t \o <<x>>
      BY <2>1, Joining!Concat
    <3>11. Encode(t \o <<x>>) = f
      BY <2>3, <3>4 DEF f
    <3>12. Clean(Encode(t \o <<x>>)) /\ Flat(Pieces(Encode(t \o <<x>>))) = t \o <<x>>
      BY <3>5, <3>9, <3>10, <3>11
    <3>13. QED
      BY <2>1, <3>12
  <2>8. QED
    BY <2>6, <2>7
<1> HIDE DEF P
<1>3. \A t \in Seq(Word) : t \in P
  BY <1>1, <1>2, Joining!SeqInduction
<1>4. ASSUME NEW t \in Seq(Word)
      PROVE  Decode(Encode(t)).text = t /\ ~Decode(Encode(t)).bad
  <2> DEFINE e == Encode(t)
  <2>1. Clean(e) /\ Flat(Pieces(e)) = t
    BY <1>3 DEF P
  <2>2. e \in Seq(Word)
    BY <2>1 DEF Clean
  <2> HIDE DEF e
  <2>3. Decode(e).text = Flat(Pieces(e)) /\ (Clean(e) => ~Decode(e).bad)
    BY <2>2, DecodeIs
  <2>4. QED
    BY <2>1, <2>3 DEF e
<1>5. QED
  BY <1>4

(* A text as it is written has no separator in it. *)
Separators == {";", "newline"}

(* No word is written with a separator of the format.                      *)
LEMMA WrittenLacks ==
  ASSUME NEW x, NEW c \in Separators
  PROVE  Lacks(WrittenOne(x), c)
<1>1. Escaped = [a \in {"%", ";", "newline"} |->
        CASE a = "%" -> "25" [] a = ";" -> "3B" [] OTHER -> "0A"]
  BY DEF Escaped
<1>2. c \in DOMAIN Escaped /\ c # "%" /\ c \notin {"25", "3B", "0A"}
  BY <1>1 DEF Separators
<1>3. CASE x \in DOMAIN Escaped
  <2> DEFINE a == "%"
             d == Escaped[x]
  <2>1. WrittenOne(x) = <<a, d>>
    BY <1>3 DEF WrittenOne
  <2>2. a # c /\ d # c
    <3>1. d \in {"25", "3B", "0A"}
      BY <1>1, <1>3
    <3>2. QED
      BY <1>2, <3>1
  <2> HIDE DEF a, d
  <2>3. Len(<<a, d>>) = 2 /\ <<a, d>>[1] = a /\ <<a, d>>[2] = d
    OBVIOUS
  <2>4. QED
    BY <2>1, <2>2, <2>3 DEF Lacks
<1>4. CASE x \notin DOMAIN Escaped
  <2>1. WrittenOne(x) = <<x>> /\ x # c
    BY <1>2, <1>4 DEF WrittenOne
  <2>2. QED
    BY <2>1 DEF Lacks
<1>5. QED
  BY <1>3, <1>4

(* Two texts in a row lack a word when each does.                          *)
LEMMA LacksOfTwo ==
  ASSUME NEW S, NEW s \in Seq(S), NEW t \in Seq(S), NEW c
  PROVE  Lacks(s \o t, c) <=> Lacks(s, c) /\ Lacks(t, c)
<1> DEFINE m == Len(s)
           n == Len(t)
           u == s \o t
<1>1. /\ m \in Nat /\ n \in Nat /\ Len(u) = m + n
      /\ \A i \in 1 .. m : u[i] = s[i]
      /\ \A i \in 1 .. n : u[m + i] = t[i]
  OBVIOUS
<1> HIDE DEF u, m, n
<1>2. \A i \in 1 .. m + n : i \in 1 .. m \/ (i - m \in 1 .. n /\ i = m + (i - m))
  BY <1>1
<1>3. /\ \A i \in 1 .. m : i \in 1 .. m + n
      /\ \A i \in 1 .. n : m + i \in 1 .. m + n
  BY <1>1
<1>4. Lacks(s, c) /\ Lacks(t, c) => Lacks(u, c)
  <2> SUFFICES ASSUME Lacks(s, c), Lacks(t, c), NEW i \in 1 .. m + n
               PROVE  u[i] # c
    BY <1>1 DEF Lacks
  <2>1. CASE i \in 1 .. m
    BY <2>1, <1>1 DEF Lacks, m
  <2>2. CASE i - m \in 1 .. n /\ i = m + (i - m)
    <3> DEFINE j == i - m
    <3>1. j \in 1 .. n /\ i = m + j
      BY <2>2
    <3> HIDE DEF j
    <3>2. t[j] # c /\ u[m + j] = t[j]
      BY <3>1, <1>1 DEF Lacks, n
    <3>3. QED
      BY <3>1, <3>2
  <2>3. QED
    BY <2>1, <2>2, <1>2
<1>5. Lacks(u, c) => Lacks(s, c)
  BY <1>1, <1>3 DEF Lacks, m
<1>6. Lacks(u, c) => Lacks(t, c)
  <2> SUFFICES ASSUME Lacks(u, c), NEW i \in 1 .. n
               PROVE  t[i] # c
    BY DEF Lacks, n
  <2>1. u[m + i] # c
    BY <1>1, <1>3 DEF Lacks
  <2>2. QED
    BY <1>1, <2>1
<1>7. QED
  BY <1>4, <1>5, <1>6 DEF u

(* An encoded text lacks the separators (the point of encode).             *)
LEMMA EncodeLacks ==
  ASSUME NEW c \in Separators
  PROVE  \A t \in Seq(Word) : Lacks(Encode(t), c)
<1> DEFINE P == {t \in Seq(Word) : Lacks(Encode(t), c)}
<1>1. <<>> \in P
  <2>1. Lacks(<<>>, c)
    BY DEF Lacks
  <2>2. QED
    BY <2>1, EncodeOfNothing, Joining!EmptyInSeq
<1>2. ASSUME NEW t \in Seq(Word), NEW x \in Word, t \in P
      PROVE  t \o <<x>> \in P
  <2>1. Encode(t \o <<x>>) = Encode(t) \o WrittenOne(x)
    BY EncodeOfMore
  <2>2. Encode(t) \in Seq(Word) /\ WrittenOne(x) \in Seq(Word)
    BY EncodeType, WrittenType
  <2>3. Lacks(Encode(t), c) /\ Lacks(WrittenOne(x), c)
    BY <1>2, WrittenLacks
  <2>4. Lacks(Encode(t) \o WrittenOne(x), c)
    BY <2>2, <2>3, LacksOfTwo
  <2>5. t \o <<x>> \in Seq(Word)
    OBVIOUS
  <2>6. QED
    BY <2>1, <2>4, <2>5
<1> HIDE DEF P
<1>3. \A t \in Seq(Word) : t \in P
  BY <1>1, <1>2, Joining!SeqInduction
<1>4. QED
  BY <1>3 DEF P

(* A field is what is before its first = and what is behind it. *)
Equals == "="

(* split_once('=') cuts at the first =, when the key has none.             *)
LEMMA FirstEquals ==
  ASSUME NEW k \in Seq(Word), NEW v \in Seq(Word), Lacks(k, Equals)
  PROVE  LET f == (k \o <<Equals>>) \o v
         IN /\ f \in Seq(Word)
            /\ Before(f) = k /\ After(f) = v
            /\ Contains(f, Equals)
            /\ f # <<>>
<1> DEFINE m == Len(k)
           n == Len(v)
           f == (k \o <<Equals>>) \o v
           I == {i \in 1 .. Len(f) : f[i] = Equals}
<1>0. Equals \in Word
  BY WireAssumption DEF Equals
<1>1. /\ m \in Nat /\ n \in Nat /\ f \in Seq(Word) /\ Len(f) = (m + 1) + n
      /\ f[m + 1] = Equals
      /\ \A i \in 1 .. m : f[i] = k[i]
      /\ \A i \in 1 .. n : f[(m + 1) + i] = v[i]
  BY <1>0
<1>2a. /\ Before(f) = LET i == IF I = {} THEN 0 ELSE Min(I)
                      IN IF i = 0 THEN f ELSE SubSeq(f, 1, i - 1)
       /\ After(f) = LET i == IF I = {} THEN 0 ELSE Min(I)
                     IN IF i = 0 THEN <<>> ELSE SubSeq(f, i + 1, Len(f))
  <2> HIDE DEF f
  <2>1. QED
    BY DEF Before, After, SelectInSeq, Equals
<1> HIDE DEF f, m, n
<1>3. m + 1 \in I /\ \A i \in I : m + 1 <= i
  <2>1. m + 1 \in 1 .. Len(f)
    BY <1>1
  <2>2. ASSUME NEW i \in I, i < m + 1
        PROVE  FALSE
    <3>1. i \in 1 .. m
      BY <2>2, <1>1
    <3>2. k[i] # Equals
      BY <3>1 DEF Lacks, m
    <3>3. QED
      BY <3>1, <3>2, <1>1
  <2>3. \A i \in I : i \in 1 .. Len(f)
    OBVIOUS
  <2>4. QED
    BY <2>1, <2>2, <2>3, <1>1
<1>4. Min(I) = m + 1
  <2>1. \A i \in I : i \in Nat
    BY <1>1
  <2>2. Min(I) = CHOOSE i \in I : \A j \in I : i <= j
    BY DEF Min
  <2> HIDE DEF I
  <2>3. QED
    BY <2>1, <2>2, <1>1, <1>3
<1>5. Before(f) = SubSeq(f, 1, m) /\ After(f) = SubSeq(f, m + 2, Len(f))
  <2>1. I # {}
    BY <1>3
  <2> HIDE DEF I
  <2>2. m + 1 # 0 /\ (m + 1) - 1 = m /\ (m + 1) + 1 = m + 2
    BY <1>1
  <2>3. QED
    BY <2>1, <2>2, <1>2a, <1>4
<1>6. SubSeq(f, 1, m) = k
  <2>1. 1 \in 1 .. Len(f) + 1 /\ m \in 1 - 1 .. Len(f) /\ m - 1 + 1 = m
    BY <1>1
  <2>2. /\ SubSeq(f, 1, m) \in Seq(Word) /\ Len(SubSeq(f, 1, m)) = m
        /\ \A i \in 1 .. m : SubSeq(f, 1, m)[i] = f[1 + i - 1]
    BY <2>1, <1>1, PartIs
  <2>3. \A i \in 1 .. m : 1 + i - 1 = i
    BY <1>1
  <2>4. \A i \in 1 .. m : SubSeq(f, 1, m)[i] = k[i]
    BY <2>2, <2>3, <1>1
  <2> DEFINE s == SubSeq(f, 1, m)
  <2> HIDE DEF s
  <2>5. s = k
    BY <2>2, <2>4, Joining!SameSeq DEF s, m
  <2>6. QED
    BY <2>5 DEF s
<1>7. SubSeq(f, m + 2, Len(f)) = v
  <2> DEFINE a == m + 2
             b == Len(f)
             s == SubSeq(f, a, b)
  <2>1. a \in 1 .. Len(f) + 1 /\ b \in a - 1 .. Len(f) /\ b - a + 1 = n
    BY <1>1
  <2>1a. \A i \in 1 .. n : a + i - 1 = (m + 1) + i
    BY <1>1
  <2> HIDE DEF a, b
  <2>2. /\ s \in Seq(Word) /\ Len(s) = b - a + 1
        /\ \A i \in 1 .. b - a + 1 : s[i] = f[a + i - 1]
    BY <2>1, <1>1, PartIs
  <2>4. \A i \in 1 .. n : s[i] = v[i]
    BY <2>1, <2>1a, <2>2, <1>1
  <2> HIDE DEF s
  <2>5. s = v
    BY <2>1, <2>2, <2>4, Joining!SameSeq DEF n
  <2>6. QED
    BY <2>5 DEF s, a, b
<1>8. Contains(f, Equals)
  <2>1. m + 1 \in 1 .. Len(f)
    BY <1>1
  <2>2. QED
    BY <2>1, <1>1 DEF Contains
<1>9. f # <<>>
  BY <1>1
<1>10. QED
  BY <1>1, <1>5, <1>6, <1>7, <1>8, <1>9 DEF f

-----------------------------------------------------------------------------
(* Reading one field *)

(* The keys of key.rs are words apart from one another and from =.         *)
LEMMA KeysAre ==
  /\ Keys \subseteq Word /\ Equals \notin Keys
  /\ {"exe", "dll_overrides", "arguments_override", "arguments", "debug_channels", "env"}
        \cap (PinKeys \cup Scalars) = {}
  /\ PinKeys \cap Scalars = {}
  /\ "metal_hud" \in Scalars
<1>1. /\ "metal_hud" \in Scalars
      /\ Scalars \subseteq {"dxgi", "d3d9", "wined3d", "opengl", "dpi_aware", "large_address_aware",
                        "gcmouse", "force_nx", "metal_hud"}
      /\ PinKeys \subseteq {"company", "product", "original_filename"}
  BY RulesAssumption
<1>2. Keys \subseteq Word
  BY WireAssumption DEF Keys
<1>3. Equals \notin Keys
  BY <1>1 DEF Keys, Equals
<1>4. QED
  BY <1>1, <1>2, <1>3

ReadBy(acc, key, v) ==
  [rule |-> PutPart(acc.rule, key, v), exe |-> PutExe(acc.exe, key, v),
   seen |-> IF HoldsOne(key) THEN acc.seen \cup {key} ELSE acc.seen, bad |-> acc.bad]

(* read_field of a field that its key takes, for the first time.           *)
LEMMA ReadsIt ==
  ASSUME NEW acc, NEW raw \in Seq(Word), NEW key \in Keys, NEW v \in Seq(Word),
         raw # <<>>, Before(raw) = <<key>>, After(raw) = v, Contains(raw, Equals),
         Takes(key, v), ~Decode(v).bad, ~(HoldsOne(key) /\ key \in acc.seen)
  PROVE  ReadField(acc, raw) =
           ReadBy(acc, key, v)
<1>1. Len(<<key>>) = 1 /\ <<key>>[1] = key
  OBVIOUS
<1>2. Contains(raw, "=")
  BY DEF Equals
<1> HIDE DEF PutPart, PutExe, Takes, Contains, Before, After
<1>3. QED
  BY <1>1, <1>2 DEF ReadField, ReadBy

(* A field as it is written.                                               *)
LEMMA FieldIs ==
  ASSUME NEW key \in Keys, NEW value \in Seq(Word)
  PROVE  /\ Field(key, value) \in Seq(Word) /\ Field(key, value) # <<>>
         /\ Before(Field(key, value)) = <<key>>
         /\ After(Field(key, value)) = Encode(value)
         /\ Contains(Field(key, value), Equals)
<1> DEFINE e == Encode(value)
           k == <<key>>
<1>0. key \in Word /\ key # Equals /\ Equals \in Word
  <2>1. Equals \in Word
    BY WireAssumption DEF Equals
  <2>2. QED
    BY <2>1, KeysAre
<1>1. e \in Seq(Word)
  BY EncodeType
<1>2. k \in Seq(Word) /\ Lacks(k, Equals)
  BY <1>0 DEF Lacks
<1>3. k \o <<Equals>> = <<key, Equals>>
  <2> DEFINE a == k \o <<Equals>>
             b == <<key, Equals>>
  <2>1. a \in Seq(Word) /\ Len(a) = 2 /\ a[1] = key /\ a[2] = Equals
    BY <1>0
  <2>2. b \in Seq(Word) /\ Len(b) = 2 /\ b[1] = key /\ b[2] = Equals
    BY <1>0
  <2> HIDE DEF a, b
  <2>3. \A i \in 1 .. 2 : i = 1 \/ i = 2
    OBVIOUS
  <2>4. a = b
    BY <2>1, <2>2, <2>3, Joining!SameSeq
  <2>5. QED
    BY <2>4 DEF a, b
<1>4. Field(key, value) = <<key, Equals>> \o e
  BY DEF Field, Equals
<1> HIDE DEF e, k
<1>5. Field(key, value) = (k \o <<Equals>>) \o e
  BY <1>3, <1>4
<1> DEFINE f == (k \o <<Equals>>) \o e
<1>6. f \in Seq(Word) /\ Before(f) = k /\ After(f) = e /\ Contains(f, Equals) /\ f # <<>>
  BY <1>1, <1>2, FirstEquals
<1> HIDE DEF f
<1>7. QED
  BY <1>5, <1>6 DEF e, k, f

(* read_field of a field that the writer made.                             *)
LEMMA ReadsField ==
  ASSUME NEW acc, NEW key \in Keys \ {"env"}, NEW text \in Seq(Word),
         PartTakes(key, text), ~(HoldsOne(key) /\ key \in acc.seen)
  PROVE  ReadField(acc, Field(key, text)) = ReadBy(acc, key, Encode(text))
<1> DEFINE v == Encode(text)
           raw == Field(key, text)
<1>1. v \in Seq(Word) /\ Decode(v).text = text /\ ~Decode(v).bad
  BY EncodeType, DecodeOfEncode
<1>2. /\ raw \in Seq(Word) /\ raw # <<>> /\ Before(raw) = <<key>> /\ After(raw) = v
      /\ Contains(raw, Equals)
  BY FieldIs
<1>3. Takes(key, v)
  BY <1>1 DEF Takes
<1> HIDE DEF v, raw
<1>4. ReadField(acc, raw) = ReadBy(acc, key, v)
  BY <1>1, <1>2, <1>3, ReadsIt
<1>5. QED
  BY <1>4 DEF v, raw

(* What was read of a record, with nothing to complain of.                 *)
Part(pins, scalars, dlls, override, arguments, channels, env, exe, seen) ==
  [rule |-> [exe |-> AnyExe, pins |-> pins, scalars |-> scalars, dlls |-> dlls,
             override |-> override, arguments |-> arguments, channels |-> channels, env |-> env],
   exe |-> exe, seen |-> seen, bad |-> 0]

(* What a field does to each part.                                         *)
PinsBy(key, text, pins) == IF key \in PinKeys THEN [pins EXCEPT ![key] = <<text>>] ELSE pins
ScalarsBy(key, text, scalars) ==
  IF key \in Scalars THEN [scalars EXCEPT ![key] = text[1]] ELSE scalars
TextsBy(key, text, k, texts) == IF key = k THEN Append(texts, text) ELSE texts
OverrideBy(key, text, v, override) ==
  IF key # "arguments_override" THEN override
  ELSE <<IF v = <<>> THEN Over(override) ELSE Append(Over(override), text)>>
EnvBy(key, v, env) ==
  IF key # "env" THEN env
  ELSE Append(env, [name |-> Decode(Before(v)).text[1], value |-> Decode(After(v)).text])
SeenBy(key, seen) == IF HoldsOne(key) THEN seen \cup {key} ELSE seen

(* What such a field changes, part by part.                                *)
LEMMA ReadByIs ==
  ASSUME NEW pins, NEW scalars, NEW dlls, NEW override, NEW arguments, NEW channels, NEW env,
         NEW exe, NEW seen, NEW key, NEW v, NEW text, text = Decode(v).text
  PROVE  ReadBy(Part(pins, scalars, dlls, override, arguments, channels, env, exe, seen), key, v) =
           Part(PinsBy(key, text, pins), ScalarsBy(key, text, scalars),
                TextsBy(key, text, "dll_overrides", dlls), OverrideBy(key, text, v, override),
                TextsBy(key, text, "arguments", arguments),
                TextsBy(key, text, "debug_channels", channels), EnvBy(key, v, env),
                PutExe(exe, key, v), SeenBy(key, seen))
<1> DEFINE acc == Part(pins, scalars, dlls, override, arguments, channels, env, exe, seen)
           rule == acc.rule
<1>1. /\ rule.exe = AnyExe /\ rule.pins = pins /\ rule.scalars = scalars /\ rule.dlls = dlls
      /\ rule.override = override /\ rule.arguments = arguments /\ rule.channels = channels
      /\ rule.env = env /\ acc.exe = exe /\ acc.seen = seen /\ acc.bad = 0
  BY DEF Part
<1> HIDE DEF acc
<1>2. PutPart(rule, key, v) =
        [exe |-> AnyExe, pins |-> PinsBy(key, text, pins), scalars |-> ScalarsBy(key, text, scalars),
         dlls |-> TextsBy(key, text, "dll_overrides", dlls),
         override |-> OverrideBy(key, text, v, override),
         arguments |-> TextsBy(key, text, "arguments", arguments),
         channels |-> TextsBy(key, text, "debug_channels", channels),
         env |-> EnvBy(key, v, env)]
  <2> HIDE DEF rule
  <2>1. QED
    BY <1>1, Zenon DEF PutPart, PinsBy, ScalarsBy, TextsBy, OverrideBy, EnvBy
<1>3. QED
  BY <1>1, <1>2, Zenon DEF ReadBy, Part, SeenBy, acc, rule

(* An exe.                                                                 *)
LEMMA ReadsExe ==
  ASSUME NEW pins, NEW scalars, NEW dlls, NEW override, NEW arguments, NEW channels, NEW env,
         NEW exe, NEW seen, NEW text \in Seq(Word), text # <<>>,
         PartTakes("exe", text), "exe" \notin seen
  PROVE  ReadField(Part(pins, scalars, dlls, override, arguments, channels, env, exe, seen),
                   Field("exe", text))
           = Part(pins, scalars, dlls, override, arguments, channels, env, <<text>>, seen \cup {"exe"})
<1> DEFINE acc == Part(pins, scalars, dlls, override, arguments, channels, env, exe, seen)
           v == Encode(text)
<1>1. "exe" \in Keys \ {"env"} /\ "exe" \notin PinKeys \cup Scalars /\ HoldsOne("exe")
  BY KeysAre DEF Keys, HoldsOne
<1>2. v \in Seq(Word) /\ Decode(v).text = text
  BY EncodeType, DecodeOfEncode
<1>3. acc.seen = seen
  BY DEF Part
<1> HIDE DEF acc, v
<1>4. ReadField(acc, Field("exe", text)) = ReadBy(acc, "exe", v)
  BY <1>1, <1>3, ReadsField DEF v
<1>5. ReadBy(acc, "exe", v) =
           Part(PinsBy("exe", text, pins), ScalarsBy("exe", text, scalars),
                TextsBy("exe", text, "dll_overrides", dlls), OverrideBy("exe", text, v, override),
                TextsBy("exe", text, "arguments", arguments),
                TextsBy("exe", text, "debug_channels", channels), EnvBy("exe", v, env),
                PutExe(exe, "exe", v), SeenBy("exe", seen))
  BY <1>2, ReadByIs DEF acc
<1>6. /\ PinsBy("exe", text, pins) = pins
      /\ ScalarsBy("exe", text, scalars) = scalars
      /\ TextsBy("exe", text, "dll_overrides", dlls) = dlls
      /\ OverrideBy("exe", text, v, override) = override
      /\ TextsBy("exe", text, "arguments", arguments) = arguments
      /\ TextsBy("exe", text, "debug_channels", channels) = channels
      /\ EnvBy("exe", v, env) = env
      /\ SeenBy("exe", seen) = seen \cup {"exe"}
  BY <1>1 DEF PinsBy, ScalarsBy, TextsBy, OverrideBy, EnvBy, SeenBy
<1>7. PutExe(exe, "exe", v) = <<text>>
  BY <1>2, Zenon DEF PutExe
<1>8. QED
  BY <1>4, <1>5, <1>6, <1>7, Zenon DEF acc

(* A string of the version resource.                                       *)
LEMMA ReadsPin ==
  ASSUME NEW pins, NEW scalars, NEW dlls, NEW override, NEW arguments, NEW channels, NEW env,
         NEW exe, NEW seen, NEW text \in Seq(Word), NEW key \in PinKeys,
         PartTakes(key, text), key \notin seen
  PROVE  ReadField(Part(pins, scalars, dlls, override, arguments, channels, env, exe, seen),
                   Field(key, text))
           = Part(PinsBy(key, text, pins), scalars, dlls, override, arguments, channels, env, exe,
                  seen \cup {key})
<1> DEFINE acc == Part(pins, scalars, dlls, override, arguments, channels, env, exe, seen)
           v == Encode(text)
<1>1. key \in Keys \ {"env"} /\ key \notin Scalars /\ HoldsOne(key)
      /\ key \notin {"exe", "dll_overrides", "arguments_override", "arguments", "debug_channels", "env"}
  BY KeysAre DEF Keys, HoldsOne
<1>2. v \in Seq(Word) /\ Decode(v).text = text
  BY EncodeType, DecodeOfEncode
<1>3. acc.seen = seen
  BY DEF Part
<1> HIDE DEF acc, v
<1>4. ReadField(acc, Field(key, text)) = ReadBy(acc, key, v)
  BY <1>1, <1>3, ReadsField DEF v
<1>5. ReadBy(acc, key, v) =
           Part(PinsBy(key, text, pins), ScalarsBy(key, text, scalars),
                TextsBy(key, text, "dll_overrides", dlls), OverrideBy(key, text, v, override),
                TextsBy(key, text, "arguments", arguments),
                TextsBy(key, text, "debug_channels", channels), EnvBy(key, v, env),
                PutExe(exe, key, v), SeenBy(key, seen))
  BY <1>2, ReadByIs DEF acc
<1>6. /\ ScalarsBy(key, text, scalars) = scalars
      /\ TextsBy(key, text, "dll_overrides", dlls) = dlls
      /\ OverrideBy(key, text, v, override) = override
      /\ TextsBy(key, text, "arguments", arguments) = arguments
      /\ TextsBy(key, text, "debug_channels", channels) = channels
      /\ EnvBy(key, v, env) = env
      /\ SeenBy(key, seen) = seen \cup {key}
  BY <1>1 DEF PinsBy, ScalarsBy, TextsBy, OverrideBy, EnvBy, SeenBy
<1>7. PutExe(exe, key, v) = exe
  BY <1>1 DEF PutExe
<1>8. QED
  BY <1>4, <1>5, <1>6, <1>7, Zenon DEF acc

(* A scalar setting.                                                       *)
LEMMA ReadsScalar ==
  ASSUME NEW pins, NEW scalars, NEW dlls, NEW override, NEW arguments, NEW channels, NEW env,
         NEW exe, NEW seen, NEW text \in Seq(Word), NEW key \in Scalars,
         PartTakes(key, text), key \notin seen
  PROVE  ReadField(Part(pins, scalars, dlls, override, arguments, channels, env, exe, seen),
                   Field(key, text))
           = Part(pins, ScalarsBy(key, text, scalars), dlls, override, arguments, channels, env, exe,
                  seen \cup {key})
<1> DEFINE acc == Part(pins, scalars, dlls, override, arguments, channels, env, exe, seen)
           v == Encode(text)
<1>1. key \in Keys \ {"env"} /\ key \notin PinKeys /\ HoldsOne(key)
      /\ key \notin {"exe", "dll_overrides", "arguments_override", "arguments", "debug_channels", "env"}
  BY KeysAre DEF Keys, HoldsOne
<1>2. v \in Seq(Word) /\ Decode(v).text = text
  BY EncodeType, DecodeOfEncode
<1>3. acc.seen = seen
  BY DEF Part
<1> HIDE DEF acc, v
<1>4. ReadField(acc, Field(key, text)) = ReadBy(acc, key, v)
  BY <1>1, <1>3, ReadsField DEF v
<1>5. ReadBy(acc, key, v) =
           Part(PinsBy(key, text, pins), ScalarsBy(key, text, scalars),
                TextsBy(key, text, "dll_overrides", dlls), OverrideBy(key, text, v, override),
                TextsBy(key, text, "arguments", arguments),
                TextsBy(key, text, "debug_channels", channels), EnvBy(key, v, env),
                PutExe(exe, key, v), SeenBy(key, seen))
  BY <1>2, ReadByIs DEF acc
<1>6. /\ PinsBy(key, text, pins) = pins
      /\ TextsBy(key, text, "dll_overrides", dlls) = dlls
      /\ OverrideBy(key, text, v, override) = override
      /\ TextsBy(key, text, "arguments", arguments) = arguments
      /\ TextsBy(key, text, "debug_channels", channels) = channels
      /\ EnvBy(key, v, env) = env
      /\ SeenBy(key, seen) = seen \cup {key}
  BY <1>1 DEF PinsBy, ScalarsBy, TextsBy, OverrideBy, EnvBy, SeenBy
<1>7. PutExe(exe, key, v) = exe
  BY <1>1 DEF PutExe
<1>8. QED
  BY <1>4, <1>5, <1>6, <1>7, Zenon DEF acc

(* A DLL override.                                                         *)
LEMMA ReadsDll ==
  ASSUME NEW pins, NEW scalars, NEW dlls, NEW override, NEW arguments, NEW channels, NEW env,
         NEW exe, NEW seen, NEW text \in Seq(Word), PartTakes("dll_overrides", text)
  PROVE  ReadField(Part(pins, scalars, dlls, override, arguments, channels, env, exe, seen),
                   Field("dll_overrides", text))
           = Part(pins, scalars, Append(dlls, text), override, arguments, channels, env, exe, seen)
<1> DEFINE acc == Part(pins, scalars, dlls, override, arguments, channels, env, exe, seen)
           v == Encode(text)
<1>1. /\ "dll_overrides" \in Keys \ {"env"}
      /\ "dll_overrides" \notin PinKeys \cup Scalars /\ ~HoldsOne("dll_overrides")
  BY KeysAre DEF Keys, HoldsOne
<1>2. v \in Seq(Word) /\ Decode(v).text = text
  BY EncodeType, DecodeOfEncode
<1>3. acc.seen = seen
  BY DEF Part
<1> HIDE DEF acc, v
<1>4. ReadField(acc, Field("dll_overrides", text)) = ReadBy(acc, "dll_overrides", v)
  BY <1>1, <1>3, ReadsField DEF v
<1>5. ReadBy(acc, "dll_overrides", v) =
           Part(PinsBy("dll_overrides", text, pins), ScalarsBy("dll_overrides", text, scalars),
                TextsBy("dll_overrides", text, "dll_overrides", dlls), OverrideBy("dll_overrides", text, v, override),
                TextsBy("dll_overrides", text, "arguments", arguments),
                TextsBy("dll_overrides", text, "debug_channels", channels), EnvBy("dll_overrides", v, env),
                PutExe(exe, "dll_overrides", v), SeenBy("dll_overrides", seen))
  BY <1>2, ReadByIs DEF acc
<1>6. /\ PinsBy("dll_overrides", text, pins) = pins
      /\ ScalarsBy("dll_overrides", text, scalars) = scalars
      /\ TextsBy("dll_overrides", text, "dll_overrides", dlls) = Append(dlls, text)
      /\ OverrideBy("dll_overrides", text, v, override) = override
      /\ TextsBy("dll_overrides", text, "arguments", arguments) = arguments
      /\ TextsBy("dll_overrides", text, "debug_channels", channels) = channels
      /\ EnvBy("dll_overrides", v, env) = env
      /\ SeenBy("dll_overrides", seen) = seen
  BY <1>1 DEF PinsBy, ScalarsBy, TextsBy, OverrideBy, EnvBy, SeenBy
<1>7. PutExe(exe, "dll_overrides", v) = exe
  BY <1>2, Zenon DEF PutExe
<1>8. QED
  BY <1>4, <1>5, <1>6, <1>7, Zenon DEF acc

(* An argument.                                                            *)
LEMMA ReadsArgument ==
  ASSUME NEW pins, NEW scalars, NEW dlls, NEW override, NEW arguments, NEW channels, NEW env,
         NEW exe, NEW seen, NEW text \in Seq(Word), PartTakes("arguments", text)
  PROVE  ReadField(Part(pins, scalars, dlls, override, arguments, channels, env, exe, seen),
                   Field("arguments", text))
           = Part(pins, scalars, dlls, override, Append(arguments, text), channels, env, exe, seen)
<1> DEFINE acc == Part(pins, scalars, dlls, override, arguments, channels, env, exe, seen)
           v == Encode(text)
<1>1. "arguments" \in Keys \ {"env"} /\ "arguments" \notin PinKeys \cup Scalars /\ ~HoldsOne("arguments")
  BY KeysAre DEF Keys, HoldsOne
<1>2. v \in Seq(Word) /\ Decode(v).text = text
  BY EncodeType, DecodeOfEncode
<1>3. acc.seen = seen
  BY DEF Part
<1> HIDE DEF acc, v
<1>4. ReadField(acc, Field("arguments", text)) = ReadBy(acc, "arguments", v)
  BY <1>1, <1>3, ReadsField DEF v
<1>5. ReadBy(acc, "arguments", v) =
           Part(PinsBy("arguments", text, pins), ScalarsBy("arguments", text, scalars),
                TextsBy("arguments", text, "dll_overrides", dlls), OverrideBy("arguments", text, v, override),
                TextsBy("arguments", text, "arguments", arguments),
                TextsBy("arguments", text, "debug_channels", channels), EnvBy("arguments", v, env),
                PutExe(exe, "arguments", v), SeenBy("arguments", seen))
  BY <1>2, ReadByIs DEF acc
<1>6. /\ PinsBy("arguments", text, pins) = pins
      /\ ScalarsBy("arguments", text, scalars) = scalars
      /\ TextsBy("arguments", text, "dll_overrides", dlls) = dlls
      /\ OverrideBy("arguments", text, v, override) = override
      /\ TextsBy("arguments", text, "arguments", arguments) = Append(arguments, text)
      /\ TextsBy("arguments", text, "debug_channels", channels) = channels
      /\ EnvBy("arguments", v, env) = env
      /\ SeenBy("arguments", seen) = seen
  BY <1>1 DEF PinsBy, ScalarsBy, TextsBy, OverrideBy, EnvBy, SeenBy
<1>7. PutExe(exe, "arguments", v) = exe
  BY <1>2, Zenon DEF PutExe
<1>8. QED
  BY <1>4, <1>5, <1>6, <1>7, Zenon DEF acc

(* A debug channel.                                                        *)
LEMMA ReadsChannel ==
  ASSUME NEW pins, NEW scalars, NEW dlls, NEW override, NEW arguments, NEW channels, NEW env,
         NEW exe, NEW seen, NEW text \in Seq(Word), PartTakes("debug_channels", text)
  PROVE  ReadField(Part(pins, scalars, dlls, override, arguments, channels, env, exe, seen),
                   Field("debug_channels", text))
           = Part(pins, scalars, dlls, override, arguments, Append(channels, text), env, exe, seen)
<1> DEFINE acc == Part(pins, scalars, dlls, override, arguments, channels, env, exe, seen)
           v == Encode(text)
<1>1. /\ "debug_channels" \in Keys \ {"env"}
      /\ "debug_channels" \notin PinKeys \cup Scalars /\ ~HoldsOne("debug_channels")
  BY KeysAre DEF Keys, HoldsOne
<1>2. v \in Seq(Word) /\ Decode(v).text = text
  BY EncodeType, DecodeOfEncode
<1>3. acc.seen = seen
  BY DEF Part
<1> HIDE DEF acc, v
<1>4. ReadField(acc, Field("debug_channels", text)) = ReadBy(acc, "debug_channels", v)
  BY <1>1, <1>3, ReadsField DEF v
<1>5. ReadBy(acc, "debug_channels", v) =
           Part(PinsBy("debug_channels", text, pins), ScalarsBy("debug_channels", text, scalars),
                TextsBy("debug_channels", text, "dll_overrides", dlls), OverrideBy("debug_channels", text, v, override),
                TextsBy("debug_channels", text, "arguments", arguments),
                TextsBy("debug_channels", text, "debug_channels", channels), EnvBy("debug_channels", v, env),
                PutExe(exe, "debug_channels", v), SeenBy("debug_channels", seen))
  BY <1>2, ReadByIs DEF acc
<1>6. /\ PinsBy("debug_channels", text, pins) = pins
      /\ ScalarsBy("debug_channels", text, scalars) = scalars
      /\ TextsBy("debug_channels", text, "dll_overrides", dlls) = dlls
      /\ OverrideBy("debug_channels", text, v, override) = override
      /\ TextsBy("debug_channels", text, "arguments", arguments) = arguments
      /\ TextsBy("debug_channels", text, "debug_channels", channels) = Append(channels, text)
      /\ EnvBy("debug_channels", v, env) = env
      /\ SeenBy("debug_channels", seen) = seen
  BY <1>1 DEF PinsBy, ScalarsBy, TextsBy, OverrideBy, EnvBy, SeenBy
<1>7. PutExe(exe, "debug_channels", v) = exe
  BY <1>2, Zenon DEF PutExe
<1>8. QED
  BY <1>4, <1>5, <1>6, <1>7, Zenon DEF acc

(* An entry of an override, or one without entries.                        *)
LEMMA ReadsOverride ==
  ASSUME NEW pins, NEW scalars, NEW dlls, NEW override, NEW arguments, NEW channels, NEW env,
         NEW exe, NEW seen, NEW text \in Seq(Word),
         PartTakes("arguments_override", text)
  PROVE  ReadField(Part(pins, scalars, dlls, override, arguments, channels, env, exe, seen),
                   Field("arguments_override", text))
           = Part(pins, scalars, dlls,
                  <<IF Encode(text) = <<>> THEN Over(override) ELSE Append(Over(override), text)>>,
                  arguments, channels, env, exe, seen)
<1> DEFINE acc == Part(pins, scalars, dlls, override, arguments, channels, env, exe, seen)
           v == Encode(text)
<1>1. /\ "arguments_override" \in Keys \ {"env"}
      /\ "arguments_override" \notin PinKeys \cup Scalars /\ ~HoldsOne("arguments_override")
  BY KeysAre DEF Keys, HoldsOne
<1>2. v \in Seq(Word) /\ Decode(v).text = text
  BY EncodeType, DecodeOfEncode
<1>3. acc.seen = seen
  BY DEF Part
<1> HIDE DEF acc, v
<1>4. ReadField(acc, Field("arguments_override", text)) = ReadBy(acc, "arguments_override", v)
  BY <1>1, <1>3, ReadsField DEF v
<1>5. ReadBy(acc, "arguments_override", v) =
           Part(PinsBy("arguments_override", text, pins), ScalarsBy("arguments_override", text, scalars),
                TextsBy("arguments_override", text, "dll_overrides", dlls), OverrideBy("arguments_override", text, v, override),
                TextsBy("arguments_override", text, "arguments", arguments),
                TextsBy("arguments_override", text, "debug_channels", channels), EnvBy("arguments_override", v, env),
                PutExe(exe, "arguments_override", v), SeenBy("arguments_override", seen))
  BY <1>2, ReadByIs DEF acc
<1>6. /\ PinsBy("arguments_override", text, pins) = pins
      /\ ScalarsBy("arguments_override", text, scalars) = scalars
      /\ TextsBy("arguments_override", text, "dll_overrides", dlls) = dlls
      /\ OverrideBy("arguments_override", text, v, override) =
           <<IF Encode(text) = <<>> THEN Over(override) ELSE Append(Over(override), text)>>
      /\ TextsBy("arguments_override", text, "arguments", arguments) = arguments
      /\ TextsBy("arguments_override", text, "debug_channels", channels) = channels
      /\ EnvBy("arguments_override", v, env) = env
      /\ SeenBy("arguments_override", seen) = seen
  BY <1>1 DEF PinsBy, ScalarsBy, TextsBy, OverrideBy, EnvBy, SeenBy, v
<1>7. PutExe(exe, "arguments_override", v) = exe
  BY <1>2, Zenon DEF PutExe
<1>8. QED
  BY <1>4, <1>5, <1>6, <1>7, Zenon DEF acc

(* A variable and its value: one text with the = in it.                    *)
EnvText(entry) == <<entry.name, Equals>> \o entry.value

(* An env field is any other field, with a = in its text.                  *)
LEMMA EnvFieldIs ==
  ASSUME NEW entry, entry.name \in Word, entry.value \in Seq(Word), entry.name # Equals
  PROVE  /\ EnvText(entry) \in Seq(Word)
         /\ EnvField(entry) = Field("env", EnvText(entry))
         /\ Before(Encode(EnvText(entry))) = Encode(<<entry.name>>)
         /\ After(Encode(EnvText(entry))) = Encode(entry.value)
<1> DEFINE name == entry.name
           n == <<name>>
           e == Encode(n)
           w == Encode(entry.value)
           q == <<Equals>>
           h == <<"env", "=">>
<1>0. Equals \in Word /\ "env" \in Word /\ name \in Word
  BY WireAssumption DEF Equals
<1>1. n \in Seq(Word) /\ q \in Seq(Word) /\ h \in Seq(Word) /\ entry.value \in Seq(Word)
  BY <1>0 DEF Equals
<1>2. e \in Seq(Word) /\ w \in Seq(Word)
  BY <1>1, EncodeType
<1>3. WrittenOne(Equals) = q
  <2>1. Equals \notin DOMAIN Escaped
    BY DEF Escaped, Equals
  <2>2. QED
    BY <2>1 DEF WrittenOne
<1>4. Encode(n \o q) = e \o q
  BY <1>0, <1>1, <1>3, EncodeOfMore
<1>5. n \o q = <<name, Equals>>
  <2> DEFINE a == n \o q
             b == <<name, Equals>>
  <2>1. a \in Seq(Word) /\ Len(a) = 2 /\ a[1] = name /\ a[2] = Equals
    BY <1>0
  <2>2. b \in Seq(Word) /\ Len(b) = 2 /\ b[1] = name /\ b[2] = Equals
    BY <1>0
  <2> HIDE DEF a, b
  <2>3. \A i \in 1 .. 2 : i = 1 \/ i = 2
    OBVIOUS
  <2>4. a = b
    BY <2>1, <2>2, <2>3, Joining!SameSeq
  <2>5. QED
    BY <2>4 DEF a, b
<1>6. n \o q \in Seq(Word)
  BY <1>1
<1>7. EnvText(entry) = (n \o q) \o entry.value
  BY <1>5 DEF EnvText
<1>8. EnvText(entry) \in Seq(Word)
  <2> DEFINE a == n \o q
  <2> HIDE DEF a
  <2>1. a \o entry.value \in Seq(Word)
    BY <1>1, <1>6 DEF a
  <2>2. QED
    BY <2>1, <1>7 DEF a
<1>9. Encode(EnvText(entry)) = (e \o q) \o w
  <2> DEFINE a == n \o q
  <2> HIDE DEF a
  <2>1. Encode(a \o entry.value) = Encode(a) \o w
    BY <1>1, <1>6, EncodeOfTwo DEF a
  <2>2. QED
    BY <2>1, <1>4, <1>7 DEF a
<1>10. Lacks(e, Equals)
  <2>1. Encode(<<>> \o n) = <<>> \o WrittenOne(name)
    BY <1>0, EncodeOfMore, EncodeOfNothing, Joining!EmptyInSeq
  <2>2. <<>> \o n = n /\ <<>> \o WrittenOne(name) = WrittenOne(name)
    BY <1>0, <1>1, WrittenType, Joining!Concat
  <2>3. e = WrittenOne(name)
    BY <2>1, <2>2
  <2>4. Escaped = [a \in {"%", ";", "newline"} |->
          CASE a = "%" -> "25" [] a = ";" -> "3B" [] OTHER -> "0A"]
    BY DEF Escaped
  <2>5. CASE name \in DOMAIN Escaped
    <3> DEFINE a == "%"
               d == Escaped[name]
    <3>1. d \in {"25", "3B", "0A"}
      BY <2>4, <2>5
    <3>2. a # Equals /\ d # Equals
      BY <3>1 DEF Equals
    <3>3. WrittenOne(name) = <<a, d>>
      BY <2>5 DEF WrittenOne
    <3> HIDE DEF a, d
    <3>4. QED
      BY <2>3, <3>2, <3>3 DEF Lacks
  <2>6. CASE name \notin DOMAIN Escaped
    <3>1. WrittenOne(name) = <<name>>
      BY <2>6 DEF WrittenOne
    <3>2. QED
      BY <2>3, <3>1 DEF Lacks
  <2>7. QED
    BY <2>5, <2>6
<1>11. EnvField(entry) = ((h \o e) \o q) \o w
  BY DEF EnvField, Equals
<1> HIDE DEF e, q, w, h, n
<1>12. ((h \o e) \o q) \o w = h \o ((e \o q) \o w)
  <2>1. (h \o e) \o q = h \o (e \o q) /\ e \o q \in Seq(Word)
    <3>1. Joining!AllIn(Word, h, e, q)
      BY <1>1, <1>2 DEF Joining!AllIn
    <3>2. (h \o e) \o q = h \o (e \o q)
      BY ONLY <3>1, Joining!EitherWay
    <3>3. e \o q \in Seq(Word)
      BY <1>1, <1>2
    <3>4. QED
      BY ONLY <3>2, <3>3
  <2> DEFINE a == e \o q
  <2>1a. a \in Seq(Word) /\ h \in Seq(Word) /\ w \in Seq(Word)
    BY <1>1, <1>2, <2>1
  <2> HIDE DEF a
  <2>2. (h \o a) \o w = h \o (a \o w)
    <3>1. Joining!AllIn(Word, h, a, w)
      BY ONLY <2>1a DEF Joining!AllIn
    <3>2. QED
      BY ONLY <3>1, Joining!EitherWay
  <2>3. QED
    BY <2>1, <2>2 DEF a
<1>13. EnvField(entry) = Field("env", EnvText(entry))
  BY <1>9, <1>11, <1>12 DEF Field, h
<1>14. Before((e \o q) \o w) = e /\ After((e \o q) \o w) = w
  BY <1>2, <1>10, FirstEquals DEF q
<1>15. QED
  BY <1>8, <1>9, <1>13, <1>14 DEF e, w, n

(* read_field of an env field that the writer made.                        *)
LEMMA ReadsEnv ==
  ASSUME NEW pins, NEW scalars, NEW dlls, NEW override, NEW arguments, NEW channels, NEW env,
         NEW exe, NEW seen, NEW entry, entry.name \in Word, entry.value \in Seq(Word),
         NameTaken(<<entry.name>>), PartTakes("env", EnvText(entry))
  PROVE  ReadField(Part(pins, scalars, dlls, override, arguments, channels, env, exe, seen),
                   EnvField(entry))
           = Part(pins, scalars, dlls, override, arguments, channels,
                  Append(env, [name |-> entry.name, value |-> entry.value]), exe, seen)
<1> DEFINE acc == Part(pins, scalars, dlls, override, arguments, channels, env, exe, seen)
           text == EnvText(entry)
           v == Encode(text)
<1>0. entry.name # Equals
  BY DEF NameTaken, Contains, Equals
<1>1. "env" \in Keys /\ "env" \notin PinKeys \cup Scalars /\ ~HoldsOne("env")
  BY KeysAre DEF Keys, HoldsOne
<1>2. /\ text \in Seq(Word) /\ EnvField(entry) = Field("env", text)
      /\ Before(v) = Encode(<<entry.name>>) /\ After(v) = Encode(entry.value)
  BY <1>0, EnvFieldIs
<1>3. /\ v \in Seq(Word) /\ Decode(v).text = text /\ ~Decode(v).bad
  BY <1>2, EncodeType, DecodeOfEncode
<1>4. Decode(Before(v)).text = <<entry.name>> /\ Decode(After(v)).text = entry.value
  <2>1. <<entry.name>> \in Seq(Word)
    OBVIOUS
  <2>2. QED
    BY <1>2, <2>1, DecodeOfEncode
<1>5. Takes("env", v)
  BY <1>3, <1>4 DEF Takes
<1>6. acc.seen = seen
  BY DEF Part
<1> HIDE DEF acc, v, text
<1>7. /\ Field("env", text) \in Seq(Word) /\ Field("env", text) # <<>>
      /\ Before(Field("env", text)) = <<"env">> /\ After(Field("env", text)) = v
      /\ Contains(Field("env", text), Equals)
  BY <1>1, <1>2, FieldIs DEF v
<1> DEFINE raw == Field("env", text)
<1>8. ReadField(acc, raw) = ReadBy(acc, "env", v)
  <2> HIDE DEF raw
  <2>1. QED
    BY <1>1, <1>3, <1>5, <1>6, <1>7, ReadsIt DEF raw
<1>9. ReadBy(acc, "env", v) =
           Part(PinsBy("env", text, pins), ScalarsBy("env", text, scalars),
                TextsBy("env", text, "dll_overrides", dlls), OverrideBy("env", text, v, override),
                TextsBy("env", text, "arguments", arguments),
                TextsBy("env", text, "debug_channels", channels), EnvBy("env", v, env),
                PutExe(exe, "env", v), SeenBy("env", seen))
  BY <1>3, ReadByIs DEF acc
<1>10. /\ PinsBy("env", text, pins) = pins
       /\ ScalarsBy("env", text, scalars) = scalars
       /\ TextsBy("env", text, "dll_overrides", dlls) = dlls
       /\ OverrideBy("env", text, v, override) = override
       /\ TextsBy("env", text, "arguments", arguments) = arguments
       /\ TextsBy("env", text, "debug_channels", channels) = channels
       /\ SeenBy("env", seen) = seen
  BY <1>1 DEF PinsBy, ScalarsBy, TextsBy, OverrideBy, EnvBy, SeenBy
<1>11. EnvBy("env", v, env) = Append(env, [name |-> entry.name, value |-> entry.value])
  BY <1>4 DEF EnvBy
<1>12. PutExe(exe, "env", v) = exe
  BY DEF PutExe
<1>13. QED
  BY <1>2, <1>8, <1>9, <1>10, <1>11, <1>12, Zenon DEF acc, raw

-----------------------------------------------------------------------------
(* Reading a record *)

(* One text more is one field more.                                        *)
LEMMA FieldsOfMore ==
  ASSUME NEW key \in Keys, NEW ts \in Seq(AnyText), NEW x \in AnyText
  PROVE  /\ Fields(key, ts) \in Seq(AnyText)
         /\ Fields(key, ts \o <<x>>) = Fields(key, ts) \o <<Field(key, x)>>
<1> DEFINE us == ts \o <<x>>
           n == Len(ts)
           g == [i \in DOMAIN us |-> Field(key, us[i])]
           h == [i \in DOMAIN ts |-> Field(key, ts[i])]
<1>1. /\ n \in Nat /\ DOMAIN us = 1 .. n + 1 /\ DOMAIN ts = 1 .. n /\ us[n + 1] = x
      /\ \A i \in 1 .. n : us[i] = ts[i]
  OBVIOUS
<1>2. \A i \in 1 .. n + 1 : us[i] \in AnyText
  OBVIOUS
<1>3. \A t \in AnyText : Field(key, t) \in AnyText
  BY FieldIs DEF AnyText
<1>4. Fields(key, us) = g /\ Fields(key, ts) = h
  BY DEF Fields
<1> HIDE DEF us, n
<1>5. h \in Seq(AnyText) /\ Len(h) = n
  <2>1. \A i \in 1 .. n : ts[i] \in AnyText
    BY DEF n
  <2>2. \A i \in 1 .. n : Field(key, ts[i]) \in AnyText
    BY <1>3, <2>1
  <2>3. QED
    BY <1>1, <2>2
<1>6. /\ g \in Seq(AnyText) /\ Len(g) = n + 1 /\ g[n + 1] = Field(key, x)
      /\ \A i \in 1 .. n : g[i] = h[i]
  <2>1. \A i \in 1 .. n + 1 : Field(key, us[i]) \in AnyText
    BY <1>2, <1>3
  <2>2. QED
    BY <1>1, <2>1
<1>7. Field(key, x) \in AnyText
  BY <1>3
<1> HIDE DEF g, h
<1>8. g = h \o <<Field(key, x)>>
  BY <1>5, <1>6, <1>7, Extended
<1>9. QED
  BY <1>4, <1>5, <1>8 DEF us

(* No texts are no fields.                                                 *)
LEMMA FieldsOfNothing ==
  ASSUME NEW key
  PROVE  Fields(key, <<>>) = <<>>
BY DEF Fields

(* Behind what was appended, one element more.                             *)
LEMMA AppendMore ==
  ASSUME NEW S, NEW s \in Seq(S), NEW t \in Seq(S), NEW x \in S
  PROVE  Append(s \o t, x) = s \o (t \o <<x>>)
<1> DEFINE y == <<x>>
           u == s \o t
<1>1. y \in Seq(S) /\ u \in Seq(S)
  OBVIOUS
<1>2. (s \o t) \o y = s \o (t \o y)
  <2> HIDE DEF y
  <2>1. QED
    BY <1>1, Joining!Concat
<1>3. Append(u, x) = u \o y
  <2> HIDE DEF u
  <2>1. QED
    BY <1>1
<1>4. QED
  BY <1>2, <1>3

(* The DLL overrides of a rule, in their order.                            *)
LEMMA ReadsDlls ==
  ASSUME NEW pins, NEW scalars, NEW override, NEW arguments, NEW channels, NEW env, NEW exe, NEW seen,
         NEW dlls \in Seq(AnyText)
  PROVE  \A ts \in Seq(AnyText) :
           (\A i \in 1 .. Len(ts) : PartTakes("dll_overrides", ts[i])) =>
             Record!Fold(Part(pins, scalars, dlls, override, arguments, channels, env, exe, seen),
                         Fields("dll_overrides", ts))
               = Part(pins, scalars, dlls \o ts, override, arguments, channels, env, exe, seen)
<1> DEFINE base == Part(pins, scalars, dlls, override, arguments, channels, env, exe, seen)
           all(ts) == \A i \in 1 .. Len(ts) : PartTakes("dll_overrides", ts[i])
           end(s) == Part(pins, scalars, s, override, arguments, channels, env, exe, seen)
           P == {ts \in Seq(AnyText) : all(ts) =>
                   Record!Fold(base, Fields("dll_overrides", ts)) = end(dlls \o ts)}
<1>0. "dll_overrides" \in Keys
  BY DEF Keys
<1>1. <<>> \in P
  <2>1. Record!Fold(base, Fields("dll_overrides", <<>>)) = base
    BY FieldsOfNothing, Record!FoldOfNothing
  <2>2. dlls \o <<>> = dlls
    BY Joining!Concat, Joining!EmptyInSeq
  <2>3. Record!Fold(base, Fields("dll_overrides", <<>>)) = end(dlls \o <<>>)
    BY <2>1, <2>2
  <2>4. QED
    BY <2>3, Joining!EmptyInSeq
<1>2. ASSUME NEW ts \in Seq(AnyText), NEW x \in AnyText, ts \in P
      PROVE  ts \o <<x>> \in P
  <2>1. ts \o <<x>> \in Seq(AnyText)
    OBVIOUS
  <2>2. SUFFICES ASSUME all(ts \o <<x>>)
                 PROVE  Record!Fold(base, Fields("dll_overrides", ts \o <<x>>)) = end(dlls \o (ts \o <<x>>))
    BY <2>1
  <2>3. all(ts) /\ PartTakes("dll_overrides", x)
    <3> DEFINE us == ts \o <<x>>
    <3>1. /\ Len(ts) \in Nat /\ Len(us) = Len(ts) + 1 /\ us[Len(ts) + 1] = x
          /\ \A i \in 1 .. Len(ts) : us[i] = ts[i]
      OBVIOUS
    <3>2. \A i \in 1 .. Len(us) : PartTakes("dll_overrides", us[i])
      BY <2>2
    <3> HIDE DEF us
    <3>3. QED
      BY <3>1, <3>2
  <2>4. Record!Fold(base, Fields("dll_overrides", ts)) = end(dlls \o ts)
    BY <1>2, <2>3
  <2> DEFINE f == Fields("dll_overrides", ts)
             y == Field("dll_overrides", x)
  <2>5. /\ f \in Seq(AnyText) /\ y \in AnyText
        /\ Fields("dll_overrides", ts \o <<x>>) = f \o <<y>>
    BY <1>0, FieldsOfMore, FieldIs DEF AnyText
  <2> HIDE DEF base, end, f, y
  <2>6. Record!Fold(base, f \o <<y>>) = ReadField(Record!Fold(base, f), y)
    BY <2>5, Record!FoldOfOneMore
  <2>7. ReadField(end(dlls \o ts), y) = end(Append(dlls \o ts, x))
    BY <2>3, ReadsDll DEF end, y, AnyText
  <2>8. Append(dlls \o ts, x) = dlls \o (ts \o <<x>>)
    BY AppendMore
  <2>9. QED
    BY <2>4, <2>5, <2>6, <2>7, <2>8 DEF f
<1> HIDE DEF P
<1>3. \A ts \in Seq(AnyText) : ts \in P
  BY <1>1, <1>2, Joining!SeqInduction
<1>4. QED
  BY <1>3 DEF P

(* Its arguments.                                                          *)
LEMMA ReadsArguments ==
  ASSUME NEW pins, NEW scalars, NEW dlls, NEW override, NEW channels, NEW env, NEW exe, NEW seen,
         NEW arguments \in Seq(AnyText)
  PROVE  \A ts \in Seq(AnyText) :
           (\A i \in 1 .. Len(ts) : PartTakes("arguments", ts[i])) =>
             Record!Fold(Part(pins, scalars, dlls, override, arguments, channels, env, exe, seen),
                         Fields("arguments", ts))
               = Part(pins, scalars, dlls, override, arguments \o ts, channels, env, exe, seen)
<1> DEFINE base == Part(pins, scalars, dlls, override, arguments, channels, env, exe, seen)
           all(ts) == \A i \in 1 .. Len(ts) : PartTakes("arguments", ts[i])
           end(s) == Part(pins, scalars, dlls, override, s, channels, env, exe, seen)
           P == {ts \in Seq(AnyText) : all(ts) =>
                   Record!Fold(base, Fields("arguments", ts)) = end(arguments \o ts)}
<1>0. "arguments" \in Keys
  BY DEF Keys
<1>1. <<>> \in P
  <2>1. Record!Fold(base, Fields("arguments", <<>>)) = base
    BY FieldsOfNothing, Record!FoldOfNothing
  <2>2. arguments \o <<>> = arguments
    BY Joining!Concat, Joining!EmptyInSeq
  <2>3. Record!Fold(base, Fields("arguments", <<>>)) = end(arguments \o <<>>)
    BY <2>1, <2>2
  <2>4. QED
    BY <2>3, Joining!EmptyInSeq
<1>2. ASSUME NEW ts \in Seq(AnyText), NEW x \in AnyText, ts \in P
      PROVE  ts \o <<x>> \in P
  <2>1. ts \o <<x>> \in Seq(AnyText)
    OBVIOUS
  <2>2. SUFFICES ASSUME all(ts \o <<x>>)
                 PROVE  Record!Fold(base, Fields("arguments", ts \o <<x>>)) = end(arguments \o (ts \o <<x>>))
    BY <2>1
  <2>3. all(ts) /\ PartTakes("arguments", x)
    <3> DEFINE us == ts \o <<x>>
    <3>1. /\ Len(ts) \in Nat /\ Len(us) = Len(ts) + 1 /\ us[Len(ts) + 1] = x
          /\ \A i \in 1 .. Len(ts) : us[i] = ts[i]
      OBVIOUS
    <3>2. \A i \in 1 .. Len(us) : PartTakes("arguments", us[i])
      BY <2>2
    <3> HIDE DEF us
    <3>3. QED
      BY <3>1, <3>2
  <2>4. Record!Fold(base, Fields("arguments", ts)) = end(arguments \o ts)
    BY <1>2, <2>3
  <2> DEFINE f == Fields("arguments", ts)
             y == Field("arguments", x)
  <2>5. /\ f \in Seq(AnyText) /\ y \in AnyText
        /\ Fields("arguments", ts \o <<x>>) = f \o <<y>>
    BY <1>0, FieldsOfMore, FieldIs DEF AnyText
  <2> HIDE DEF base, end, f, y
  <2>6. Record!Fold(base, f \o <<y>>) = ReadField(Record!Fold(base, f), y)
    BY <2>5, Record!FoldOfOneMore
  <2>7. ReadField(end(arguments \o ts), y) = end(Append(arguments \o ts, x))
    BY <2>3, ReadsArgument DEF end, y, AnyText
  <2>8. Append(arguments \o ts, x) = arguments \o (ts \o <<x>>)
    BY AppendMore
  <2>9. QED
    BY <2>4, <2>5, <2>6, <2>7, <2>8 DEF f
<1> HIDE DEF P
<1>3. \A ts \in Seq(AnyText) : ts \in P
  BY <1>1, <1>2, Joining!SeqInduction
<1>4. QED
  BY <1>3 DEF P

(* Its debug channels.                                                     *)
LEMMA ReadsChannels ==
  ASSUME NEW pins, NEW scalars, NEW dlls, NEW override, NEW arguments, NEW env, NEW exe, NEW seen,
         NEW channels \in Seq(AnyText)
  PROVE  \A ts \in Seq(AnyText) :
           (\A i \in 1 .. Len(ts) : PartTakes("debug_channels", ts[i])) =>
             Record!Fold(Part(pins, scalars, dlls, override, arguments, channels, env, exe, seen),
                         Fields("debug_channels", ts))
               = Part(pins, scalars, dlls, override, arguments, channels \o ts, env, exe, seen)
<1> DEFINE base == Part(pins, scalars, dlls, override, arguments, channels, env, exe, seen)
           all(ts) == \A i \in 1 .. Len(ts) : PartTakes("debug_channels", ts[i])
           end(s) == Part(pins, scalars, dlls, override, arguments, s, env, exe, seen)
           P == {ts \in Seq(AnyText) : all(ts) =>
                   Record!Fold(base, Fields("debug_channels", ts)) = end(channels \o ts)}
<1>0. "debug_channels" \in Keys
  BY DEF Keys
<1>1. <<>> \in P
  <2>1. Record!Fold(base, Fields("debug_channels", <<>>)) = base
    BY FieldsOfNothing, Record!FoldOfNothing
  <2>2. channels \o <<>> = channels
    BY Joining!Concat, Joining!EmptyInSeq
  <2>3. Record!Fold(base, Fields("debug_channels", <<>>)) = end(channels \o <<>>)
    BY <2>1, <2>2
  <2>4. QED
    BY <2>3, Joining!EmptyInSeq
<1>2. ASSUME NEW ts \in Seq(AnyText), NEW x \in AnyText, ts \in P
      PROVE  ts \o <<x>> \in P
  <2>1. ts \o <<x>> \in Seq(AnyText)
    OBVIOUS
  <2>2. SUFFICES ASSUME all(ts \o <<x>>)
                 PROVE  Record!Fold(base, Fields("debug_channels", ts \o <<x>>)) = end(channels \o (ts \o <<x>>))
    BY <2>1
  <2>3. all(ts) /\ PartTakes("debug_channels", x)
    <3> DEFINE us == ts \o <<x>>
    <3>1. /\ Len(ts) \in Nat /\ Len(us) = Len(ts) + 1 /\ us[Len(ts) + 1] = x
          /\ \A i \in 1 .. Len(ts) : us[i] = ts[i]
      OBVIOUS
    <3>2. \A i \in 1 .. Len(us) : PartTakes("debug_channels", us[i])
      BY <2>2
    <3> HIDE DEF us
    <3>3. QED
      BY <3>1, <3>2
  <2>4. Record!Fold(base, Fields("debug_channels", ts)) = end(channels \o ts)
    BY <1>2, <2>3
  <2> DEFINE f == Fields("debug_channels", ts)
             y == Field("debug_channels", x)
  <2>5. /\ f \in Seq(AnyText) /\ y \in AnyText
        /\ Fields("debug_channels", ts \o <<x>>) = f \o <<y>>
    BY <1>0, FieldsOfMore, FieldIs DEF AnyText
  <2> HIDE DEF base, end, f, y
  <2>6. Record!Fold(base, f \o <<y>>) = ReadField(Record!Fold(base, f), y)
    BY <2>5, Record!FoldOfOneMore
  <2>7. ReadField(end(channels \o ts), y) = end(Append(channels \o ts, x))
    BY <2>3, ReadsChannel DEF end, y, AnyText
  <2>8. Append(channels \o ts, x) = channels \o (ts \o <<x>>)
    BY AppendMore
  <2>9. QED
    BY <2>4, <2>5, <2>6, <2>7, <2>8 DEF f
<1> HIDE DEF P
<1>3. \A ts \in Seq(AnyText) : ts \in P
  BY <1>1, <1>2, Joining!SeqInduction
<1>4. QED
  BY <1>3 DEF P

(* Its variables.                                                          *)
Entries == [name : Names, value : AnyText]
EnvFields(entries) == [i \in DOMAIN entries |-> EnvField(entries[i])]
EntryTakes(entry) == NameTaken(<<entry.name>>) /\ PartTakes("env", EnvText(entry))

(* An env entry is a name and a text.                                      *)
LEMMA EntryIs ==
  ASSUME NEW entry \in Entries
  PROVE  /\ entry.name \in Word /\ entry.value \in Seq(Word)
         /\ entry = [name |-> entry.name, value |-> entry.value]
         /\ EnvField(entry) \in AnyText
<1>1. entry.name \in Word /\ entry.value \in Seq(Word)
  BY RulesAssumption DEF Entries, AnyText
<1>2. entry = [name |-> entry.name, value |-> entry.value]
  BY DEF Entries
<1>3. EnvField(entry) \in AnyText
  <2> DEFINE a == <<"env", "=">>
             b == Encode(<<entry.name>>)
             c == <<"=">>
             d == Encode(entry.value)
  <2>1. "env" \in Word /\ "=" \in Word
    BY WireAssumption
  <2>2. <<entry.name>> \in Seq(Word)
    BY <1>1
  <2>3. b \in Seq(Word) /\ d \in Seq(Word)
    BY <1>1, <2>2, EncodeType
  <2>4. a \in Seq(Word) /\ c \in Seq(Word)
    BY <2>1
  <2>5. EnvField(entry) = ((a \o b) \o c) \o d
    BY DEF EnvField
  <2> HIDE DEF a, b, c, d
  <2>6. QED
    BY <2>3, <2>4, <2>5 DEF AnyText
<1>4. QED
  BY <1>1, <1>2, <1>3

(* One entry more is one env field more.                                   *)
LEMMA EnvFieldsOfMore ==
  ASSUME NEW es \in Seq(Entries), NEW x \in Entries
  PROVE  /\ EnvFields(es) \in Seq(AnyText)
         /\ EnvFields(es \o <<x>>) = EnvFields(es) \o <<EnvField(x)>>
<1> DEFINE us == es \o <<x>>
           n == Len(es)
           g == [i \in DOMAIN us |-> EnvField(us[i])]
           h == [i \in DOMAIN es |-> EnvField(es[i])]
<1>1. /\ n \in Nat /\ DOMAIN us = 1 .. n + 1 /\ DOMAIN es = 1 .. n /\ us[n + 1] = x
      /\ \A i \in 1 .. n : us[i] = es[i]
  OBVIOUS
<1>2. \A i \in 1 .. n + 1 : us[i] \in Entries
  OBVIOUS
<1>3. \A t \in Entries : EnvField(t) \in AnyText
  BY EntryIs
<1>4. EnvFields(us) = g /\ EnvFields(es) = h
  BY DEF EnvFields
<1> HIDE DEF us, n
<1>5. h \in Seq(AnyText) /\ Len(h) = n
  <2>1. \A i \in 1 .. n : es[i] \in Entries
    BY DEF n
  <2>2. \A i \in 1 .. n : EnvField(es[i]) \in AnyText
    BY <1>3, <2>1
  <2>3. QED
    BY <1>1, <2>2
<1>6. /\ g \in Seq(AnyText) /\ Len(g) = n + 1 /\ g[n + 1] = EnvField(x)
      /\ \A i \in 1 .. n : g[i] = h[i]
  <2>1. \A i \in 1 .. n + 1 : EnvField(us[i]) \in AnyText
    BY <1>2, <1>3
  <2>2. QED
    BY <1>1, <2>1
<1>7. EnvField(x) \in AnyText
  BY <1>3
<1> HIDE DEF g, h
<1>8. g = h \o <<EnvField(x)>>
  BY <1>5, <1>6, <1>7, Extended
<1>9. QED
  BY <1>4, <1>5, <1>8 DEF us

(* read_record reads the env fields back, after what it has.               *)
LEMMA ReadsVariables ==
  ASSUME NEW pins, NEW scalars, NEW dlls, NEW override, NEW arguments, NEW channels, NEW exe,
         NEW seen, NEW env \in Seq(Entries)
  PROVE  \A es \in Seq(Entries) :
           (\A i \in 1 .. Len(es) : EntryTakes(es[i])) =>
             Record!Fold(Part(pins, scalars, dlls, override, arguments, channels, env, exe, seen),
                         EnvFields(es))
               = Part(pins, scalars, dlls, override, arguments, channels, env \o es, exe, seen)
<1> DEFINE base == Part(pins, scalars, dlls, override, arguments, channels, env, exe, seen)
           all(es) == \A i \in 1 .. Len(es) : EntryTakes(es[i])
           end(s) == Part(pins, scalars, dlls, override, arguments, channels, s, exe, seen)
           P == {es \in Seq(Entries) : all(es) =>
                   Record!Fold(base, EnvFields(es)) = end(env \o es)}
<1>1. <<>> \in P
  <2>0. EnvFields(<<>>) = <<>>
    BY DEF EnvFields
  <2>1. Record!Fold(base, EnvFields(<<>>)) = base
    BY <2>0, Record!FoldOfNothing
  <2>2. env \o <<>> = env
    BY Joining!Concat, Joining!EmptyInSeq
  <2>3. Record!Fold(base, EnvFields(<<>>)) = end(env \o <<>>)
    BY <2>1, <2>2
  <2>4. QED
    BY <2>3, Joining!EmptyInSeq
<1>2. ASSUME NEW es \in Seq(Entries), NEW x \in Entries, es \in P
      PROVE  es \o <<x>> \in P
  <2>1. es \o <<x>> \in Seq(Entries)
    OBVIOUS
  <2>2. SUFFICES ASSUME all(es \o <<x>>)
                 PROVE  Record!Fold(base, EnvFields(es \o <<x>>)) = end(env \o (es \o <<x>>))
    BY <2>1
  <2>3. all(es) /\ EntryTakes(x)
    <3> DEFINE us == es \o <<x>>
    <3>1. /\ Len(es) \in Nat /\ Len(us) = Len(es) + 1 /\ us[Len(es) + 1] = x
          /\ \A i \in 1 .. Len(es) : us[i] = es[i]
      OBVIOUS
    <3>2. \A i \in 1 .. Len(us) : EntryTakes(us[i])
      BY <2>2
    <3> HIDE DEF us
    <3>3. QED
      BY <3>1, <3>2
  <2>4. Record!Fold(base, EnvFields(es)) = end(env \o es)
    BY <1>2, <2>3
  <2> DEFINE f == EnvFields(es)
             y == EnvField(x)
  <2>5. /\ f \in Seq(AnyText) /\ y \in AnyText
        /\ EnvFields(es \o <<x>>) = f \o <<y>>
    BY EnvFieldsOfMore, EntryIs
  <2> HIDE DEF base, end, f, y
  <2>6. Record!Fold(base, f \o <<y>>) = ReadField(Record!Fold(base, f), y)
    BY <2>5, Record!FoldOfOneMore
  <2>7. ReadField(end(env \o es), y) = end(Append(env \o es, [name |-> x.name, value |-> x.value]))
    <3>1. x.name \in Word /\ x.value \in Seq(Word)
      BY EntryIs
    <3>2. QED
      BY <2>3, <3>1, ReadsEnv DEF end, y, EntryTakes
  <2>7a. x = [name |-> x.name, value |-> x.value]
    BY EntryIs
  <2>8. Append(env \o es, x) = env \o (es \o <<x>>)
    BY AppendMore
  <2>9. QED
    BY <2>4, <2>5, <2>6, <2>7, <2>7a, <2>8 DEF f
<1> HIDE DEF P
<1>3. \A es \in Seq(Entries) : es \in P
  BY <1>1, <1>2, Joining!SeqInduction
<1>4. QED
  BY <1>3 DEF P

(* The entries of its override.                                            *)
LEMMA EncodeNotNothing ==
  ASSUME NEW t \in Seq(Word), t # <<>>
  PROVE  Encode(t) # <<>>
<1>1. Decode(Encode(t)).text = t /\ Decode(Encode(<<>>)).text = <<>>
  BY DecodeOfEncode, Joining!EmptyInSeq
<1>2. QED
  BY <1>1, EncodeOfNothing

Chosen(ts) == IF ts = <<>> THEN <<>> ELSE <<ts>>

(* An override that gets one argument more.                                *)
LEMMA ChosenMore ==
  ASSUME NEW S, NEW ts \in Seq(S), NEW x \in S
  PROVE  /\ Append(Over(Chosen(ts)), x) = ts \o <<x>>
         /\ Chosen(ts \o <<x>>) = <<ts \o <<x>> >>
<1>1. Over(Chosen(ts)) = ts
  <2>1. CASE ts = <<>>
    BY <2>1, Zenon DEF Over, Chosen
  <2>2. CASE ts # <<>>
    <3>1. Chosen(ts) = <<ts>>
      BY <2>2 DEF Chosen
    <3>2. <<ts>> # <<>> /\ <<ts>>[1] = ts
      OBVIOUS
    <3>3. QED
      BY <3>1, <3>2, Zenon DEF Over
  <2>3. QED
    BY <2>1, <2>2
<1>2. ts \o <<x>> # <<>>
  OBVIOUS
<1>3. Chosen(ts \o <<x>>) = <<ts \o <<x>> >>
  BY <1>2, Zenon DEF Chosen
<1>4. Append(ts, x) = ts \o <<x>>
  OBVIOUS
<1>5. QED
  BY <1>1, <1>3, <1>4

(* What an argument may be, one of an override may be.                     *)
LEMMA ArgumentTakes ==
  ASSUME NEW t, PartTakes("arguments", t)
  PROVE  t # <<>> /\ PartTakes("arguments_override", t)
<1>1. /\ "arguments" \notin Scalars /\ "arguments_override" \notin Scalars
  BY KeysAre
<1>2. t # <<>>
  BY <1>1, Zenon DEF PartTakes
<1>3. PartTakes("arguments_override", t)
  <2>1. ~Contains(t, "nul")
    BY Zenon DEF PartTakes
  <2>2. QED
    BY <1>1, <2>1, Zenon DEF PartTakes
<1>4. QED
  BY <1>2, <1>3

(* The entries of an override that has any are read back one after another.*)
LEMMA ReadsEntries ==
  ASSUME NEW pins, NEW scalars, NEW dlls, NEW arguments, NEW channels, NEW env, NEW exe, NEW seen
  PROVE  \A ts \in Seq(AnyText) :
           (\A i \in 1 .. Len(ts) : PartTakes("arguments", ts[i])) =>
             Record!Fold(Part(pins, scalars, dlls, Chosen(<<>>), arguments, channels, env, exe, seen),
                         Fields("arguments_override", ts))
               = Part(pins, scalars, dlls, Chosen(ts), arguments, channels, env, exe, seen)
<1> DEFINE none == Chosen(<<>>)
           base == Part(pins, scalars, dlls, none, arguments, channels, env, exe, seen)
           all(ts) == \A i \in 1 .. Len(ts) : PartTakes("arguments", ts[i])
           end(s) == Part(pins, scalars, dlls, s, arguments, channels, env, exe, seen)
           P == {ts \in Seq(AnyText) : all(ts) =>
                   Record!Fold(base, Fields("arguments_override", ts)) = end(Chosen(ts))}
<1>0. "arguments_override" \in Keys
  BY DEF Keys
<1>1. <<>> \in P
  <2>1. Record!Fold(base, Fields("arguments_override", <<>>)) = base
    BY FieldsOfNothing, Record!FoldOfNothing
  <2>3. Record!Fold(base, Fields("arguments_override", <<>>)) = end(Chosen(<<>>))
    BY <2>1
  <2>4. QED
    BY <2>3, Joining!EmptyInSeq
<1> HIDE DEF none
<1>2. ASSUME NEW ts \in Seq(AnyText), NEW x \in AnyText, ts \in P
      PROVE  ts \o <<x>> \in P
  <2>1. ts \o <<x>> \in Seq(AnyText)
    OBVIOUS
  <2>2. SUFFICES ASSUME all(ts \o <<x>>)
                 PROVE  Record!Fold(base, Fields("arguments_override", ts \o <<x>>))
                          = end(Chosen(ts \o <<x>>))
    BY <2>1
  <2>3. all(ts) /\ PartTakes("arguments", x)
    <3> DEFINE us == ts \o <<x>>
    <3>1. /\ Len(ts) \in Nat /\ Len(us) = Len(ts) + 1 /\ us[Len(ts) + 1] = x
          /\ \A i \in 1 .. Len(ts) : us[i] = ts[i]
      OBVIOUS
    <3>2. \A i \in 1 .. Len(us) : PartTakes("arguments", us[i])
      BY <2>2
    <3> HIDE DEF us
    <3>3. QED
      BY <3>1, <3>2
  <2>4. Record!Fold(base, Fields("arguments_override", ts)) = end(Chosen(ts))
    BY <1>2, <2>3
  <2> DEFINE f == Fields("arguments_override", ts)
             y == Field("arguments_override", x)
  <2>5. /\ f \in Seq(AnyText) /\ y \in AnyText
        /\ Fields("arguments_override", ts \o <<x>>) = f \o <<y>>
    BY <1>0, FieldsOfMore, FieldIs DEF AnyText
  <2> DEFINE c == Chosen(ts)
  <2>6. Append(Over(c), x) = ts \o <<x>> /\ Chosen(ts \o <<x>>) = <<ts \o <<x>> >>
    BY ChosenMore
  <2>7. PartTakes("arguments_override", x) /\ Encode(x) # <<>>
    BY <2>3, ArgumentTakes, EncodeNotNothing DEF AnyText
  <2> HIDE DEF base, end, f, y, c
  <2>8. Record!Fold(base, f \o <<y>>) = ReadField(Record!Fold(base, f), y)
    BY <2>5, Record!FoldOfOneMore
  <2>9. ReadField(end(c), y) = end(<<Append(Over(c), x)>>)
    <3>1. x \in Seq(Word)
      BY DEF AnyText
    <3>2. ReadField(end(c), y)
            = end(<<IF Encode(x) = <<>> THEN Over(c) ELSE Append(Over(c), x)>>)
      BY ONLY <3>1, <2>7, ReadsOverride DEF end, y
    <3>3. (IF Encode(x) = <<>> THEN Over(c) ELSE Append(Over(c), x)) = Append(Over(c), x)
      BY <2>7, Zenon
    <3>4. QED
      BY <3>2, <3>3, Zenon
  <2>10. Record!Fold(base, f) = end(c)
    BY <2>4 DEF f, c
  <2>11. end(<<Append(Over(c), x)>>) = end(Chosen(ts \o <<x>>))
    BY <2>6, Zenon
  <2>12. QED
    BY <2>5, <2>8, <2>9, <2>10, <2>11 DEF f
<1> HIDE DEF P
<1>3. \A ts \in Seq(AnyText) : ts \in P
  BY <1>1, <1>2, Joining!SeqInduction
<1>4. QED
  BY <1>3 DEF P, none

(* An option that there is is a sequence of one.                           *)
LEMMA OptionalIs ==
  ASSUME NEW S, NEW o \in Optional(S), o # <<>>
  PROVE  Len(o) = 1 /\ o[1] \in S /\ o = <<o[1]>>
<1>1. o \in Seq(S) /\ Len(o) <= 1
  BY DEF Optional
<1>2. Len(o) = 1
  <2>1. CASE Len(o) = 0
    <3> DEFINE e == <<>>
    <3>1. e \in Seq(S) /\ Len(e) = 0 /\ o # e
      BY Joining!EmptyInSeq
    <3> HIDE DEF e
    <3>2. o = e
      BY <1>1, <2>1, <3>1, Joining!SameSeq
    <3>3. QED
      BY <3>1, <3>2
  <2>2. Len(o) \in Nat
    BY ONLY <1>1
  <2>3. QED
    BY ONLY <1>1, <2>1, <2>2
<1>3. o[1] \in S
  BY <1>1, <1>2
<1>4. o = <<o[1]>>
  <2> DEFINE e == <<o[1]>>
  <2>1. e \in Seq(S) /\ Len(e) = 1 /\ e[1] = o[1]
    BY <1>3
  <2> HIDE DEF e
  <2>2. o = e
    BY <1>1, <1>2, <2>1, Joining!SameSeq
  <2>3. QED
    BY <2>2 DEF e
<1>5. QED
  BY <1>2, <1>3, <1>4

(* An override, with entries or without, or none.                          *)
LEMMA ReadsAnOverride ==
  ASSUME NEW pins, NEW scalars, NEW dlls, NEW arguments, NEW channels, NEW env, NEW exe, NEW seen,
         NEW rule, rule.override \in Optional(Seq(AnyText)),
         rule.override # <<>> =>
           \A i \in DOMAIN rule.override[1] : PartTakes("arguments", rule.override[1][i])
  PROVE  /\ OverrideFields(rule) \in Seq(AnyText)
         /\ Record!Fold(Part(pins, scalars, dlls, <<>>, arguments, channels, env, exe, seen),
                        OverrideFields(rule))
              = Part(pins, scalars, dlls, rule.override, arguments, channels, env, exe, seen)
<1> DEFINE end(s) == Part(pins, scalars, dlls, s, arguments, channels, env, exe, seen)
           o == rule.override
           key == "arguments_override"
<1>0. key \in Keys
  BY DEF Keys
<1>1. CASE o = <<>>
  <2>0. << <<>> >> # <<>>
    OBVIOUS
  <2>1. OverrideFields(rule) = <<>>
    BY <1>1, <2>0, Zenon DEF OverrideFields
  <2>2. Record!Fold(end(<<>>), OverrideFields(rule)) = end(<<>>)
    BY <2>1, Record!FoldOfNothing
  <2>3. QED
    BY <1>1, <2>1, <2>2, Joining!EmptyInSeq, Zenon
<1>2. CASE o = << <<>> >>
  <2> DEFINE y == Field(key, <<>>)
  <2>1. << <<>> >> # <<>>
    OBVIOUS
  <2>2. OverrideFields(rule) = <<y>>
    BY <1>2, <2>1, Zenon DEF OverrideFields
  <2>3. <<>> \in Seq(Word) /\ <<>> \in Seq(AnyText)
    BY Joining!EmptyInSeq
  <2>4. y \in AnyText
    BY <1>0, <2>3, FieldIs DEF AnyText
  <2> HIDE DEF y
  <2>5. <<y>> \in Seq(AnyText) /\ <<>> \o <<y>> = <<y>>
    BY <2>4
  <2>6. PartTakes(key, <<>>)
    <3>1. ~Contains(<<>>, "nul")
      BY DEF Contains
    <3>2. key \notin Scalars
      BY KeysAre
    <3>3. QED
      BY <3>1, <3>2, Zenon DEF PartTakes
  <2>7. Record!Fold(end(<<>>), <<y>>) = ReadField(end(<<>>), y)
    <3> DEFINE b == end(<<>>)
               e == <<>>
    <3>1. Record!Fold(b, e) = b /\ e \in Seq(AnyText) /\ e \o <<y>> = <<y>>
      BY <2>3, <2>5, Record!FoldOfNothing
    <3> HIDE DEF b, e
    <3>2. Record!Fold(b, e \o <<y>>) = ReadField(Record!Fold(b, e), y)
      BY <2>4, <3>1, Record!FoldOfOneMore
    <3>3. QED
      BY <3>1, <3>2 DEF b
  <2>8. ReadField(end(<<>>), y) = end(<< <<>> >>)
    <3> DEFINE t == <<>>
               c == <<>>
    <3>0. t \in Seq(Word)
      BY <2>3
    <3>1. Encode(t) = <<>> /\ Over(c) = <<>>
      BY EncodeOfNothing, Zenon DEF Over
    <3>2. PartTakes(key, t)
      BY <2>6
    <3> HIDE DEF t, c
    <3>3. ReadField(end(c), Field(key, t))
            = end(<<IF Encode(t) = <<>> THEN Over(c) ELSE Append(Over(c), t)>>)
      BY ONLY <3>0, <3>2, ReadsOverride
    <3>4. (IF Encode(t) = <<>> THEN Over(c) ELSE Append(Over(c), t)) = <<>>
      BY <3>1, Zenon
    <3>5. QED
      BY <3>3, <3>4, Zenon DEF y, t, c
  <2>9. QED
    BY <1>2, <2>2, <2>5, <2>7, <2>8, Zenon
<1>3. CASE o # <<>> /\ o # << <<>> >>
  <2>1. OverrideFields(rule) = Fields(key, o[1])
    BY <1>3, Zenon DEF OverrideFields
  <2>2. Len(o) = 1 /\ o[1] \in Seq(AnyText) /\ o = <<o[1]>>
    BY <1>3, OptionalIs
  <2>3. o[1] # <<>>
    BY <1>3, <2>2
  <2> DEFINE ts == o[1]
  <2>4. \A i \in 1 .. Len(ts) : PartTakes("arguments", ts[i])
    BY <1>3, <2>2
  <2>5. Chosen(<<>>) = <<>> /\ Chosen(ts) = o
    BY <2>2, <2>3, Zenon DEF Chosen
  <2> HIDE DEF ts
  <2>6. Record!Fold(end(Chosen(<<>>)), Fields(key, ts)) = end(Chosen(ts))
    <3>1. ts \in Seq(AnyText)
      BY <2>2 DEF ts
    <3>2. QED
      BY ONLY <3>1, <2>4, ReadsEntries
  <2>7. Fields(key, ts) \in Seq(AnyText)
    <3> DEFINE g == [i \in DOMAIN ts |-> Field(key, ts[i])]
    <3>1. ts \in Seq(AnyText)
      BY <2>2 DEF ts
    <3>2. \A i \in DOMAIN ts : Field(key, ts[i]) \in AnyText
      BY <3>1, <1>0, FieldIs DEF AnyText
    <3>3. g \in Seq(AnyText)
      BY <3>1, <3>2
    <3>4. QED
      BY <3>3 DEF Fields
  <2>8. QED
    BY <2>1, <2>5, <2>6, <2>7 DEF ts
<1>4. QED
  BY <1>1, <1>2, <1>3

(* The keys of a rule that hold one value, each at most once.              *)
Held(ks) == {ks[i] : i \in 1 .. Len(ks)}
Distinct(ks) == \A i, j \in 1 .. Len(ks) : i < j => ks[i] # ks[j]
KeyFields(ks, V) == [i \in DOMAIN ks |-> Field(ks[i], V[ks[i]])]

(* One more key is held.                                                   *)
LEMMA HeldOfMore ==
  ASSUME NEW S, NEW ks \in Seq(S), NEW x \in S
  PROVE  /\ Held(ks \o <<x>>) = Held(ks) \cup {x}
         /\ Distinct(ks \o <<x>>) => Distinct(ks) /\ x \notin Held(ks)
<1> DEFINE us == ks \o <<x>>
           n == Len(ks)
<1>1. /\ n \in Nat /\ Len(us) = n + 1 /\ us[n + 1] = x
      /\ \A i \in 1 .. n : us[i] = ks[i]
  OBVIOUS
<1> HIDE DEF us, n
<1>2. Held(us) = Held(ks) \cup {x}
  <2>1. \A i : i \in 1 .. n + 1 <=> i \in 1 .. n \/ i = n + 1
    BY <1>1
  <2>2. ASSUME NEW k
        PROVE  k \in Held(us) <=> k \in Held(ks) \/ k = x
    <3>1. k \in Held(us) <=> \E i \in 1 .. n + 1 : us[i] = k
      BY <1>1 DEF Held
    <3>2. k \in Held(ks) <=> \E i \in 1 .. n : ks[i] = k
      BY DEF Held, n
    <3>3. QED
      BY <1>1, <2>1, <3>1, <3>2
  <2>3. QED
    BY <2>2
<1>3. Distinct(us) => Distinct(ks) /\ x \notin Held(ks)
  <2>1. SUFFICES ASSUME Distinct(us)
                 PROVE  Distinct(ks) /\ x \notin Held(ks)
    OBVIOUS
  <2>2. \A i, j \in 1 .. n + 1 : i < j => us[i] # us[j]
    BY <1>1, <2>1 DEF Distinct
  <2>3. Distinct(ks)
    <3>1. SUFFICES ASSUME NEW i \in 1 .. n, NEW j \in 1 .. n, i < j
                   PROVE  ks[i] # ks[j]
      BY DEF Distinct, n
    <3>2. i \in 1 .. n + 1 /\ j \in 1 .. n + 1
      BY <1>1
    <3>3. QED
      BY <1>1, <2>2, <3>1, <3>2
  <2>4. x \notin Held(ks)
    <3>1. SUFFICES ASSUME NEW i \in 1 .. n, ks[i] = x
                   PROVE  FALSE
      BY DEF Held, n
    <3>2. i \in 1 .. n + 1 /\ n + 1 \in 1 .. n + 1 /\ i < n + 1
      BY <1>1
    <3>3. us[i] # us[n + 1]
      BY <2>2, <3>2
    <3>4. QED
      BY <1>1, <3>1, <3>3
  <2>5. QED
    BY <2>3, <2>4
<1>4. QED
  BY <1>2, <1>3 DEF us

(* A field for each key.                                                   *)
LEMMA KeyFieldsOfMore ==
  ASSUME NEW ks \in Seq(Keys), NEW x \in Keys, NEW V, V[x] \in AnyText,
         \A i \in 1 .. Len(ks) : V[ks[i]] \in AnyText
  PROVE  /\ KeyFields(ks, V) \in Seq(AnyText)
         /\ KeyFields(ks \o <<x>>, V) = KeyFields(ks, V) \o <<Field(x, V[x])>>
<1> DEFINE us == ks \o <<x>>
           n == Len(ks)
           g == [i \in DOMAIN us |-> Field(us[i], V[us[i]])]
           h == [i \in DOMAIN ks |-> Field(ks[i], V[ks[i]])]
<1>1. /\ n \in Nat /\ DOMAIN us = 1 .. n + 1 /\ DOMAIN ks = 1 .. n /\ us[n + 1] = x
      /\ \A i \in 1 .. n : us[i] = ks[i]
  OBVIOUS
<1>2. \A i \in 1 .. n : ks[i] \in Keys
  OBVIOUS
<1>3. \A k \in Keys : V[k] \in AnyText => Field(k, V[k]) \in AnyText
  BY FieldIs DEF AnyText
<1>4. KeyFields(us, V) = g /\ KeyFields(ks, V) = h
  BY DEF KeyFields
<1> HIDE DEF us
<1>5. \A i \in 1 .. n : Field(ks[i], V[ks[i]]) \in AnyText
  BY <1>2, <1>3
<1>6. Field(x, V[x]) \in AnyText
  BY <1>3
<1> HIDE DEF n
<1>7. h \in Seq(AnyText) /\ Len(h) = n
  BY <1>1, <1>5
<1>8. /\ g \in Seq(AnyText) /\ Len(g) = n + 1 /\ g[n + 1] = Field(x, V[x])
      /\ \A i \in 1 .. n : g[i] = h[i]
  <2>1. \A i \in 1 .. n + 1 : i \in 1 .. n \/ i = n + 1
    BY <1>1
  <2>2. \A i \in 1 .. n + 1 : Field(us[i], V[us[i]]) \in AnyText
    BY <1>1, <1>5, <1>6, <2>1
  <2>3. QED
    BY <1>1, <2>2
<1> HIDE DEF g, h
<1>9. g = h \o <<Field(x, V[x])>>
  BY <1>6, <1>7, <1>8, Extended
<1>10. QED
  BY <1>4, <1>7, <1>9 DEF us

(* The pins of a rule, with the keys in H read as V has them.                *)
PinsWith(pins, V, H) == [k \in PinKeys |-> IF k \in H THEN <<V[k]>> ELSE pins[k]]

(* Reading one fingerprint more.                                           *)
LEMMA PinsWithMore ==
  ASSUME NEW pins, NEW V, NEW H, NEW x \in PinKeys
  PROVE  PinsBy(x, V[x], PinsWith(pins, V, H)) = PinsWith(pins, V, H \cup {x})
<1> DEFINE f == PinsWith(pins, V, H)
           g == PinsWith(pins, V, H \cup {x})
<1>1. f = [k \in PinKeys |-> f[k]]
  BY DEF PinsWith
<1>2. g = [k \in PinKeys |-> g[k]]
  BY DEF PinsWith
<1>3. ASSUME NEW k \in PinKeys
      PROVE  g[k] = IF k = x THEN <<V[x]>> ELSE f[k]
  BY DEF PinsWith
<1> HIDE DEF f, g
<1>4. [f EXCEPT ![x] = <<V[x]>>] = [k \in PinKeys |-> IF k = x THEN <<V[x]>> ELSE f[k]]
  BY <1>1
<1>5. PinsBy(x, V[x], f) = [f EXCEPT ![x] = <<V[x]>>]
  BY DEF PinsBy
<1>6. QED
  BY <1>2, <1>3, <1>4, <1>5 DEF f, g

(* The pins a rule holds.                                                  *)
LEMMA ReadsPins ==
  ASSUME NEW pins, NEW scalars, NEW dlls, NEW override, NEW arguments, NEW channels, NEW env, NEW exe,
         NEW seen, NEW V, pins = [k \in PinKeys |-> pins[k]]
  PROVE  \A ks \in Seq(PinKeys) :
           /\ Distinct(ks) /\ Held(ks) \cap seen = {}
           /\ \A i \in 1 .. Len(ks) : V[ks[i]] \in AnyText /\ PartTakes(ks[i], V[ks[i]])
           => Record!Fold(Part(pins, scalars, dlls, override, arguments, channels, env, exe, seen),
                          KeyFields(ks, V))
                = Part(PinsWith(pins, V, Held(ks)), scalars, dlls, override, arguments, channels, env, exe,
                       seen \cup Held(ks))
<1> DEFINE base == Part(pins, scalars, dlls, override, arguments, channels, env, exe, seen)
           each(ks) == \A i \in 1 .. Len(ks) : V[ks[i]] \in AnyText /\ PartTakes(ks[i], V[ks[i]])
           apart(ks) == Distinct(ks) /\ Held(ks) \cap seen = {}
           put(q, s) == Part(q, scalars, dlls, override, arguments, channels, env, exe, s)
           end(H) == put(PinsWith(pins, V, H), seen \cup H)
           P == {ks \in Seq(PinKeys) : apart(ks) /\ each(ks) =>
                   Record!Fold(base, KeyFields(ks, V)) = end(Held(ks))}
<1>0. PinKeys \subseteq Keys
  BY DEF Keys
<1>1. <<>> \in P
  <2>1. Record!Fold(base, KeyFields(<<>>, V)) = base
    <3>1. KeyFields(<<>>, V) = <<>>
      BY DEF KeyFields
    <3>2. QED
      BY <3>1, Record!FoldOfNothing
  <2>2. Held(<<>>) = {}
    BY DEF Held
  <2>3. PinsWith(pins, V, {}) = pins
    BY DEF PinsWith
  <2>4. seen \cup {} = seen
    OBVIOUS
  <2>5. end({}) = base
    BY <2>3, <2>4
  <2>6. Record!Fold(base, KeyFields(<<>>, V)) = end(Held(<<>>))
    BY <2>1, <2>2, <2>5, Zenon
  <2>7. QED
    BY <2>6, Joining!EmptyInSeq
<1>2. ASSUME NEW ks \in Seq(PinKeys), NEW x \in PinKeys, ks \in P
      PROVE  ks \o <<x>> \in P
  <2> DEFINE us == ks \o <<x>>
             H == Held(ks)
             f == KeyFields(ks, V)
             y == Field(x, V[x])
  <2>1. us \in Seq(PinKeys)
    OBVIOUS
  <2>2. SUFFICES ASSUME apart(us), each(us)
                 PROVE  Record!Fold(base, KeyFields(us, V)) = end(Held(us))
    BY <2>1
  <2>3. Held(us) = H \cup {x} /\ Distinct(ks) /\ x \notin H
    BY <2>2, HeldOfMore
  <2>4. H \cap seen = {} /\ x \notin seen \cup H
    BY <2>2, <2>3
  <2>5. each(ks) /\ V[x] \in AnyText /\ PartTakes(x, V[x])
    <3>1. /\ Len(ks) \in Nat /\ Len(us) = Len(ks) + 1 /\ us[Len(ks) + 1] = x
          /\ \A i \in 1 .. Len(ks) : us[i] = ks[i]
      OBVIOUS
    <3>2. \A i \in 1 .. Len(us) : V[us[i]] \in AnyText /\ PartTakes(us[i], V[us[i]])
      BY <2>2
    <3> HIDE DEF us
    <3>3. QED
      BY <3>1, <3>2
  <2>6. Record!Fold(base, f) = end(H)
    BY <1>2, <2>3, <2>4, <2>5
  <2>7. f \in Seq(AnyText) /\ KeyFields(us, V) = f \o <<y>>
    <3>1. ks \in Seq(Keys) /\ x \in Keys
      BY <1>0
    <3>2. \A i \in 1 .. Len(ks) : V[ks[i]] \in AnyText
      BY <2>5
    <3>3. QED
      BY <2>5, <3>1, <3>2, KeyFieldsOfMore
  <2>8. y \in AnyText
    BY <1>0, <2>5, FieldIs DEF AnyText
  <2> HIDE DEF us, H, f, y, base
  <2>9. Record!Fold(base, f \o <<y>>) = ReadField(Record!Fold(base, f), y)
    BY <2>7, <2>8, Record!FoldOfOneMore
  <2>10. ReadField(end(H), y) = put(PinsBy(x, V[x], PinsWith(pins, V, H)), (seen \cup H) \cup {x})
    <3>1. V[x] \in Seq(Word)
      BY <2>5 DEF AnyText
    <3> DEFINE q == PinsWith(pins, V, H)
               s == seen \cup H
    <3>2. x \notin s
      BY <2>4
    <3> DEFINE v == V[x]
    <3>3. v \in Seq(Word) /\ PartTakes(x, v) /\ x \in PinKeys
      BY <3>1, <2>5
    <3> HIDE DEF q, s, v
    <3>4. ReadField(put(q, s), Field(x, v)) = put(PinsBy(x, v, q), s \cup {x})
      BY ONLY <3>2, <3>3, ReadsPin
    <3>5. QED
      BY <3>4 DEF q, s, v, y
  <2>11. (seen \cup H) \cup {x} = seen \cup (H \cup {x})
    OBVIOUS
  <2>12. PinsBy(x, V[x], PinsWith(pins, V, H)) = PinsWith(pins, V, H \cup {x})
    BY ONLY PinsWithMore, x \in PinKeys
  <2>13. ReadField(end(H), y) = end(H \cup {x})
    <3> HIDE DEF put
    <3>1. QED
      BY <2>10, <2>11, <2>12
  <2> HIDE DEF end
  <2>14. QED
    BY <2>3, <2>6, <2>7, <2>9, <2>13
<1> HIDE DEF P
<1>3. \A ks \in Seq(PinKeys) : ks \in P
  BY <1>1, <1>2, Joining!SeqInduction
<1>4. QED
  BY <1>3 DEF P

(* Its scalars, likewise.                                                   *)
ScalarsWith(scalars, V, H) == [k \in Scalars |-> IF k \in H THEN V[k][1] ELSE scalars[k]]

(* Reading one setting more.                                               *)
LEMMA ScalarsWithMore ==
  ASSUME NEW scalars, NEW V, NEW H, NEW x \in Scalars
  PROVE  ScalarsBy(x, V[x], ScalarsWith(scalars, V, H)) = ScalarsWith(scalars, V, H \cup {x})
<1> DEFINE f == ScalarsWith(scalars, V, H)
           g == ScalarsWith(scalars, V, H \cup {x})
<1>1. f = [k \in Scalars |-> f[k]]
  BY DEF ScalarsWith
<1>2. g = [k \in Scalars |-> g[k]]
  BY DEF ScalarsWith
<1>3. ASSUME NEW k \in Scalars
      PROVE  g[k] = IF k = x THEN V[x][1] ELSE f[k]
  BY DEF ScalarsWith
<1> HIDE DEF f, g
<1>4. [f EXCEPT ![x] = V[x][1]] = [k \in Scalars |-> IF k = x THEN V[x][1] ELSE f[k]]
  BY <1>1
<1>5. ScalarsBy(x, V[x], f) = [f EXCEPT ![x] = V[x][1]]
  BY DEF ScalarsBy
<1>6. QED
  BY <1>2, <1>3, <1>4, <1>5 DEF f, g

(* The scalars it sets.                                                    *)
LEMMA ReadsScalars ==
  ASSUME NEW pins, NEW scalars, NEW dlls, NEW override, NEW arguments, NEW channels, NEW env, NEW exe,
         NEW seen, NEW V, scalars = [k \in Scalars |-> scalars[k]]
  PROVE  \A ks \in Seq(Scalars) :
           /\ Distinct(ks) /\ Held(ks) \cap seen = {}
           /\ \A i \in 1 .. Len(ks) : V[ks[i]] \in AnyText /\ PartTakes(ks[i], V[ks[i]])
           => Record!Fold(Part(pins, scalars, dlls, override, arguments, channels, env, exe, seen),
                          KeyFields(ks, V))
                = Part(pins, ScalarsWith(scalars, V, Held(ks)), dlls, override, arguments, channels, env, exe,
                       seen \cup Held(ks))
<1> DEFINE base == Part(pins, scalars, dlls, override, arguments, channels, env, exe, seen)
           each(ks) == \A i \in 1 .. Len(ks) : V[ks[i]] \in AnyText /\ PartTakes(ks[i], V[ks[i]])
           apart(ks) == Distinct(ks) /\ Held(ks) \cap seen = {}
           put(q, s) == Part(pins, q, dlls, override, arguments, channels, env, exe, s)
           end(H) == put(ScalarsWith(scalars, V, H), seen \cup H)
           P == {ks \in Seq(Scalars) : apart(ks) /\ each(ks) =>
                   Record!Fold(base, KeyFields(ks, V)) = end(Held(ks))}
<1>0. Scalars \subseteq Keys
  BY DEF Keys
<1>1. <<>> \in P
  <2>1. Record!Fold(base, KeyFields(<<>>, V)) = base
    <3>1. KeyFields(<<>>, V) = <<>>
      BY DEF KeyFields
    <3>2. QED
      BY <3>1, Record!FoldOfNothing
  <2>2. Held(<<>>) = {}
    BY DEF Held
  <2>3. ScalarsWith(scalars, V, {}) = scalars
    BY DEF ScalarsWith
  <2>4. seen \cup {} = seen
    OBVIOUS
  <2>5. end({}) = base
    BY <2>3, <2>4
  <2>6. Record!Fold(base, KeyFields(<<>>, V)) = end(Held(<<>>))
    BY <2>1, <2>2, <2>5, Zenon
  <2>7. QED
    BY <2>6, Joining!EmptyInSeq
<1>2. ASSUME NEW ks \in Seq(Scalars), NEW x \in Scalars, ks \in P
      PROVE  ks \o <<x>> \in P
  <2> DEFINE us == ks \o <<x>>
             H == Held(ks)
             f == KeyFields(ks, V)
             y == Field(x, V[x])
  <2>1. us \in Seq(Scalars)
    OBVIOUS
  <2>2. SUFFICES ASSUME apart(us), each(us)
                 PROVE  Record!Fold(base, KeyFields(us, V)) = end(Held(us))
    BY <2>1
  <2>3. Held(us) = H \cup {x} /\ Distinct(ks) /\ x \notin H
    BY <2>2, HeldOfMore
  <2>4. H \cap seen = {} /\ x \notin seen \cup H
    BY <2>2, <2>3
  <2>5. each(ks) /\ V[x] \in AnyText /\ PartTakes(x, V[x])
    <3>1. /\ Len(ks) \in Nat /\ Len(us) = Len(ks) + 1 /\ us[Len(ks) + 1] = x
          /\ \A i \in 1 .. Len(ks) : us[i] = ks[i]
      OBVIOUS
    <3>2. \A i \in 1 .. Len(us) : V[us[i]] \in AnyText /\ PartTakes(us[i], V[us[i]])
      BY <2>2
    <3> HIDE DEF us
    <3>3. QED
      BY <3>1, <3>2
  <2>6. Record!Fold(base, f) = end(H)
    BY <1>2, <2>3, <2>4, <2>5
  <2>7. f \in Seq(AnyText) /\ KeyFields(us, V) = f \o <<y>>
    <3>1. ks \in Seq(Keys) /\ x \in Keys
      BY <1>0
    <3>2. \A i \in 1 .. Len(ks) : V[ks[i]] \in AnyText
      BY <2>5
    <3>3. QED
      BY <2>5, <3>1, <3>2, KeyFieldsOfMore
  <2>8. y \in AnyText
    BY <1>0, <2>5, FieldIs DEF AnyText
  <2> HIDE DEF us, H, f, y, base
  <2>9. Record!Fold(base, f \o <<y>>) = ReadField(Record!Fold(base, f), y)
    BY <2>7, <2>8, Record!FoldOfOneMore
  <2>10. ReadField(end(H), y) = put(ScalarsBy(x, V[x], ScalarsWith(scalars, V, H)), (seen \cup H) \cup {x})
    <3>1. V[x] \in Seq(Word)
      BY <2>5 DEF AnyText
    <3> DEFINE q == ScalarsWith(scalars, V, H)
               s == seen \cup H
    <3>2. x \notin s
      BY <2>4
    <3> DEFINE v == V[x]
    <3>3. v \in Seq(Word) /\ PartTakes(x, v) /\ x \in Scalars
      BY <3>1, <2>5
    <3> HIDE DEF q, s, v
    <3>4. ReadField(put(q, s), Field(x, v)) = put(ScalarsBy(x, v, q), s \cup {x})
      BY ONLY <3>2, <3>3, ReadsScalar
    <3>5. QED
      BY <3>4 DEF q, s, v, y
  <2>11. (seen \cup H) \cup {x} = seen \cup (H \cup {x})
    OBVIOUS
  <2>12. ScalarsBy(x, V[x], ScalarsWith(scalars, V, H)) = ScalarsWith(scalars, V, H \cup {x})
    BY ONLY ScalarsWithMore, x \in Scalars
  <2>13. ReadField(end(H), y) = end(H \cup {x})
    <3> HIDE DEF put
    <3>1. QED
      BY <2>10, <2>11, <2>12
  <2> HIDE DEF end
  <2>14. QED
    BY <2>3, <2>6, <2>7, <2>9, <2>13
<1> HIDE DEF P
<1>3. \A ks \in Seq(Scalars) : ks \in P
  BY <1>1, <1>2, Joining!SeqInduction
<1>4. QED
  BY <1>3 DEF P

(* The keys selected from an order of them, all different, are different   *)
(* again, and are those at the positions selected.                         *)
LEMMA HeldIs ==
  ASSUME NEW S, NEW o \in Seq(S), Distinct(o), NEW K, NEW I,
         \A i \in 1 .. Len(o) : i \in I => o[i] \in K
  PROVE  /\ Selected(o, I) \in Seq(K)
         /\ Distinct(Selected(o, I))
         /\ \A k : k \in Held(Selected(o, I)) <=> \E i \in 1 .. Len(o) : i \in I /\ o[i] = k
<1> DEFINE c == Selected(o, I)
<1>1. c \in Seq(S)
  BY SelectedType
<1>2. PICK at : IsPlaced(c, o, I, at)
  BY SelectedInOrder
<1> DEFINE m == Len(c)
           n == Len(o)
<1>3. m \in Nat /\ n \in Nat
  BY <1>1
<1> HIDE DEF c
<1>4. /\ \A k \in 1 .. m : at[k] \in 1 .. n /\ at[k] \in I /\ c[k] = o[at[k]]
      /\ \A k, l \in 1 .. m : k < l => at[k] < at[l]
      /\ \A i \in 1 .. n : i \in I => \E k \in 1 .. m : at[k] = i
  BY <1>2, Zenon DEF IsPlaced
<1>5. \A k \in 1 .. m : c[k] \in K
  BY <1>4
<1>6. c \in Seq(K)
  BY <1>1, <1>5
<1>7. Distinct(c)
  <2>1. SUFFICES ASSUME NEW k \in 1 .. m, NEW l \in 1 .. m, k < l
                 PROVE  c[k] # c[l]
    BY DEF Distinct
  <2>2. at[k] \in 1 .. n /\ at[l] \in 1 .. n /\ at[k] < at[l]
    BY <1>4, <2>1
  <2>3. o[at[k]] # o[at[l]]
    BY <2>2 DEF Distinct
  <2>4. QED
    BY <1>4, <2>3
<1>8. \A k : k \in Held(c) <=> \E i \in 1 .. n : i \in I /\ o[i] = k
  BY <1>4 DEF Held
<1>9. QED
  BY <1>6, <1>7, <1>8 DEF c

(* A field as the writer makes it: it keeps clear of the format's marks.   *)
FineFields == {f \in AnyText : f # <<>> /\ Lacks(f, ";") /\ Lacks(f, "newline")}

(* No key has one of the marks for its name.                               *)
LEMMA KeyLacks ==
  ASSUME NEW key \in Keys, NEW c \in Separators \cup {"v"}
  PROVE  key # c
<1>1. /\ Scalars \subseteq {"dxgi", "d3d9", "wined3d", "opengl", "dpi_aware", "large_address_aware",
                        "gcmouse", "force_nx", "metal_hud"}
      /\ PinKeys \subseteq {"company", "product", "original_filename"}
  BY RulesAssumption
<1>2. QED
  BY <1>1 DEF Keys, Separators

(* A field the writer makes has no separator of the format in it.          *)
LEMMA FieldFine ==
  ASSUME NEW key \in Keys, NEW value \in AnyText
  PROVE  Field(key, value) \in FineFields
<1> DEFINE a == <<key, "=">>
           b == Encode(value)
<1>1. Field(key, value) \in Seq(Word) /\ Field(key, value) # <<>>
  BY FieldIs DEF AnyText
<1>2. b \in Seq(Word) /\ \A c \in Separators : Lacks(b, c)
  BY EncodeType, EncodeLacks DEF AnyText
<1>3. a \in Seq(Word)
  BY KeysAre, WireAssumption
<1>4. \A c \in Separators : Lacks(a, c)
  <2>1. SUFFICES ASSUME NEW c \in Separators
                 PROVE  Lacks(a, c)
    OBVIOUS
  <2>2. key # c
    BY KeyLacks
  <2>3. "=" # c
    BY DEF Separators
  <2>4. QED
    BY <2>2, <2>3 DEF Lacks
<1>5. Field(key, value) = a \o b
  BY DEF Field
<1> HIDE DEF a, b
<1>6. \A c \in Separators : Lacks(a \o b, c)
  BY <1>2, <1>3, <1>4, LacksOfTwo
<1>7. ";" \in Separators /\ "newline" \in Separators
  BY DEF Separators
<1>8. QED
  BY <1>1, <1>5, <1>6, <1>7, Zenon DEF FineFields, AnyText

(* A variable's field is one too.                                          *)
LEMMA EnvFieldFine ==
  ASSUME NEW entry \in Entries, NameTaken(<<entry.name>>)
  PROVE  EnvField(entry) \in FineFields
<1>1. entry.name \in Word /\ entry.value \in Seq(Word)
  BY EntryIs
<1>2. entry.name # Equals
  <2> DEFINE t == <<entry.name>>
  <2>1. 1 \in 1 .. Len(t) /\ t[1] = entry.name
    OBVIOUS
  <2>2. ~Contains(t, "=")
    BY DEF NameTaken
  <2>3. t[1] # "="
    BY <2>1, <2>2 DEF Contains
  <2>4. QED
    BY <2>1, <2>3 DEF Equals
<1>3. EnvText(entry) \in Seq(Word) /\ EnvField(entry) = Field("env", EnvText(entry))
  BY <1>1, <1>2, EnvFieldIs
<1>4. "env" \in Keys
  BY DEF Keys
<1>5. QED
  BY <1>3, <1>4, FieldFine DEF AnyText

(* So are all the fields that are read back.                               *)
LEMMA FieldsFine ==
  ASSUME NEW key \in Keys, NEW ts \in Seq(AnyText)
  PROVE  Fields(key, ts) \in Seq(FineFields)
<1> DEFINE g == [i \in DOMAIN ts |-> Field(key, ts[i])]
<1>1. \A i \in DOMAIN ts : Field(key, ts[i]) \in FineFields
  BY FieldFine
<1>2. g \in Seq(FineFields)
  BY <1>1
<1>3. QED
  BY <1>2 DEF Fields

(* Texts that lack a word are joined by another to a text that lacks it,   *)
(* which starts as the first of them does.                                 *)
LEMMA JoinLacks ==
  ASSUME NEW S, NEW separator \in S, NEW c, c # separator
  PROVE  \A ts \in Seq(Seq(S)) :
           (\A i \in 1 .. Len(ts) : Lacks(ts[i], c)) => Lacks(Join(ts, separator), c)
<1> DEFINE all(ts) == \A i \in 1 .. Len(ts) : Lacks(ts[i], c)
           P == {ts \in Seq(Seq(S)) : all(ts) => Lacks(Join(ts, separator), c)}
<1>1. <<>> \in P
  <2>1. Join(<<>>, separator) = <<>>
    <3>1. Join(<<>>, separator) = Flat(<<>>)
      BY DEF Join
    <3>2. QED
      BY <3>1, FlatOfNothing
  <2>2. Lacks(<<>>, c)
    BY DEF Lacks
  <2>3. Lacks(Join(<<>>, separator), c)
    BY <2>1, <2>2, Zenon
  <2>4. QED
    BY <2>3, Joining!EmptyInSeq
<1>2. ASSUME NEW ts \in Seq(Seq(S)), NEW y \in Seq(S), ts \in P
      PROVE  ts \o <<y>> \in P
  <2> DEFINE us == ts \o <<y>>
  <2>1. us \in Seq(Seq(S))
    OBVIOUS
  <2>2. SUFFICES ASSUME all(us)
                 PROVE  Lacks(Join(us, separator), c)
    BY <2>1
  <2>3. all(ts) /\ Lacks(y, c)
    <3>1. /\ Len(ts) \in Nat /\ Len(us) = Len(ts) + 1 /\ us[Len(ts) + 1] = y
          /\ \A i \in 1 .. Len(ts) : us[i] = ts[i]
      OBVIOUS
    <3>2. \A i \in 1 .. Len(us) : Lacks(us[i], c)
      BY <2>2
    <3> HIDE DEF us
    <3>3. QED
      BY <3>1, <3>2
  <2> DEFINE j == Join(ts, separator)
             k == j \o <<separator>>
  <2>4. j \in Seq(S) /\ Lacks(j, c)
    BY <1>2, <2>3, SplitOfJoin
  <2>5. Join(us, separator) = IF ts = <<>> THEN y ELSE k \o y
    BY JoinOfMore
  <2> HIDE DEF j
  <2>6. Lacks(k, c) /\ k \in Seq(S)
    BY <2>4, LacksMore
  <2> HIDE DEF k
  <2>7. Lacks(k \o y, c)
    BY <2>3, <2>6, LacksOfTwo
  <2> HIDE DEF us
  <2>8. QED
    BY <2>3, <2>5, <2>7, Zenon
<1> HIDE DEF P
<1>3. \A ts \in Seq(Seq(S)) : ts \in P
  BY <1>1, <1>2, Joining!SeqInduction
<1>4. QED
  BY <1>3 DEF P

(* Joined texts start as the first of them.                                *)
LEMMA JoinStarts ==
  ASSUME NEW S, NEW separator \in S
  PROVE  \A ts \in Seq(Seq(S)) :
           ts # <<>> /\ ts[1] # <<>> =>
             Join(ts, separator) # <<>> /\ Join(ts, separator)[1] = ts[1][1]
<1> DEFINE starts(ts) == ts # <<>> /\ ts[1] # <<>> =>
             Join(ts, separator) # <<>> /\ Join(ts, separator)[1] = ts[1][1]
           P == {ts \in Seq(Seq(S)) : starts(ts)}
<1>1. <<>> \in P
  BY Joining!EmptyInSeq
<1>2. ASSUME NEW ts \in Seq(Seq(S)), NEW y \in Seq(S), ts \in P
      PROVE  ts \o <<y>> \in P
  <2> DEFINE us == ts \o <<y>>
             j == Join(ts, separator)
             k == j \o <<separator>>
  <2>1. us \in Seq(Seq(S)) /\ us # <<>>
    OBVIOUS
  <2>2. j \in Seq(S)
    BY SplitOfJoin
  <2>3. Join(us, separator) = IF ts = <<>> THEN y ELSE k \o y
    BY JoinOfMore
  <2>3a. SUFFICES starts(us)
    <3> HIDE DEF starts
    <3>1. QED
      BY <2>1
  <2>4. CASE ts = <<>>
    <3>1. us[1] = y
      BY <2>4
    <3> HIDE DEF us
    <3>2. Join(us, separator) = y
      BY <2>3, <2>4
    <3>3. starts(us)
      BY <3>1, <3>2, Zenon
    <3>4. QED
      BY <3>3, Zenon
  <2>5. CASE ts # <<>>
    <3>1. us[1] = ts[1]
      BY <2>5
    <3> HIDE DEF us
    <3>2. Join(us, separator) = k \o y
      BY <2>3, <2>5
    <3>3. ASSUME ts[1] # <<>>
          PROVE  k \o y # <<>> /\ (k \o y)[1] = ts[1][1]
      <4>1. j # <<>> /\ j[1] = ts[1][1]
        BY <1>2, <2>5, <3>3
      <4> HIDE DEF j
      <4>2. k \in Seq(S) /\ Len(k) > 0 /\ k[1] = j[1]
        BY <2>2, <4>1
      <4> HIDE DEF k
      <4>3. k \o y # <<>> /\ (k \o y)[1] = k[1]
        BY <4>2
      <4>4. QED
        BY <4>1, <4>2, <4>3
    <3>4. starts(us)
      BY <3>1, <3>2, <3>3, Zenon
    <3>5. QED
      BY <3>4, Zenon
  <2>6. QED
    BY <2>4, <2>5
<1> HIDE DEF P
<1>3. \A ts \in Seq(Seq(S)) : ts \in P
  BY <1>1, <1>2, Joining!SeqInduction
<1>4. QED
  BY <1>3 DEF P

(* The keys a rule is written with, and what it says of each.              *)
HeldPins(rule) ==
  Selected(PinOrder, {i \in DOMAIN PinOrder :
                        PinOrder[i] \in PinKeys /\ rule.pins[PinOrder[i]] # <<>>})
SaidScalars(rule) ==
  Selected(ScalarOrder, {i \in DOMAIN ScalarOrder :
                           ScalarOrder[i] \in Scalars /\ rule.scalars[ScalarOrder[i]] # Unset})
PinTexts(rule) == [k \in PinKeys |-> rule.pins[k][1]]
ScalarTexts(rule) == [s \in Scalars |-> <<rule.scalars[s]>>]

PinName == {"company", "product", "original_filename"}
ScalarName == {"dxgi", "d3d9", "wined3d", "opengl", "dpi_aware", "large_address_aware",
               "gcmouse", "force_nx", "metal_hud"}

(* The writer's orders name every fingerprint and setting, each once.      *)
LEMMA OrdersAre ==
  /\ PinOrder \in Seq(PinName) /\ Distinct(PinOrder) /\ DOMAIN PinOrder = 1 .. Len(PinOrder)
  /\ \A k \in PinKeys : \E i \in 1 .. Len(PinOrder) : PinOrder[i] = k
  /\ ScalarOrder \in Seq(ScalarName) /\ Distinct(ScalarOrder)
  /\ DOMAIN ScalarOrder = 1 .. Len(ScalarOrder)
  /\ \A k \in Scalars : \E i \in 1 .. Len(ScalarOrder) : ScalarOrder[i] = k
<1>1. PinOrder \in Seq(PinName) /\ Len(PinOrder) = 3 /\ DOMAIN PinOrder = 1 .. 3
  BY DEF PinOrder, PinName
<1>2. PinOrder[1] = "company" /\ PinOrder[2] = "product" /\ PinOrder[3] = "original_filename"
  BY DEF PinOrder
<1>3. Distinct(PinOrder)
  <2>1. \A i, j \in 1 .. 3 :
          i < j => (i = 1 /\ j = 2) \/ (i = 1 /\ j = 3) \/ (i = 2 /\ j = 3)
    OBVIOUS
  <2>2. QED
    BY <1>1, <1>2, <2>1 DEF Distinct
<1>4. \A k \in PinKeys : \E i \in 1 .. Len(PinOrder) : PinOrder[i] = k
  <2>1. PinKeys \subseteq PinName
    BY RulesAssumption DEF PinName
  <2>2. 1 \in 1 .. 3 /\ 2 \in 1 .. 3 /\ 3 \in 1 .. 3
    OBVIOUS
  <2>3. QED
    BY <1>1, <1>2, <2>1, <2>2 DEF PinName
<1>5. ScalarOrder \in Seq(ScalarName) /\ Len(ScalarOrder) = 9 /\ DOMAIN ScalarOrder = 1 .. 9
  BY DEF ScalarOrder, ScalarName
<1>6. /\ ScalarOrder[1] = "dxgi" /\ ScalarOrder[2] = "d3d9" /\ ScalarOrder[3] = "wined3d"
      /\ ScalarOrder[4] = "opengl" /\ ScalarOrder[5] = "dpi_aware"
      /\ ScalarOrder[6] = "large_address_aware" /\ ScalarOrder[7] = "gcmouse"
      /\ ScalarOrder[8] = "force_nx" /\ ScalarOrder[9] = "metal_hud"
  BY DEF ScalarOrder
<1>7. Distinct(ScalarOrder)
  <2>1. SUFFICES ASSUME NEW i \in 1 .. 9, NEW j \in 1 .. 9, i < j
                 PROVE  ScalarOrder[i] # ScalarOrder[j]
    BY <1>5 DEF Distinct
  <2>2. /\ i = 1 \/ i = 2 \/ i = 3 \/ i = 4 \/ i = 5 \/ i = 6 \/ i = 7 \/ i = 8
        /\ j = 2 \/ j = 3 \/ j = 4 \/ j = 5 \/ j = 6 \/ j = 7 \/ j = 8 \/ j = 9
    BY <2>1
  <2>3. CASE i = 1
    BY <1>6, <2>1, <2>2, <2>3
  <2>4. CASE i = 2
    BY <1>6, <2>1, <2>2, <2>4
  <2>5. CASE i = 3
    BY <1>6, <2>1, <2>2, <2>5
  <2>6. CASE i = 4
    BY <1>6, <2>1, <2>2, <2>6
  <2>7. CASE i = 5
    BY <1>6, <2>1, <2>2, <2>7
  <2>8. CASE i = 6
    BY <1>6, <2>1, <2>2, <2>8
  <2>9. CASE i = 7
    BY <1>6, <2>1, <2>2, <2>9
  <2>10. CASE i = 8
    BY <1>6, <2>1, <2>2, <2>10
  <2>11. QED
    BY <2>2, <2>3, <2>4, <2>5, <2>6, <2>7, <2>8, <2>9, <2>10
<1>8. \A k \in Scalars : \E i \in 1 .. Len(ScalarOrder) : ScalarOrder[i] = k
  <2>1. Scalars \subseteq ScalarName
    BY RulesAssumption DEF ScalarName
  <2>2. \A k \in ScalarName : \E i \in 1 .. 9 : ScalarOrder[i] = k
    <3>1. /\ 1 \in 1 .. 9 /\ 2 \in 1 .. 9 /\ 3 \in 1 .. 9 /\ 4 \in 1 .. 9 /\ 5 \in 1 .. 9
          /\ 6 \in 1 .. 9 /\ 7 \in 1 .. 9 /\ 8 \in 1 .. 9 /\ 9 \in 1 .. 9
      OBVIOUS
    <3>2. QED
      BY <1>6, <3>1 DEF ScalarName
  <2>3. QED
    BY <1>5, <2>1, <2>2
<1>9. QED
  BY <1>1, <1>3, <1>4, <1>5, <1>7, <1>8

(* Which keys those are.                                                   *)
LEMMA HeldPinsAre ==
  ASSUME NEW rule
  PROVE  /\ HeldPins(rule) \in Seq(PinKeys) /\ Distinct(HeldPins(rule))
         /\ \A k \in PinKeys : k \in Held(HeldPins(rule)) <=> rule.pins[k] # <<>>
<1> DEFINE o == PinOrder
           has(k) == rule.pins[k] # <<>>
           I == {i \in DOMAIN o : o[i] \in PinKeys /\ has(o[i])}
<1>1. /\ o \in Seq(PinName) /\ Distinct(o) /\ DOMAIN o = 1 .. Len(o)
      /\ \A k \in PinKeys : \E i \in 1 .. Len(o) : o[i] = k
  BY OrdersAre
<1>2. \A i \in 1 .. Len(o) : i \in I <=> o[i] \in PinKeys /\ has(o[i])
  BY <1>1
<1>3. HeldPins(rule) = Selected(o, I)
  BY DEF HeldPins
<1> HIDE DEF o, I, has
<1>4. \A i \in 1 .. Len(o) : i \in I => o[i] \in PinKeys
  BY <1>2
<1>5. /\ Selected(o, I) \in Seq(PinKeys)
      /\ Distinct(Selected(o, I))
      /\ \A k : k \in Held(Selected(o, I)) <=> \E i \in 1 .. Len(o) : i \in I /\ o[i] = k
  BY <1>1, <1>4, HeldIs
<1>6. \A k \in PinKeys : k \in Held(Selected(o, I)) <=> has(k)
  BY <1>1, <1>2, <1>5
<1>7. QED
  BY <1>3, <1>5, <1>6, Zenon DEF has

(* The settings a record has are those its rule says.                      *)
LEMMA SaidScalarsAre ==
  ASSUME NEW rule
  PROVE  /\ SaidScalars(rule) \in Seq(Scalars) /\ Distinct(SaidScalars(rule))
         /\ \A k \in Scalars : k \in Held(SaidScalars(rule)) <=> rule.scalars[k] # Unset
<1> DEFINE o == ScalarOrder
           has(k) == rule.scalars[k] # Unset
           I == {i \in DOMAIN o : o[i] \in Scalars /\ has(o[i])}
<1>1. /\ o \in Seq(ScalarName) /\ Distinct(o) /\ DOMAIN o = 1 .. Len(o)
      /\ \A k \in Scalars : \E i \in 1 .. Len(o) : o[i] = k
  BY OrdersAre
<1>2. \A i \in 1 .. Len(o) : i \in I <=> o[i] \in Scalars /\ has(o[i])
  BY <1>1
<1>3. SaidScalars(rule) = Selected(o, I)
  BY DEF SaidScalars
<1> HIDE DEF o, I, has
<1>4. \A i \in 1 .. Len(o) : i \in I => o[i] \in Scalars
  BY <1>2
<1>5. /\ Selected(o, I) \in Seq(Scalars)
      /\ Distinct(Selected(o, I))
      /\ \A k : k \in Held(Selected(o, I)) <=> \E i \in 1 .. Len(o) : i \in I /\ o[i] = k
  BY <1>1, <1>4, HeldIs
<1>6. \A k \in Scalars : k \in Held(Selected(o, I)) <=> has(k)
  BY <1>1, <1>2, <1>5
<1>7. QED
  BY <1>3, <1>5, <1>6, Zenon DEF has

(* The reader starts with a rule that sets nothing.                        *)
Nothing == <<>>
NoPins == [k \in PinKeys |-> <<>>]
NoScalars == [s \in Scalars |-> Unset]

(* What a rule says, for the provers.                                      *)
PinsOf(rule) == rule.pins
ScalarsOf(rule) == rule.scalars

(* Fields of keys that hold one value are the writer's as well.            *)
LEMMA KeyFieldsFine ==
  ASSUME NEW ks \in Seq(Keys), NEW V, \A i \in 1 .. Len(ks) : V[ks[i]] \in AnyText
  PROVE  KeyFields(ks, V) \in Seq(FineFields)
<1> DEFINE g == [i \in DOMAIN ks |-> Field(ks[i], V[ks[i]])]
<1>1. \A i \in DOMAIN ks : ks[i] \in Keys /\ V[ks[i]] \in AnyText
  OBVIOUS
<1>2. \A i \in DOMAIN ks : Field(ks[i], V[ks[i]]) \in FineFields
  BY <1>1, FieldFine
<1>3. g \in Seq(FineFields)
  BY <1>2
<1>4. QED
  BY <1>3 DEF KeyFields

(* The pins of a rule are written and read back.                           *)
LEMMA PinsBack ==
  ASSUME NEW rule, WellMade(rule), NEW scalars, NEW dlls, NEW override, NEW arguments,
         NEW channels, NEW env, NEW exe, NEW seen, seen \cap PinKeys = {}
  PROVE  /\ KeyFields(HeldPins(rule), PinTexts(rule)) \in Seq(FineFields)
         /\ Record!Fold(Part(NoPins, scalars, dlls, override, arguments, channels, env, exe, seen),
                        KeyFields(HeldPins(rule), PinTexts(rule)))
              = Part(PinsOf(rule), scalars, dlls, override, arguments, channels, env, exe,
                     seen \cup Held(HeldPins(rule)))
<1> DEFINE pins == NoPins
           ks == HeldPins(rule)
           V == PinTexts(rule)
           R == rule.pins
<1>1. ks \in Seq(PinKeys) /\ Distinct(ks) /\ \A k \in PinKeys : k \in Held(ks) <=> R[k] # <<>>
  BY HeldPinsAre
<1>2. R = [k \in PinKeys |-> R[k]] /\ \A k \in PinKeys : R[k] \in Optional(AnyText)
  BY DEF WellMade, Rule
<1>3. \A k \in PinKeys : R[k] # <<>> => PartTakes(k, R[k][1])
  BY Zenon DEF WellMade
<1>4. V = [k \in PinKeys |-> R[k][1]]
  BY DEF PinTexts
<1> HIDE DEF ks, V, R
<1>5. \A i \in 1 .. Len(ks) : ks[i] \in PinKeys /\ ks[i] \in Held(ks)
  BY <1>1 DEF Held
<1>6. \A i \in 1 .. Len(ks) : V[ks[i]] \in AnyText /\ PartTakes(ks[i], V[ks[i]])
  <2>1. SUFFICES ASSUME NEW i \in 1 .. Len(ks)
                 PROVE  V[ks[i]] \in AnyText /\ PartTakes(ks[i], V[ks[i]])
    OBVIOUS
  <2> DEFINE k == ks[i]
  <2>2. k \in PinKeys /\ R[k] # <<>>
    BY <1>1, <1>5
  <2> HIDE DEF k
  <2>3. V[k] = R[k][1]
    BY <1>4, <2>2
  <2>4. R[k][1] \in AnyText
    BY <1>2, <2>2, OptionalIs
  <2>5. PartTakes(k, R[k][1])
    BY <1>3, <2>2
  <2>6. QED
    BY <2>3, <2>4, <2>5 DEF k
<1>7. Held(ks) \cap seen = {}
  BY <1>5 DEF Held
<1>8. KeyFields(ks, V) \in Seq(FineFields)
  <2>1. ks \in Seq(Keys)
    <3>1. PinKeys \subseteq Keys
      BY DEF Keys
    <3>2. QED
      BY <1>1, <3>1
  <2>2. \A i \in 1 .. Len(ks) : V[ks[i]] \in AnyText
    BY <1>6
  <2>3. QED
    BY <2>1, <2>2, KeyFieldsFine
<1>9. PinsWith(pins, V, Held(ks)) = R
  <2> DEFINE f == PinsWith(pins, V, Held(ks))
  <2>1. f = [k \in PinKeys |-> f[k]]
    BY DEF PinsWith
  <2>2. ASSUME NEW k \in PinKeys
        PROVE  f[k] = R[k]
    <3>0. f[k] = IF k \in Held(ks) THEN <<V[k]>> ELSE pins[k]
      BY DEF PinsWith
    <3>1. CASE R[k] # <<>>
      <4>1. k \in Held(ks) /\ V[k] = R[k][1]
        BY <1>1, <1>4, <3>1
      <4>2. <<R[k][1]>> = R[k]
        BY <1>2, <3>1, OptionalIs
      <4>3. QED
        BY <3>0, <4>1, <4>2, Zenon
    <3>2. CASE R[k] = <<>>
      <4>1. k \notin Held(ks)
        BY <1>1, <3>2
      <4>2. pins[k] = <<>>
        BY DEF NoPins
      <4>3. QED
        BY <3>0, <3>2, <4>1, <4>2, Zenon
    <3>3. QED
      BY <3>1, <3>2
  <2> HIDE DEF f
  <2>3. QED
    BY <1>2, <2>1, <2>2 DEF f
<1> HIDE DEF pins
<1>10. pins = [k \in PinKeys |-> pins[k]]
  BY DEF NoPins, pins
<1> DEFINE base == Part(pins, scalars, dlls, override, arguments, channels, env, exe, seen)
<1>11. Record!Fold(base, KeyFields(ks, V))
         = Part(PinsWith(pins, V, Held(ks)), scalars, dlls, override, arguments, channels, env, exe,
                seen \cup Held(ks))
  BY ONLY <1>1, <1>6, <1>7, <1>10, ReadsPins
<1>12. QED
  BY <1>8, <1>9, <1>11, Zenon DEF ks, V, R, pins, PinsOf

(* And so are its scalars.                                                *)
LEMMA ScalarsBack ==
  ASSUME NEW rule, WellMade(rule), NEW pins, NEW dlls, NEW override, NEW arguments,
         NEW channels, NEW env, NEW exe, NEW seen, seen \cap Scalars = {}
  PROVE  /\ KeyFields(SaidScalars(rule), ScalarTexts(rule)) \in Seq(FineFields)
         /\ Record!Fold(Part(pins, NoScalars, dlls, override, arguments, channels, env, exe, seen),
                        KeyFields(SaidScalars(rule), ScalarTexts(rule)))
              = Part(pins, ScalarsOf(rule), dlls, override, arguments, channels, env, exe,
                     seen \cup Held(SaidScalars(rule)))
<1> DEFINE scalars == NoScalars
           ks == SaidScalars(rule)
           V == ScalarTexts(rule)
           R == rule.scalars
<1>1. ks \in Seq(Scalars) /\ Distinct(ks) /\ \A k \in Scalars : k \in Held(ks) <=> R[k] # Unset
  BY SaidScalarsAre
<1>2. R = [k \in Scalars |-> R[k]] /\ \A k \in Scalars : R[k] \in Word
  BY DEF WellMade, Rule
<1>3. \A k \in Scalars : R[k] # Unset => PartTakes(k, <<R[k]>>)
  BY Zenon DEF WellMade
<1>4. V = [k \in Scalars |-> <<R[k]>>]
  BY DEF ScalarTexts
<1> HIDE DEF ks, V, R
<1>5. \A i \in 1 .. Len(ks) : ks[i] \in Scalars /\ ks[i] \in Held(ks)
  BY <1>1 DEF Held
<1>6. \A i \in 1 .. Len(ks) : V[ks[i]] \in AnyText /\ PartTakes(ks[i], V[ks[i]])
  <2>1. SUFFICES ASSUME NEW i \in 1 .. Len(ks)
                 PROVE  V[ks[i]] \in AnyText /\ PartTakes(ks[i], V[ks[i]])
    OBVIOUS
  <2> DEFINE k == ks[i]
  <2>2. k \in Scalars /\ R[k] # Unset
    BY <1>1, <1>5
  <2> HIDE DEF k
  <2>3. V[k] = <<R[k]>>
    BY <1>4, <2>2
  <2>4. <<R[k]>> \in AnyText
    <3>1. R[k] \in Word
      BY <1>2, <2>2
    <3>2. QED
      BY <3>1 DEF AnyText
  <2>5. PartTakes(k, <<R[k]>>)
    BY <1>3, <2>2
  <2>6. QED
    BY <2>3, <2>4, <2>5 DEF k
<1>7. Held(ks) \cap seen = {}
  BY <1>5 DEF Held
<1>8. KeyFields(ks, V) \in Seq(FineFields)
  <2>1. ks \in Seq(Keys)
    <3>1. Scalars \subseteq Keys
      BY DEF Keys
    <3>2. QED
      BY <1>1, <3>1
  <2>2. \A i \in 1 .. Len(ks) : V[ks[i]] \in AnyText
    BY <1>6
  <2>3. QED
    BY <2>1, <2>2, KeyFieldsFine
<1>9. ScalarsWith(scalars, V, Held(ks)) = R
  <2> DEFINE f == ScalarsWith(scalars, V, Held(ks))
  <2>1. f = [k \in Scalars |-> f[k]]
    BY DEF ScalarsWith
  <2>2. ASSUME NEW k \in Scalars
        PROVE  f[k] = R[k]
    <3>0. f[k] = IF k \in Held(ks) THEN V[k][1] ELSE scalars[k]
      BY DEF ScalarsWith
    <3>1. CASE R[k] # Unset
      <4>1. k \in Held(ks) /\ V[k] = <<R[k]>>
        BY <1>1, <1>4, <3>1
      <4>2. <<R[k]>>[1] = R[k]
        OBVIOUS
      <4>3. QED
        BY <3>0, <4>1, <4>2, Zenon
    <3>2. CASE R[k] = Unset
      <4>1. k \notin Held(ks)
        BY <1>1, <3>2
      <4>2. scalars[k] = Unset
        BY DEF NoScalars
      <4>3. QED
        BY <3>0, <3>2, <4>1, <4>2, Zenon
    <3>3. QED
      BY <3>1, <3>2
  <2> HIDE DEF f
  <2>3. QED
    BY <1>2, <2>1, <2>2 DEF f
<1> HIDE DEF scalars
<1>10. scalars = [k \in Scalars |-> scalars[k]]
  BY DEF NoScalars, scalars
<1> DEFINE base == Part(pins, scalars, dlls, override, arguments, channels, env, exe, seen)
<1>11. Record!Fold(base, KeyFields(ks, V))
         = Part(pins, ScalarsWith(scalars, V, Held(ks)), dlls, override, arguments, channels, env, exe,
                seen \cup Held(ks))
  BY ONLY <1>1, <1>6, <1>7, <1>10, ReadsScalars
<1>12. QED
  BY <1>8, <1>9, <1>11, Zenon DEF ks, V, R, scalars, ScalarsOf

(* The fields of a rule's record, in the order they are written.           *)
RecordFields(rule) ==
  <<Field("exe", rule.exe)>> \o KeyFields(HeldPins(rule), PinTexts(rule))
    \o KeyFields(SaidScalars(rule), ScalarTexts(rule)) \o Fields("dll_overrides", rule.dlls)
    \o OverrideFields(rule) \o Fields("arguments", rule.arguments)
    \o Fields("debug_channels", rule.channels) \o EnvFields(rule.env)

(* A rule's record is its fields, with ; between them.                     *)
LEMMA RecordIs ==
  ASSUME NEW rule
  PROVE  RuleToRecord(rule) = Join(RecordFields(rule), ";")
<1> DEFINE held == HeldPins(rule)
           pins == [i \in DOMAIN held |-> Field(held[i], rule.pins[held[i]][1])]
           said == SaidScalars(rule)
           scalars == [i \in DOMAIN said |-> Field(said[i], <<rule.scalars[said[i]]>>)]
<1>1. RuleToRecord(rule) =
        Join(<<Field("exe", rule.exe)>> \o pins \o scalars \o Fields("dll_overrides", rule.dlls)
               \o OverrideFields(rule) \o Fields("arguments", rule.arguments)
               \o Fields("debug_channels", rule.channels) \o EnvFields(rule.env), ";")
  BY Zenon DEF RuleToRecord, EnvFields, HeldPins, SaidScalars
<1>2. pins = KeyFields(held, PinTexts(rule))
  <2>1. \A i \in DOMAIN held : held[i] \in PinKeys
    BY HeldPinsAre
  <2>2. \A i \in DOMAIN held : PinTexts(rule)[held[i]] = rule.pins[held[i]][1]
    BY <2>1 DEF PinTexts
  <2> HIDE DEF held
  <2>3. QED
    BY <2>2 DEF KeyFields
<1>3. scalars = KeyFields(said, ScalarTexts(rule))
  <2>1. \A i \in DOMAIN said : said[i] \in Scalars
    BY SaidScalarsAre
  <2>2. \A i \in DOMAIN said : ScalarTexts(rule)[said[i]] = <<rule.scalars[said[i]]>>
    BY <2>1 DEF ScalarTexts
  <2> HIDE DEF said
  <2>3. QED
    BY <2>2 DEF KeyFields
<1> HIDE DEF pins, scalars
<1>4. QED
  BY <1>1, <1>2, <1>3, Zenon DEF RecordFields, held, said

(* A rule that nothing was read of yet.                                    *)
LEMMA NothingIs ==
  NothingRead = Part(NoPins, NoScalars, Nothing, Nothing, Nothing, Nothing, Nothing, Nothing, {})
BY Zenon DEF NothingRead, Part, NoPins, NoScalars, Nothing, NewRule

(* What there is of a rule that is well made.                              *)
LEMMA RuleParts ==
  ASSUME NEW rule, WellMade(rule)
  PROVE  /\ rule.exe \in AnyText /\ rule.exe # <<>> /\ PartTakes("exe", rule.exe)
         /\ rule.dlls \in Seq(AnyText) /\ rule.arguments \in Seq(AnyText)
         /\ rule.channels \in Seq(AnyText) /\ rule.env \in Seq(Entries)
         /\ rule.override \in Optional(Seq(AnyText))
         /\ rule = [exe |-> rule.exe, pins |-> rule.pins, scalars |-> rule.scalars,
                    dlls |-> rule.dlls, override |-> rule.override, arguments |-> rule.arguments,
                    channels |-> rule.channels, env |-> rule.env]
         /\ \A i \in 1 .. Len(rule.dlls) : PartTakes("dll_overrides", rule.dlls[i])
         /\ \A i \in 1 .. Len(rule.arguments) : PartTakes("arguments", rule.arguments[i])
         /\ \A i \in 1 .. Len(rule.channels) : PartTakes("debug_channels", rule.channels[i])
         /\ \A i \in 1 .. Len(rule.env) : EntryTakes(rule.env[i])
         /\ rule.override # <<>> =>
              \A i \in DOMAIN rule.override[1] : PartTakes("arguments", rule.override[1][i])
<1>1. rule \in Rule
  BY Zenon DEF WellMade
<1>2. /\ rule.exe \in AnyText /\ rule.dlls \in Seq(AnyText) /\ rule.arguments \in Seq(AnyText)
      /\ rule.channels \in Seq(AnyText) /\ rule.env \in Seq(Entries)
      /\ rule.override \in Optional(Seq(AnyText))
      /\ rule = [exe |-> rule.exe, pins |-> rule.pins, scalars |-> rule.scalars,
                 dlls |-> rule.dlls, override |-> rule.override, arguments |-> rule.arguments,
                 channels |-> rule.channels, env |-> rule.env]
  <2>1. Rule = [exe : AnyText, pins : [PinKeys -> Optional(AnyText)], scalars : [Scalars -> Word],
                dlls : Seq(AnyText), override : Optional(Seq(AnyText)), arguments : Seq(AnyText),
                channels : Seq(AnyText), env : Seq(Entries)]
    BY DEF Rule, Entries
  <2>2. QED
    BY <1>1, <2>1
<1>3. /\ rule.exe # <<>> /\ PartTakes("exe", rule.exe)
      /\ \A i \in DOMAIN rule.dlls : PartTakes("dll_overrides", rule.dlls[i])
      /\ \A i \in DOMAIN rule.arguments : PartTakes("arguments", rule.arguments[i])
      /\ \A i \in DOMAIN rule.channels : PartTakes("debug_channels", rule.channels[i])
      /\ rule.override # <<>> =>
           \A i \in DOMAIN rule.override[1] : PartTakes("arguments", rule.override[1][i])
  BY Zenon DEF WellMade
<1>4. \A i \in DOMAIN rule.env : EntryTakes(rule.env[i])
  <2>1. \A e : EnvText(e) = <<e.name, "=">> \o e.value
    BY DEF EnvText, Equals
  <2>2. \A i \in DOMAIN rule.env :
          /\ NameTaken(<<rule.env[i].name>>)
          /\ PartTakes("env", <<rule.env[i].name, "=">> \o rule.env[i].value)
    BY Zenon DEF WellMade
  <2>3. QED
    BY <2>1, <2>2, Zenon DEF EntryTakes
<1>5. /\ DOMAIN rule.dlls = 1 .. Len(rule.dlls) /\ DOMAIN rule.env = 1 .. Len(rule.env)
      /\ DOMAIN rule.arguments = 1 .. Len(rule.arguments)
      /\ DOMAIN rule.channels = 1 .. Len(rule.channels)
  BY <1>2
<1>6. QED
  BY <1>2, <1>3, <1>4, <1>5, Zenon

(* An override's fields are the writer's too.                              *)
LEMMA OverrideFine ==
  ASSUME NEW rule, rule.override \in Optional(Seq(AnyText))
  PROVE  OverrideFields(rule) \in Seq(FineFields)
<1> DEFINE o == rule.override
           key == "arguments_override"
<1>0. key \in Keys
  BY DEF Keys
<1>1. << <<>> >> # <<>>
  OBVIOUS
<1>2. CASE o = <<>>
  <2>1. OverrideFields(rule) = <<>>
    BY <1>1, <1>2, Zenon DEF OverrideFields
  <2>2. QED
    BY <2>1, Joining!EmptyInSeq, Zenon
<1>3. CASE o = << <<>> >>
  <2> DEFINE y == Field(key, <<>>)
  <2>1. OverrideFields(rule) = <<y>>
    BY <1>1, <1>3, Zenon DEF OverrideFields
  <2>2. <<>> \in AnyText
    BY Joining!EmptyInSeq DEF AnyText
  <2>3. y \in FineFields
    BY <1>0, <2>2, FieldFine
  <2> HIDE DEF y
  <2>4. QED
    BY <2>1, <2>3
<1>4. CASE o # <<>> /\ o # << <<>> >>
  <2>1. OverrideFields(rule) = Fields(key, o[1])
    BY <1>4, Zenon DEF OverrideFields
  <2>2. o[1] \in Seq(AnyText)
    BY <1>4, OptionalIs
  <2>3. QED
    BY <1>0, <2>1, <2>2, FieldsFine
<1>5. QED
  BY <1>2, <1>3, <1>4

(* The fields of a rule are read back as what it says.                     *)
LEMMA FieldsBack ==
  ASSUME NEW rule, WellMade(rule)
  PROVE  /\ RecordFields(rule) \in Seq(FineFields)
         /\ \E seen : Record!Fold(NothingRead, RecordFields(rule)) =
              Part(rule.pins, rule.scalars, rule.dlls, rule.override, rule.arguments,
                   rule.channels, rule.env, <<rule.exe>>, seen)
<1> DEFINE exe == rule.exe
           p == PinsOf(rule)
           s == ScalarsOf(rule)
           d == rule.dlls
           o == rule.override
           t == rule.arguments
           c == rule.channels
           v == rule.env
           x == <<exe>>
           none == Nothing
           one == Field("exe", exe)
           seenA == {} \cup {"exe"}
           seenB == seenA \cup Held(HeldPins(rule))
           seenC == seenB \cup Held(SaidScalars(rule))
           fb == KeyFields(HeldPins(rule), PinTexts(rule))
           fc == KeyFields(SaidScalars(rule), ScalarTexts(rule))
           fd == Fields("dll_overrides", d)
           fe == OverrideFields(rule)
           ff == Fields("arguments", t)
           fg == Fields("debug_channels", c)
           fh == EnvFields(v)
<1>0. /\ exe \in AnyText /\ exe # <<>> /\ PartTakes("exe", exe)
      /\ d \in Seq(AnyText) /\ t \in Seq(AnyText) /\ c \in Seq(AnyText) /\ v \in Seq(Entries)
      /\ o \in Optional(Seq(AnyText))
      /\ \A i \in 1 .. Len(d) : PartTakes("dll_overrides", d[i])
      /\ \A i \in 1 .. Len(t) : PartTakes("arguments", t[i])
      /\ \A i \in 1 .. Len(c) : PartTakes("debug_channels", c[i])
      /\ \A i \in 1 .. Len(v) : EntryTakes(v[i])
      /\ o # <<>> => \A i \in DOMAIN o[1] : PartTakes("arguments", o[1][i])
  BY RuleParts, Zenon
<1>00. /\ {"exe", "dll_overrides", "arguments", "debug_channels"} \subseteq Keys
       /\ none \in Seq(AnyText) /\ none \in Seq(Entries)
       /\ \A S : \A q \in Seq(S) : none \o q = q
  BY Joining!EmptyInSeq, Joining!Concat DEF Keys, Nothing
<1>1. one \in FineFields
  BY <1>0, <1>00, FieldFine
<1>2. /\ <<one>> \in Seq(FineFields)
      /\ Record!Fold(NothingRead, <<one>>) =
           Part(NoPins, NoScalars, none, none, none, none, none, x, seenA)
  <2> DEFINE b == Part(NoPins, NoScalars, none, none, none, none, none, none, {})
             e == <<>>
             y == one
  <2>1. /\ Record!Fold(b, e) = b /\ e \in Seq(FineFields) /\ e \o <<y>> = <<y>>
        /\ <<y>> \in Seq(FineFields)
    BY <1>1, Joining!EmptyInSeq, Record!FoldOfNothing
  <2>2. ReadField(b, y) = Part(NoPins, NoScalars, none, none, none, none, none, x, seenA)
    <3> HIDE DEF none
    <3>1. exe \in Seq(Word) /\ "exe" \notin {}
      BY <1>0 DEF AnyText
    <3> HIDE DEF exe
    <3>2. QED
      BY <1>0, <3>1, ReadsExe
  <2>3. NothingRead = b
    BY NothingIs
  <2> HIDE DEF b, e, y
  <2>4. Record!Fold(b, e \o <<y>>) = ReadField(Record!Fold(b, e), y)
    BY <1>1, <2>1, Record!FoldOfOneMore DEF y
  <2>5. QED
    BY <2>1, <2>2, <2>3, <2>4 DEF y
<1>3. PinKeys \cap seenA = {} /\ Scalars \cap seenB = {}
  <2>1. \A k \in Held(HeldPins(rule)) : k \in PinKeys
    BY HeldPinsAre DEF Held
  <2>2. PinKeys \cap Scalars = {} /\ "exe" \notin PinKeys /\ "exe" \notin Scalars
    BY KeysAre
  <2>3. QED
    BY <2>1, <2>2
<1>4. /\ fb \in Seq(FineFields)
      /\ Record!Fold(Part(NoPins, NoScalars, none, none, none, none, none, x, seenA), fb)
           = Part(p, NoScalars, none, none, none, none, none, x, seenB)
  <2>1. seenA \cap PinKeys = {}
    BY <1>3
  <2> HIDE DEF none, x, seenA
  <2>2. QED
    BY ONLY <2>1, WellMade(rule), PinsBack
<1>5. /\ fc \in Seq(FineFields)
      /\ Record!Fold(Part(p, NoScalars, none, none, none, none, none, x, seenB), fc)
           = Part(p, s, none, none, none, none, none, x, seenC)
  <2>1. seenB \cap Scalars = {}
    BY <1>3
  <2> HIDE DEF none, x, seenB, p
  <2>2. QED
    BY ONLY <2>1, WellMade(rule), ScalarsBack
<1> HIDE DEF seenC
<1>6. /\ fd \in Seq(FineFields)
      /\ Record!Fold(Part(p, s, none, none, none, none, none, x, seenC), fd)
           = Part(p, s, d, none, none, none, none, x, seenC)
  <2>1. fd \in Seq(FineFields) /\ none \o d = d
    BY <1>0, <1>00, FieldsFine
  <2> HIDE DEF none, x, p, s, d
  <2>2. Record!Fold(Part(p, s, none, none, none, none, none, x, seenC), fd)
           = Part(p, s, none \o d, none, none, none, none, x, seenC)
    BY ONLY <1>0, <1>00, ReadsDlls
  <2>3. QED
    BY <2>1, <2>2
<1>7. /\ fe \in Seq(FineFields)
      /\ Record!Fold(Part(p, s, d, none, none, none, none, x, seenC), fe)
           = Part(p, s, d, o, none, none, none, x, seenC)
  <2>1. fe \in Seq(FineFields)
    BY <1>0, OverrideFine
  <2> DEFINE n == none
  <2>2. n = Nothing
    OBVIOUS
  <2> HIDE DEF none, x, p, s, d, n
  <2>3. Record!Fold(Part(p, s, d, <<>>, n, n, n, x, seenC), fe)
           = Part(p, s, d, o, n, n, n, x, seenC)
    BY ONLY <1>0, ReadsAnOverride
  <2>4. QED
    BY <2>1, <2>2, <2>3, Zenon DEF Nothing, none
<1>8. /\ ff \in Seq(FineFields)
      /\ Record!Fold(Part(p, s, d, o, none, none, none, x, seenC), ff)
           = Part(p, s, d, o, t, none, none, x, seenC)
  <2>1. ff \in Seq(FineFields) /\ none \o t = t
    BY <1>0, <1>00, FieldsFine
  <2> HIDE DEF none, x, p, s, d, o, t
  <2>2. Record!Fold(Part(p, s, d, o, none, none, none, x, seenC), ff)
           = Part(p, s, d, o, none \o t, none, none, x, seenC)
    BY ONLY <1>0, <1>00, ReadsArguments
  <2>3. QED
    BY <2>1, <2>2
<1>9. /\ fg \in Seq(FineFields)
      /\ Record!Fold(Part(p, s, d, o, t, none, none, x, seenC), fg)
           = Part(p, s, d, o, t, c, none, x, seenC)
  <2>1. fg \in Seq(FineFields) /\ none \o c = c
    BY <1>0, <1>00, FieldsFine
  <2> HIDE DEF none, x, p, s, d, o, t, c
  <2>2. Record!Fold(Part(p, s, d, o, t, none, none, x, seenC), fg)
           = Part(p, s, d, o, t, none \o c, none, x, seenC)
    BY ONLY <1>0, <1>00, ReadsChannels
  <2>3. QED
    BY <2>1, <2>2
<1>10. /\ fh \in Seq(FineFields)
       /\ Record!Fold(Part(p, s, d, o, t, c, none, x, seenC), fh)
            = Part(p, s, d, o, t, c, v, x, seenC)
  <2>1. fh \in Seq(FineFields)
    <3> DEFINE g == [i \in DOMAIN v |-> EnvField(v[i])]
    <3>1. \A i \in DOMAIN v : EnvField(v[i]) \in FineFields
      <4>1. \A i \in DOMAIN v : v[i] \in Entries /\ NameTaken(<<v[i].name>>)
        BY <1>0 DEF EntryTakes
      <4>2. QED
        BY <4>1, EnvFieldFine
    <3>2. g \in Seq(FineFields)
      BY <1>0, <3>1
    <3>3. QED
      BY <3>2 DEF EnvFields
  <2>2. none \o v = v
    BY <1>0, <1>00
  <2> HIDE DEF none, x, p, s, d, o, t, c, v
  <2>3. Record!Fold(Part(p, s, d, o, t, c, none, x, seenC), fh)
           = Part(p, s, d, o, t, c, none \o v, x, seenC)
    BY ONLY <1>0, <1>00, ReadsVariables
  <2>4. QED
    BY <2>1, <2>2, <2>3
<1> DEFINE all == <<one>> \o fb \o fc \o fd \o fe \o ff \o fg \o fh
<1>11. /\ all \in Seq(FineFields)
       /\ Record!Fold(NothingRead, all) = Part(p, s, d, o, t, c, v, x, seenC)
  <2> DEFINE fa == <<one>>
             accA == Part(NoPins, NoScalars, none, none, none, none, none, x, seenA)
             accB == Part(p, NoScalars, none, none, none, none, none, x, seenB)
             accC == Part(p, s, none, none, none, none, none, x, seenC)
             accD == Part(p, s, d, none, none, none, none, x, seenC)
             accE == Part(p, s, d, o, none, none, none, x, seenC)
             accF == Part(p, s, d, o, t, none, none, x, seenC)
             accG == Part(p, s, d, o, t, c, none, x, seenC)
             accH == Part(p, s, d, o, t, c, v, x, seenC)
  <2>1. fa \in Seq(FineFields) /\ Record!Fold(NothingRead, fa) = accA
    BY <1>2
  <2>2. fb \in Seq(FineFields) /\ Record!Fold(accA, fb) = accB
    BY <1>4
  <2>3. fc \in Seq(FineFields) /\ Record!Fold(accB, fc) = accC
    BY <1>5
  <2>4. fd \in Seq(FineFields) /\ Record!Fold(accC, fd) = accD
    BY <1>6
  <2>5. fe \in Seq(FineFields) /\ Record!Fold(accD, fe) = accE
    BY <1>7
  <2>6. ff \in Seq(FineFields) /\ Record!Fold(accE, ff) = accF
    BY <1>8
  <2>7. fg \in Seq(FineFields) /\ Record!Fold(accF, fg) = accG
    BY <1>9
  <2>8. fh \in Seq(FineFields) /\ Record!Fold(accG, fh) = accH
    BY <1>10
  <2> HIDE DEF fa, fb, fc, fd, fe, ff, fg, fh, accA, accB, accC, accD, accE, accF, accG, accH
  <2> DEFINE s2 == fa \o fb
             s3 == s2 \o fc
             s4 == s3 \o fd
             s5 == s4 \o fe
             s6 == s5 \o ff
             s7 == s6 \o fg
             s8 == s7 \o fh
  <2>10. s2 \in Seq(FineFields) /\ Record!Fold(NothingRead, s2) = accB
    BY ONLY <2>1, <2>2, Record!FoldOfMore DEF s2
  <2> HIDE DEF s2
  <2>11. s3 \in Seq(FineFields) /\ Record!Fold(NothingRead, s3) = accC
    BY ONLY <2>10, <2>3, Record!FoldOfMore DEF s3
  <2> HIDE DEF s3
  <2>12. s4 \in Seq(FineFields) /\ Record!Fold(NothingRead, s4) = accD
    BY ONLY <2>11, <2>4, Record!FoldOfMore DEF s4
  <2> HIDE DEF s4
  <2>13. s5 \in Seq(FineFields) /\ Record!Fold(NothingRead, s5) = accE
    BY ONLY <2>12, <2>5, Record!FoldOfMore DEF s5
  <2> HIDE DEF s5
  <2>14. s6 \in Seq(FineFields) /\ Record!Fold(NothingRead, s6) = accF
    BY ONLY <2>13, <2>6, Record!FoldOfMore DEF s6
  <2> HIDE DEF s6
  <2>15. s7 \in Seq(FineFields) /\ Record!Fold(NothingRead, s7) = accG
    BY ONLY <2>14, <2>7, Record!FoldOfMore DEF s7
  <2> HIDE DEF s7
  <2>16. s8 \in Seq(FineFields) /\ Record!Fold(NothingRead, s8) = accH
    BY ONLY <2>15, <2>8, Record!FoldOfMore DEF s8
  <2> HIDE DEF s8
  <2>17. all = s8
    BY DEF fa, s2, s3, s4, s5, s6, s7, s8
  <2> HIDE DEF all
  <2>18. QED
    BY <2>16, <2>17, Zenon DEF accH
<1>12. RecordFields(rule) = all
  BY Zenon DEF RecordFields
<1> HIDE DEF all
<1>13. QED
  BY <1>11, <1>12, Zenon DEF p, s, d, o, t, c, v, x, exe, PinsOf, ScalarsOf

MadeRules == {rule \in Rule : WellMade(rule)}

(* What the elements of a sequence are, they are of every larger set.      *)
LEMMA SeqSub ==
  ASSUME NEW S, NEW T, S \subseteq T, NEW s \in Seq(S)
  PROVE  s \in Seq(T)
OBVIOUS

(* The parts of a rule's record are the writer's fields.                   *)
LEMMA RecordParts ==
  ASSUME NEW rule, WellMade(rule)
  PROVE  /\ Field("exe", rule.exe) \in FineFields
         /\ KeyFields(HeldPins(rule), PinTexts(rule)) \in Seq(FineFields)
         /\ KeyFields(SaidScalars(rule), ScalarTexts(rule)) \in Seq(FineFields)
         /\ Fields("dll_overrides", rule.dlls) \in Seq(FineFields)
         /\ OverrideFields(rule) \in Seq(FineFields)
         /\ Fields("arguments", rule.arguments) \in Seq(FineFields)
         /\ Fields("debug_channels", rule.channels) \in Seq(FineFields)
         /\ EnvFields(rule.env) \in Seq(FineFields)
<1>0. /\ rule.exe \in AnyText /\ rule.dlls \in Seq(AnyText) /\ rule.arguments \in Seq(AnyText)
      /\ rule.channels \in Seq(AnyText) /\ rule.env \in Seq(Entries)
      /\ rule.override \in Optional(Seq(AnyText))
      /\ \A i \in 1 .. Len(rule.env) : EntryTakes(rule.env[i])
      /\ {"exe", "dll_overrides", "arguments", "debug_channels"} \subseteq Keys
  BY RuleParts, Zenon DEF Keys
<1> DEFINE b == {}
<1>2. KeyFields(HeldPins(rule), PinTexts(rule)) \in Seq(FineFields)
  <2>1. b \cap PinKeys = {}
    OBVIOUS
  <2>2. QED
    BY <2>1, PinsBack
<1>3. KeyFields(SaidScalars(rule), ScalarTexts(rule)) \in Seq(FineFields)
  <2>1. b \cap Scalars = {}
    OBVIOUS
  <2>2. QED
    BY <2>1, ScalarsBack
<1>4. EnvFields(rule.env) \in Seq(FineFields)
  <2> DEFINE v == rule.env
             g == [i \in DOMAIN v |-> EnvField(v[i])]
  <2>1. \A i \in DOMAIN v : v[i] \in Entries /\ NameTaken(<<v[i].name>>)
    BY <1>0 DEF EntryTakes
  <2>2. \A i \in DOMAIN v : EnvField(v[i]) \in FineFields
    BY <2>1, EnvFieldFine
  <2>3. g \in Seq(FineFields)
    BY <1>0, <2>2
  <2>4. QED
    BY <2>3 DEF EnvFields
<1>5. QED
  BY <1>0, <1>2, <1>3, <1>4, FieldFine, FieldsFine, OverrideFine

(* What begins a sequence begins every longer one.                         *)
LEMMA Starts ==
  ASSUME NEW S
  PROVE  \A s \in Seq(S), t \in Seq(S) :
           Len(s) > 0 => s \o t \in Seq(S) /\ Len(s \o t) > 0 /\ (s \o t)[1] = s[1]
OBVIOUS

(* A record has one of each mark less than its fields: it is one line, and *)
(* splits into the fields again.                                           *)
LEMMA RecordSplits ==
  ASSUME NEW rule, WellMade(rule)
  PROVE  /\ RuleToRecord(rule) \in AnyText /\ RuleToRecord(rule) # <<>>
         /\ Lacks(RuleToRecord(rule), "newline")
         /\ ~IsLegacyHeader(RuleToRecord(rule))
         /\ Split(RuleToRecord(rule), ";") = RecordFields(rule)
<1> DEFINE fs == RecordFields(rule)
           r == Join(fs, ";")
<1>1. RuleToRecord(rule) = r
  BY RecordIs
<1>2. fs \in Seq(FineFields)
  BY FieldsBack
<1>3. fs # <<>> /\ fs[1] = Field("exe", rule.exe)
  <2> DEFINE one == Field("exe", rule.exe)
             b == KeyFields(HeldPins(rule), PinTexts(rule))
             c == KeyFields(SaidScalars(rule), ScalarTexts(rule))
             d == Fields("dll_overrides", rule.dlls)
             e == OverrideFields(rule)
             f == Fields("arguments", rule.arguments)
             g == Fields("debug_channels", rule.channels)
             h == EnvFields(rule.env)
  <2>1. /\ one \in FineFields /\ b \in Seq(FineFields) /\ c \in Seq(FineFields)
        /\ d \in Seq(FineFields) /\ e \in Seq(FineFields) /\ f \in Seq(FineFields)
        /\ g \in Seq(FineFields) /\ h \in Seq(FineFields)
    BY RecordParts
  <2>2. fs = <<one>> \o b \o c \o d \o e \o f \o g \o h
    BY Zenon DEF RecordFields
  <2> HIDE DEF fs, one, b, c, d, e, f, g, h
  <2> DEFINE s1 == <<one>>
             s2 == s1 \o b
             s3 == s2 \o c
             s4 == s3 \o d
             s5 == s4 \o e
             s6 == s5 \o f
             s7 == s6 \o g
             s8 == s7 \o h
  <2>3. s1 \in Seq(FineFields) /\ Len(s1) > 0 /\ s1[1] = one
    BY <2>1
  <2> HIDE DEF s1
  <2>4. s2 \in Seq(FineFields) /\ Len(s2) > 0 /\ s2[1] = one
    BY <2>1, <2>3, Starts
  <2> HIDE DEF s2
  <2>5. s3 \in Seq(FineFields) /\ Len(s3) > 0 /\ s3[1] = one
    BY <2>1, <2>4, Starts
  <2> HIDE DEF s3
  <2>6. s4 \in Seq(FineFields) /\ Len(s4) > 0 /\ s4[1] = one
    BY <2>1, <2>5, Starts
  <2> HIDE DEF s4
  <2>7. s5 \in Seq(FineFields) /\ Len(s5) > 0 /\ s5[1] = one
    BY <2>1, <2>6, Starts
  <2> HIDE DEF s5
  <2>8. s6 \in Seq(FineFields) /\ Len(s6) > 0 /\ s6[1] = one
    BY <2>1, <2>7, Starts
  <2> HIDE DEF s6
  <2>9. s7 \in Seq(FineFields) /\ Len(s7) > 0 /\ s7[1] = one
    BY <2>1, <2>8, Starts
  <2> HIDE DEF s7
  <2>10. s8 \in Seq(FineFields) /\ Len(s8) > 0 /\ s8[1] = one
    BY <2>1, <2>9, Starts
  <2> HIDE DEF s8
  <2>11. s8 # <<>>
    BY <2>10
  <2>12. fs = s8
    BY <2>2, Zenon DEF s1, s2, s3, s4, s5, s6, s7, s8
  <2>13. QED
    BY <2>10, <2>11, <2>12, Zenon DEF one
<1> HIDE DEF fs
<1>4. fs \in Seq(Seq(Word)) /\ ";" \in Word
  <2>1. FineFields \subseteq Seq(Word)
    BY DEF FineFields, AnyText
  <2>2. ";" \in Word
    BY WireAssumption DEF Escaped
  <2>3. fs \in Seq(Seq(Word))
    BY <1>2, <2>1, SeqSub
  <2>4. QED
    BY <2>2, <2>3
<1>5. \A i \in 1 .. Len(fs) : Lacks(fs[i], ";") /\ Lacks(fs[i], "newline") /\ fs[i] # <<>>
  <2>1. \A i \in 1 .. Len(fs) : fs[i] \in FineFields
    BY <1>2
  <2>2. QED
    BY <2>1, Zenon DEF FineFields
<1>6. r \in Seq(Word) /\ Split(r, ";") = fs
  BY <1>3, <1>4, <1>5, SplitOfJoin
<1>7. Lacks(r, "newline")
  BY <1>4, <1>5, JoinLacks
<1>8. r # <<>> /\ r[1] = fs[1][1]
  <2>1. 1 \in 1 .. Len(fs)
    <3>1. fs \in Seq(Seq(Word)) /\ fs # <<>>
      BY <1>3, <1>4
    <3>2. QED
      BY ONLY <3>1
  <2>2. fs[1] # <<>>
    BY <1>5, <2>1
  <2>3. QED
    BY <1>3, <1>4, <2>2, JoinStarts
<1>9. fs[1][1] = "exe"
  <2>1. Field("exe", rule.exe) = <<"exe", "=">> \o Encode(rule.exe)
    BY DEF Field
  <2>2. Encode(rule.exe) \in Seq(Word)
    BY RuleParts, EncodeType DEF AnyText
  <2>3. "exe" \in Word /\ "=" \in Word
    BY WireAssumption
  <2> DEFINE e == Encode(rule.exe)
  <2> HIDE DEF e
  <2>4. (<<"exe", "=">> \o e)[1] = "exe"
    BY <2>2, <2>3 DEF e
  <2>5. QED
    BY <1>3, <2>1, <2>4 DEF e
<1>10. ~IsLegacyHeader(r)
  BY <1>8, <1>9 DEF IsLegacyHeader
<1>11. QED
  BY <1>1, <1>6, <1>7, <1>8, <1>10 DEF fs, AnyText

(* What a rule's record is read as.                                        *)
LEMMA RecordBack ==
  ASSUME NEW rule, WellMade(rule)
  PROVE  ReadRecord(RuleToRecord(rule)) = [rule |-> <<rule>>, bad |-> 0]
<1> DEFINE fs == RecordFields(rule)
           line == RuleToRecord(rule)
<1>1. PICK seen : Record!Fold(NothingRead, fs) =
              Part(rule.pins, rule.scalars, rule.dlls, rule.override, rule.arguments,
                   rule.channels, rule.env, <<rule.exe>>, seen)
  BY FieldsBack, Zenon
<1>2. Split(line, ";") = fs
  BY RecordSplits
<1> DEFINE acc == Part(rule.pins, rule.scalars, rule.dlls, rule.override, rule.arguments,
                       rule.channels, rule.env, <<rule.exe>>, seen)
<1>3. ReadRecord(line) =
        [rule |-> IF acc.exe = <<>> THEN <<>> ELSE <<[acc.rule EXCEPT !.exe = acc.exe[1]]>>,
         bad |-> acc.bad]
  BY <1>1, <1>2, Zenon DEF ReadRecord
<1>4. acc.exe = <<rule.exe>> /\ acc.bad = 0
  BY DEF Part
<1>5. <<rule.exe>> # <<>> /\ <<rule.exe>>[1] = rule.exe
  OBVIOUS
<1>6. [acc.rule EXCEPT !.exe = rule.exe] = rule
  <2>1. acc.rule = [exe |-> AnyExe, pins |-> rule.pins, scalars |-> rule.scalars,
                    dlls |-> rule.dlls, override |-> rule.override, arguments |-> rule.arguments,
                    channels |-> rule.channels, env |-> rule.env]
    BY DEF Part
  <2>2. [acc.rule EXCEPT !.exe = rule.exe] =
          [exe |-> rule.exe, pins |-> rule.pins, scalars |-> rule.scalars,
           dlls |-> rule.dlls, override |-> rule.override, arguments |-> rule.arguments,
           channels |-> rule.channels, env |-> rule.env]
    BY <2>1
  <2>3. QED
    BY <2>2, RuleParts, Zenon
<1> HIDE DEF acc
<1>7. QED
  BY <1>3, <1>4, <1>5, <1>6, Zenon

(* The table that holds these rules, each on the line of its number.       *)
RuleLine(rules, i) == [source |-> [text |-> "variable", line |-> i], rule |-> rules[i]]
InVariable(rules) == [i \in 1 .. Len(rules) |-> RuleLine(rules, i)]

(* Push puts a rule on the line after the last.                            *)
LEMMA PushedRule ==
  ASSUME NEW rules \in Seq(MadeRules), NEW rule \in MadeRules
  PROVE  PushRule(InVariable(rules), rule) = InVariable(rules \o <<rule>>)
<1> DEFINE n == Len(rules)
           table == InVariable(rules)
           lines == {table[i].source.line :
                       i \in {j \in DOMAIN table : table[j].source.text = "variable"}}
           last == CHOOSE k \in lines \cup {0} : \A m \in lines : m <= k
           us == rules \o <<rule>>
<1>1. /\ n \in Nat /\ Len(us) = n + 1 /\ us[n + 1] = rule /\ \A i \in 1 .. n : us[i] = rules[i]
  OBVIOUS
<1>2. table = [i \in 1 .. n |-> RuleLine(rules, i)]
  BY DEF InVariable
<1> HIDE DEF n, table, us
<1>3. \A i \in 1 .. n : table[i] = RuleLine(rules, i)
  BY <1>2
<1>4. \A i : RuleLine(rules, i).source.text = "variable" /\ RuleLine(rules, i).source.line = i
  BY DEF RuleLine
<1>5. lines = 1 .. n
  <2>1. DOMAIN table = 1 .. n
    BY <1>2
  <2>2. ASSUME NEW k
        PROVE  k \in lines <=> k \in 1 .. n
    BY <1>3, <1>4, <2>1
  <2> HIDE DEF lines
  <2>3. QED
    BY <2>2
<1>6. last = n
  <2> HIDE DEF lines
  <2>1. n \in lines \cup {0} /\ \A m \in lines : m <= n
    BY <1>1, <1>5
  <2>2. \A k \in lines \cup {0} : (\A m \in lines : m <= k) => k = n
    <3>1. CASE n = 0
      BY <1>1, <1>5, <3>1
    <3>2. CASE n # 0
      BY <1>1, <1>5, <3>2
    <3>3. QED
      BY <3>1, <3>2
  <2>3. QED
    BY <2>1, <2>2
<1>7. PushRule(table, rule) = Append(table, [source |-> [text |-> "variable", line |-> last + 1],
                                            rule |-> rule])
  BY Zenon DEF PushRule
<1> HIDE DEF last
<1> DEFINE T == {RuleLine(us, i) : i \in 1 .. n + 1}
<1>8. RuleLine(us, n + 1) = [source |-> [text |-> "variable", line |-> last + 1], rule |-> rule]
  BY <1>1, <1>6 DEF RuleLine
<1>9. \A i \in 1 .. n : RuleLine(us, i) = RuleLine(rules, i)
  BY <1>1 DEF RuleLine
<1>10. InVariable(us) = [i \in 1 .. n + 1 |-> RuleLine(us, i)]
  BY <1>1 DEF InVariable
<1> DEFINE g == [i \in 1 .. n + 1 |-> RuleLine(us, i)]
           y == RuleLine(us, n + 1)
<1>11. \A i \in 1 .. n + 1 : RuleLine(us, i) \in T
  OBVIOUS
<1> HIDE DEF T
<1>12. table \in Seq(T) /\ Len(table) = n
  <2>1. \A i \in 1 .. n : RuleLine(rules, i) \in T
    BY <1>1, <1>9, <1>11
  <2>2. QED
    BY <1>1, <1>2, <2>1
<1>13. g \in Seq(T) /\ Len(g) = n + 1 /\ g[n + 1] = y /\ \A i \in 1 .. n : g[i] = table[i]
  BY <1>1, <1>3, <1>9, <1>11
<1>14. y \in T
  BY <1>1, <1>11
<1> HIDE DEF g, y
<1>15. g = table \o <<y>>
  BY <1>12, <1>13, <1>14, Extended
<1>16. Append(table, y) = table \o <<y>>
  BY <1>12, <1>14
<1>17. QED
  BY <1>7, <1>8, <1>10, <1>15, <1>16 DEF y, g, table, us

(* Records that are each read as a rule make no complaint.                 *)
Read(rule) == [rule |-> <<rule>>, bad |-> 0]
Reads(rules) == [i \in 1 .. Len(rules) |-> Read(rules[i])]

(* Records without a diagnostic add none to the text's.                    *)
LEMMA NoProblems ==
  ASSUME NEW S
  PROVE  \A rs \in Seq({Read(rule) : rule \in S}) : Problems!Fold(0, rs) = 0
<1> DEFINE T == {Read(rule) : rule \in S}
           P == {rs \in Seq(T) : Problems!Fold(0, rs) = 0}
<1>1. <<>> \in P
  BY Joining!EmptyInSeq, Problems!FoldOfNothing
<1>2. ASSUME NEW rs \in Seq(T), NEW x \in T, rs \in P
      PROVE  rs \o <<x>> \in P
  <2>1. rs \o <<x>> \in Seq(T)
    OBVIOUS
  <2>2. Problems!Fold(0, rs \o <<x>>) = AddProblems(Problems!Fold(0, rs), x)
    <3> HIDE DEF T
    <3>1. QED
      BY Problems!FoldOfOneMore
  <2>3. AddProblems(0, x) = 0
    <3>1. PICK rule \in S : x = Read(rule)
      OBVIOUS
    <3>2. x.bad = 0 /\ x.rule = <<rule>>
      BY <3>1 DEF Read
    <3>3. x.rule # <<>>
      BY <3>2
    <3>4. QED
      BY <3>2, <3>3 DEF AddProblems
  <2>4. QED
    BY <1>2, <2>1, <2>2, <2>3
<1> HIDE DEF P
<1>3. \A rs \in Seq(T) : rs \in P
  <2> HIDE DEF T
  <2>1. QED
    BY <1>1, <1>2, Joining!SeqInduction
<1>4. QED
  BY <1>3 DEF P

(* A filter that all elements pass takes them all.                         *)
LEMMA AllSelected ==
  ASSUME NEW S, NEW s \in Seq(S), NEW I, \A i \in 1 .. Len(s) : i \in I
  PROVE  Selected(s, I) = s
<1>1. Selected(s, 1 .. Len(s)) = s
  BY SelectedAll
<1>2. Selected(s, I) = Selected(s, 1 .. Len(s))
  <2> DEFINE J == 1 .. Len(s)
  <2>1. \A i \in 1 .. Len(s) : i \in I <=> i \in J
    OBVIOUS
  <2> HIDE DEF J
  <2>2. Selected(s, I) = Selected(s, J)
    BY <2>1, SelectedSame
  <2>3. QED
    BY <2>2 DEF J
<1>3. QED
  BY <1>1, <1>2

(* All the rules of the launcher's own table are sent.                     *)
RuleLines(rules) == {RuleLine(rules, i) : i \in 1 .. Len(rules)}

(* The launcher's table holds the rules on the lines of their numbers, and *)
(* all of them are sent.                                                   *)
LEMMA TableIs ==
  ASSUME NEW rules \in Seq(MadeRules)
  PROVE  /\ InVariable(rules) \in Seq(RuleLines(rules)) /\ Len(InVariable(rules)) = Len(rules)
         /\ \A i \in 1 .. Len(rules) : InVariable(rules)[i] = RuleLine(rules, i)
         /\ Sent(InVariable(rules)) = InVariable(rules)
<1> DEFINE n == Len(rules)
           table == InVariable(rules)
           I == {i \in DOMAIN table : table[i].source.text # "built-in"}
<1>1. n \in Nat /\ table = [i \in 1 .. n |-> RuleLine(rules, i)]
  BY DEF InVariable
<1>2. \A i \in 1 .. n : RuleLine(rules, i) \in RuleLines(rules)
  BY DEF RuleLines
<1>3. \A i : RuleLine(rules, i).source.text # "built-in"
  BY DEF RuleLine
<1>4. Sent(table) = Selected(table, I)
  BY DEF Sent
<1> HIDE DEF table, n
<1>5. table \in Seq(RuleLines(rules)) /\ Len(table) = n /\ \A i \in 1 .. n : table[i] = RuleLine(rules, i)
  BY <1>1, <1>2
<1>6. \A i \in 1 .. Len(table) : i \in I
  BY <1>1, <1>3, <1>5
<1> HIDE DEF I
<1>7. Selected(table, I) = table
  BY <1>5, <1>6, AllSelected
<1>8. QED
  BY <1>4, <1>5, <1>7 DEF table, n

Records(rules) == [i \in 1 .. Len(rules) |-> RuleToRecord(rules[i])]

(* The variable's text is a line for each rule.                            *)
LEMMA DisplayIs ==
  ASSUME NEW rules \in Seq(MadeRules)
  PROVE  /\ Records(rules) \in Seq(Seq(Word)) /\ Len(Records(rules)) = Len(rules)
         /\ \A i \in 1 .. Len(rules) :
              /\ Records(rules)[i] = RuleToRecord(rules[i])
              /\ Records(rules)[i] # <<>> /\ Lacks(Records(rules)[i], "newline")
              /\ ~IsLegacyHeader(Records(rules)[i])
              /\ ReadRecord(Records(rules)[i]) = Read(rules[i])
         /\ Display(InVariable(rules)) = Join(Records(rules), "newline")
<1> DEFINE n == Len(rules)
           table == InVariable(rules)
           rs == Records(rules)
<1>1. n \in Nat /\ rs = [i \in 1 .. n |-> RuleToRecord(rules[i])]
  BY DEF Records
<1>2. \A i \in 1 .. n : WellMade(rules[i])
  BY DEF MadeRules
<1>3. \A i \in 1 .. n : /\ RuleToRecord(rules[i]) \in Seq(Word) /\ RuleToRecord(rules[i]) # <<>>
                       /\ Lacks(RuleToRecord(rules[i]), "newline")
                       /\ ~IsLegacyHeader(RuleToRecord(rules[i]))
  BY <1>2, RecordSplits, Zenon DEF AnyText
<1>4. \A i \in 1 .. n : ReadRecord(RuleToRecord(rules[i])) = Read(rules[i])
  BY <1>2, RecordBack, Zenon DEF Read
<1>5. /\ table \in Seq(RuleLines(rules)) /\ Len(table) = n
      /\ \A i \in 1 .. n : table[i] = RuleLine(rules, i)
      /\ Sent(table) = table
  BY TableIs
<1>6. Display(table) = Join([i \in DOMAIN table |-> RuleToRecord(table[i].rule)], "newline")
  BY <1>5, Zenon DEF Display
<1> HIDE DEF table, n, rs
<1>7. [i \in DOMAIN table |-> RuleToRecord(table[i].rule)] = rs
  <2>1. DOMAIN table = 1 .. n
    BY <1>5
  <2>2. \A i \in 1 .. n : table[i].rule = rules[i]
    BY <1>5 DEF RuleLine
  <2>3. QED
    BY <1>1, <2>1, <2>2
<1>8. /\ rs \in Seq(Seq(Word)) /\ Len(rs) = n
      /\ \A i \in 1 .. n : rs[i] = RuleToRecord(rules[i])
  BY <1>1, <1>3
<1>9. QED
  BY <1>3, <1>4, <1>6, <1>7, <1>8, Zenon DEF table, n, rs

(* Such lines are all used, and collect to the table.                      *)
LEMMA CollectIs ==
  ASSUME NEW rules \in Seq(MadeRules)
  PROVE  Collect("variable", Numbers(Len(rules)), Reads(rules)) =
           [table |-> InVariable(rules), bad |-> 0]
<1> DEFINE n == Len(rules)
           used == Numbers(n)
           read == Reads(rules)
           I == {k \in DOMAIN used : read[k].rule # <<>>}
           kept == Selected([k \in DOMAIN used |-> k], I)
           row(k) == [source |-> [text |-> "variable", line |-> used[kept[k]]],
                      rule |-> read[kept[k]].rule[1]]
<1>1. n \in Nat /\ used = [i \in 1 .. n |-> i] /\ read = [i \in 1 .. n |-> Read(rules[i])]
  BY DEF Numbers, Reads
<1>2. Collect("variable", used, read) =
        [table |-> [k \in DOMAIN kept |-> row(k)], bad |-> Problems!Fold(0, read)]
  BY Zenon DEF Collect
<1>3. \A r : Read(r).rule = <<r>> /\ <<r>> # <<>> /\ <<r>>[1] = r
  BY DEF Read
<1>4. used \in Seq(Nat) /\ Len(used) = n
  BY <1>1, NumbersMore
<1> HIDE DEF n, used, read
<1>5. [k \in DOMAIN used |-> k] = used /\ DOMAIN used = 1 .. n
  BY <1>1
<1>6. \A i \in 1 .. Len(used) : i \in I
  BY <1>1, <1>3, <1>4, <1>5
<1> HIDE DEF I
<1>7. kept = used
  BY <1>4, <1>5, <1>6, AllSelected
<1> HIDE DEF kept
<1>8. [k \in DOMAIN kept |-> row(k)] = InVariable(rules)
  <2>1. DOMAIN kept = 1 .. n
    BY <1>5, <1>7
  <2>2. \A k \in 1 .. n : kept[k] = k /\ used[kept[k]] = k /\ read[kept[k]].rule[1] = rules[k]
    BY <1>1, <1>3, <1>7
  <2>3. \A k \in 1 .. n : row(k) = RuleLine(rules, k)
    BY <2>2 DEF RuleLine
  <2>4. InVariable(rules) = [k \in 1 .. n |-> RuleLine(rules, k)]
    BY DEF InVariable, n
  <2> HIDE DEF row
  <2>5. QED
    BY <2>1, <2>3, <2>4
<1>9. Problems!Fold(0, read) = 0
  <2>1. read \in Seq({Read(r) : r \in MadeRules})
    <3> DEFINE R == {Read(r) : r \in MadeRules}
    <3>1. \A i \in 1 .. n : rules[i] \in MadeRules
      BY DEF n
    <3>2. \A i \in 1 .. n : Read(rules[i]) \in R
      BY <3>1
    <3> HIDE DEF R
    <3>3. /\ n \in Nat /\ read = [i \in 1 .. n |-> Read(rules[i])]
          /\ \A i \in 1 .. n : Read(rules[i]) \in R
      BY ONLY <1>1, <3>2
    <3>4. read \in [1 .. n -> R]
      BY ONLY <3>3, Zenon
    <3>5. read \in Seq(R)
      BY ONLY <3>3, <3>4
    <3>6. QED
      BY ONLY <3>5 DEF R
  <2>2. QED
    BY <2>1, NoProblems
<1>10. QED
  BY <1>2, <1>8, <1>9, Zenon DEF used, read, n

(* The variable is read back as the table it was written from.             *)
LEMMA TableBack ==
  ASSUME NEW rules \in Seq(MadeRules)
  PROVE  ParseText("variable", Display(InVariable(rules))) =
           [table |-> InVariable(rules), bad |-> 0]
<1> DEFINE n == Len(rules)
           rs == Records(rules)
           text == Display(InVariable(rules))
           lines == Split(text, "newline")
           I == {i \in DOMAIN lines : lines[i] # <<>> /\ ~(i = 1 /\ IsLegacyHeader(lines[i]))}
           used == Selected([i \in DOMAIN lines |-> i], I)
           read == [k \in DOMAIN used |-> ReadRecord(lines[used[k]])]
<1>0. /\ rs \in Seq(Seq(Word)) /\ Len(rs) = n /\ n \in Nat
      /\ \A i \in 1 .. n :
           /\ rs[i] # <<>> /\ Lacks(rs[i], "newline")
           /\ ~IsLegacyHeader(rs[i])
           /\ ReadRecord(rs[i]) = Read(rules[i])
      /\ text = Join(rs, "newline")
  <2>1. n \in Nat
    OBVIOUS
  <2>2. QED
    BY <2>1, DisplayIs, Zenon
<1>1. ParseText("variable", text) = Collect("variable", used, read)
  BY Zenon DEF ParseText
<1>2. used = Numbers(n) /\ read = Reads(rules)
  <2>1. CASE n = 0
    <3>1. rs = <<>> /\ rules = <<>>
      BY <1>0, <2>1
    <3>2. text = <<>>
      <4>1. Join(<<>>, "newline") = Flat(<<>>)
        BY DEF Join
      <4>2. QED
        BY <1>0, <3>1, <4>1, FlatOfNothing, Zenon
    <3>3. lines = << <<>> >>
      BY <3>2, SplitOfNothing, Zenon
    <3> HIDE DEF text, rs
    <3>4. DOMAIN lines = {1} /\ lines[1] = <<>>
      BY <3>3
    <3> HIDE DEF lines
    <3>5. I = {}
      BY <3>4
    <3>6. [i \in DOMAIN lines |-> i] \in Seq(Nat)
      <4>1. DOMAIN lines = 1 .. 1
        BY <3>4
      <4>2. [i \in DOMAIN lines |-> i] = Numbers(1)
        BY <4>1, Zenon DEF Numbers
      <4>3. QED
        BY <4>2, NumbersMore
    <3> HIDE DEF I
    <3>7. used = <<>>
      BY <3>5, <3>6, SelectedNone
    <3>8. read = <<>>
      BY <3>7
    <3>9. Numbers(n) = <<>> /\ Reads(rules) = <<>>
      BY <2>1, <3>1 DEF Numbers, Reads
    <3>10. QED
      BY <3>7, <3>8, <3>9, Zenon
  <2>2. CASE n # 0
    <3>1. lines = rs
      <4>1. rs # <<>>
        BY <1>0, <2>2
      <4>2. "newline" \in Word
        BY WireAssumption DEF Escaped
      <4> HIDE DEF rs, text
      <4>3. Split(Join(rs, "newline"), "newline") = rs
        BY <1>0, <4>1, <4>2, SplitOfJoin
      <4>4. QED
        BY <1>0, <4>3, Zenon
    <3>2. [i \in DOMAIN rs |-> i] = Numbers(n) /\ DOMAIN rs = 1 .. n
      BY <1>0 DEF Numbers
    <3>3. Numbers(n) \in Seq(Nat) /\ Len(Numbers(n)) = n
      BY <1>0, NumbersMore
    <3>4. \A i \in 1 .. n : i \in I
      <4> HIDE DEF rs, text, lines, n
      <4>1. QED
        BY <1>0, <3>1, <3>2
    <3> HIDE DEF I, lines, rs, text
    <3>5. used = Numbers(n)
      <4> DEFINE N == Numbers(n)
      <4> HIDE DEF N, n
      <4>1. Selected(N, I) = N
        BY <3>3, <3>4, AllSelected DEF N
      <4>2. QED
        BY <3>1, <3>2, <4>1 DEF N
    <3> HIDE DEF used
    <3>6. DOMAIN used = 1 .. n /\ \A k \in 1 .. n : used[k] = k
      BY <1>0, <3>5 DEF Numbers
    <3>7. read = Reads(rules)
      <4>1. Reads(rules) = [i \in 1 .. n |-> Read(rules[i])]
        BY DEF Reads
      <4>2. \A k \in 1 .. n : ReadRecord(lines[used[k]]) = Read(rules[k])
        BY <1>0, <3>1, <3>6
      <4> HIDE DEF n
      <4>3. QED
        BY <3>6, <4>1, <4>2
    <3>8. QED
      BY <3>5, <3>7 DEF used
  <2>3. QED
    BY <2>1, <2>2
<1> HIDE DEF used, read, text
<1>3. QED
  BY <1>1, <1>2, CollectIs DEF text

(* A set of positions has a first one. *)
LEMMA SmallestIn ==
  ASSUME NEW I, I \subseteq Nat, I # {}
  PROVE  Min(I) \in I /\ \A j \in I : Min(I) <= j
<1> DEFINE S == {n \in Nat : (\E i \in I : i <= n) => \E i \in I : \A j \in I : i <= j}
<1>1. 0 \in S
  OBVIOUS
<1>2. ASSUME NEW n \in Nat, n \in S
      PROVE  n + 1 \in S
  <2>1. CASE \E i \in I : i <= n
    BY <1>2, <2>1
  <2>2. CASE ~ \E i \in I : i <= n
    <3>1. \A i \in I : i >= n + 1
      BY <2>2
    <3>2. ASSUME NEW i \in I, i <= n + 1
          PROVE  \A j \in I : i <= j
      BY <3>1, <3>2
    <3>3. QED
      BY <3>2
  <2>3. QED
    BY <2>1, <2>2
<1>3. \A n \in Nat : n \in S
  <2> HIDE DEF S
  <2>1. QED
    BY <1>1, <1>2, Joining!Induction
<1>4. \E i \in I : \A j \in I : i <= j
  <2>1. PICK n : n \in I
    OBVIOUS
  <2>2. n \in Nat /\ n \in S
    BY <1>3, <2>1
  <2>3. QED
    BY <2>1, <2>2
<1>5. Min(I) = CHOOSE i \in I : \A j \in I : i <= j
  BY DEF Min
<1>6. QED
  BY <1>4, <1>5

(* What is before the first = and what is behind it are texts. *)
LEMMA SidesType ==
  ASSUME NEW text \in AnyText
  PROVE  Before(text) \in AnyText /\ After(text) \in AnyText
<1> DEFINE I == {i \in 1 .. Len(text) : text[i] = Equals}
           m == Min(I)
<1>1. /\ Before(text) = LET i == IF I = {} THEN 0 ELSE Min(I)
                        IN IF i = 0 THEN text ELSE SubSeq(text, 1, i - 1)
      /\ After(text) = LET i == IF I = {} THEN 0 ELSE Min(I)
                       IN IF i = 0 THEN <<>> ELSE SubSeq(text, i + 1, Len(text))
  BY DEF Before, After, SelectInSeq, Equals
<1>2. text \in Seq(Word) /\ Len(text) \in Nat
  BY DEF AnyText
<1>3. CASE I = {}
  <2> HIDE DEF I
  <2>1. Before(text) = text /\ After(text) = <<>>
    BY <1>1, <1>3
  <2>2. <<>> \in AnyText
    BY Joining!EmptyInSeq DEF AnyText
  <2>3. QED
    BY <2>1, <2>2, Zenon
<1>4. CASE I # {}
  <2>1. I \subseteq Nat /\ I \subseteq 1 .. Len(text)
    OBVIOUS
  <2>2. m \in I
    <3> HIDE DEF I
    <3>1. QED
      BY <1>4, <2>1, SmallestIn
  <2>3. m \in 1 .. Len(text)
    BY <2>1, <2>2
  <2>4. Before(text) = SubSeq(text, 1, m - 1) /\ After(text) = SubSeq(text, m + 1, Len(text))
    <3>1. m # 0
      BY <2>3
    <3> HIDE DEF I
    <3>2. /\ Before(text) = IF m = 0 THEN text ELSE SubSeq(text, 1, m - 1)
          /\ After(text) = IF m = 0 THEN <<>> ELSE SubSeq(text, m + 1, Len(text))
      BY ONLY <1>1, <1>4
    <3>3. QED
      BY ONLY <3>1, <3>2
  <2> HIDE DEF m, I
  <2>5. SubSeq(text, 1, m - 1) \in Seq(Word)
    <3>1. 1 \in 1 .. Len(text) + 1 /\ m - 1 \in 1 - 1 .. Len(text)
      BY <1>2, <2>3
    <3>2. QED
      BY <1>2, <3>1, PartIs
  <2>6. SubSeq(text, m + 1, Len(text)) \in Seq(Word)
    <3> DEFINE a == m + 1
               b == Len(text)
    <3>1. a \in 1 .. Len(text) + 1 /\ b \in a - 1 .. Len(text)
      BY <1>2, <2>3
    <3> HIDE DEF a, b
    <3>2. SubSeq(text, a, b) \in Seq(Word)
      BY <1>2, <3>1, PartIs
    <3>3. QED
      BY <3>2 DEF a, b
  <2>7. QED
    BY <2>4, <2>5, <2>6 DEF AnyText
<1>5. QED
  BY <1>3, <1>4

(* What decode makes of a text is a text, whatever its percent signs stand *)
(* for.                                                                    *)
LEMMA DecodeType ==
  ASSUME NEW text \in AnyText
  PROVE  Decode(text).text \in AnyText
<1>1. text \in Seq(Word)
  BY DEF AnyText
<1>2. Decode(text).text = Flat(Pieces(text))
  BY <1>1, DecodeIs
<1>3. Pieces(text) \in Seq(Seq(Word))
  BY <1>1, PieceType
<1>4. Flat(Pieces(text)) \in Seq(Word)
  BY <1>3, FlatType
<1>5. QED
  BY <1>2, <1>4 DEF AnyText

Option1(S) == {<<>>} \cup {<<x>> : x \in S}
NamedEntries == [name : Word, value : AnyText]

(* An option is the empty sequence or one member.                          *)
LEMMA OptionIs ==
  ASSUME NEW S
  PROVE  \A o : o \in Optional(S) <=> o \in Option1(S)
<1>1. ASSUME NEW o \in Optional(S)
      PROVE  o \in Option1(S)
  <2>1. o \in Seq(S) /\ Len(o) <= 1
    BY DEF Optional
  <2>2. o = <<>> \/ (o = <<o[1]>> /\ o[1] \in S)
    BY <2>1
  <2>3. QED
    BY <2>2, Zenon DEF Option1
<1>2. ASSUME NEW x \in S
      PROVE  <<x>> \in Optional(S)
  BY DEF Optional
<1>3. <<>> \in Optional(S)
  <2>1. <<>> \in Seq(S) /\ Len(<<>>) = 0
    OBVIOUS
  <2>2. Len(<<>>) <= 1
    BY <2>1
  <2>3. QED
    BY <2>1, <2>2, Zenon DEF Optional
<1>4. QED
  BY <1>1, <1>2, <1>3, Zenon DEF Option1

(* The parts of a rule as it is read: any words, and no exe yet.           *)
ReadRules == [exe : {AnyExe}, pins : [PinKeys -> Optional(AnyText)], scalars : [Scalars -> Word],
              dlls : Seq(AnyText), override : Optional(Seq(AnyText)), arguments : Seq(AnyText),
              channels : Seq(AnyText), env : Seq(NamedEntries)]

(* A sequence with a member more is one of the same members.               *)
LEMMA MoreType ==
  ASSUME NEW S
  PROVE  \A s \in Seq(S), x \in S : Append(s, x) \in Seq(S)
OBVIOUS

(* What a key takes, as words. *)
LEMMA PartType ==
  ASSUME NEW key \in Keys, NEW value \in AnyText, Takes(key, value)
  PROVE  /\ Decode(value).text \in AnyText
         /\ key \in Scalars => Decode(value).text[1] \in Word
         /\ key = "env" => Decode(Before(value)).text[1] \in Word
         /\ Decode(After(value)).text \in AnyText
<1>1. Decode(value).text \in AnyText
  BY DecodeType
<1>2. Before(value) \in AnyText /\ After(value) \in AnyText
  BY SidesType
<1>3. Decode(Before(value)).text \in AnyText /\ Decode(After(value)).text \in AnyText
  BY <1>2, DecodeType
<1>4. ASSUME key \in Scalars
      PROVE  Decode(value).text[1] \in Word
  <2> DEFINE t == Decode(value).text
  <2>1. PartTakes(key, t)
    BY DEF Takes
  <2> HIDE DEF t
  <2>2. t # <<>>
    <3>1. /\ key # "exe" /\ key # "dll_overrides" /\ key # "arguments"
          /\ key # "debug_channels"
      BY <1>4, KeysAre
    <3>2. \E w \in Words[key] \cup {Default} : t = <<w>>
      BY <1>4, <2>1, <3>1, Zenon DEF PartTakes
    <3>3. QED
      BY <3>2
  <2>3. t \in Seq(Word)
    BY <1>1 DEF t, AnyText
  <2>4. t[1] \in Word
    BY <2>2, <2>3
  <2>5. QED
    BY <2>4 DEF t
<1>5. ASSUME key = "env"
      PROVE  Decode(Before(value)).text[1] \in Word
  <2> DEFINE t == Decode(Before(value)).text
  <2>1. t # <<>>
    BY <1>5 DEF Takes, NameTaken
  <2>2. t \in Seq(Word)
    BY <1>3 DEF AnyText
  <2> HIDE DEF t
  <2>3. t[1] \in Word
    BY <2>1, <2>2
  <2>4. QED
    BY <2>3 DEF t
<1>6. QED
  BY <1>1, <1>3, <1>4, <1>5

(* A part that a key takes and that is put into a rule makes a rule again  *)
(* (Draft, part.rs).                                                       *)
LEMMA PutPartType ==
  ASSUME NEW key \in Keys, NEW value \in AnyText, Takes(key, value), NEW rule \in ReadRules
  PROVE  PutPart(rule, key, value) \in ReadRules
<1> DEFINE text == Decode(value).text
           over == Over(rule.override)
           pins == IF key \in PinKeys THEN [rule.pins EXCEPT ![key] = <<text>>] ELSE rule.pins
           scalars == IF key \in Scalars THEN [rule.scalars EXCEPT ![key] = text[1]]
                      ELSE rule.scalars
           more(k, texts) == IF key = k THEN Append(texts, text) ELSE texts
           override == IF key # "arguments_override" THEN rule.override
                       ELSE <<IF value = <<>> THEN over ELSE Append(over, text)>>
           one == [name |-> Decode(Before(value)).text[1], value |-> Decode(After(value)).text]
           env == IF key # "env" THEN rule.env ELSE Append(rule.env, one)
<1>1. /\ rule.exe = AnyExe /\ rule.pins \in [PinKeys -> Optional(AnyText)]
      /\ rule.scalars \in [Scalars -> Word] /\ rule.dlls \in Seq(AnyText)
      /\ rule.override \in Optional(Seq(AnyText)) /\ rule.arguments \in Seq(AnyText)
      /\ rule.channels \in Seq(AnyText) /\ rule.env \in Seq(NamedEntries)
  BY DEF ReadRules
<1>2. /\ text \in AnyText
      /\ key \in Scalars => text[1] \in Word
      /\ key = "env" => Decode(Before(value)).text[1] \in Word
      /\ Decode(After(value)).text \in AnyText
  BY PartType
<1>3. PutPart(rule, key, value) =
        [exe |-> rule.exe, pins |-> pins, scalars |-> scalars,
         dlls |-> more("dll_overrides", rule.dlls), override |-> override,
         arguments |-> more("arguments", rule.arguments),
         channels |-> more("debug_channels", rule.channels), env |-> env]
  BY Zenon DEF PutPart
<1>4. pins \in [PinKeys -> Optional(AnyText)]
  <2>1. <<text>> \in Optional(AnyText)
    <3>1. <<text>> \in Option1(AnyText)
      BY <1>2, Zenon DEF Option1
    <3>2. QED
      BY <3>1, OptionIs
  <2> HIDE DEF text
  <2>2. QED
    BY <1>1, <2>1
<1>5. scalars \in [Scalars -> Word]
  <2> HIDE DEF text
  <2>2. QED
    BY <1>1, <1>2
<1>6. /\ more("dll_overrides", rule.dlls) \in Seq(AnyText)
      /\ more("arguments", rule.arguments) \in Seq(AnyText)
      /\ more("debug_channels", rule.channels) \in Seq(AnyText)
  <2> HIDE DEF text
  <2>2. QED
    BY <1>1, <1>2
<1>7. over \in Seq(AnyText)
  <2> DEFINE o == rule.override
  <2>1. o \in Option1(Seq(AnyText))
    BY <1>1, OptionIs
  <2>2. Over(o) = IF o = <<>> THEN <<>> ELSE o[1]
    BY DEF Over
  <2> HIDE DEF o
  <2>3. CASE o = <<>>
    <3>1. <<>> \in Seq(AnyText)
      BY Joining!EmptyInSeq
    <3>2. QED
      BY <2>2, <2>3, <3>1, Zenon DEF o
  <2>4. CASE o # <<>>
    <3>1. PICK x \in Seq(AnyText) : o = <<x>>
      BY <2>1, <2>4, Zenon DEF Option1
    <3>2. o[1] = x
      BY <3>1
    <3>3. QED
      BY <2>2, <2>4, <3>2 DEF o
  <2>5. QED
    BY <2>3, <2>4
<1>8. override \in Optional(Seq(AnyText))
  <2> HIDE DEF over
  <2>1. ASSUME NEW x \in Seq(AnyText)
        PROVE  <<x>> \in Optional(Seq(AnyText))
    <3>1. <<x>> \in Option1(Seq(AnyText))
      BY Zenon DEF Option1
    <3>2. QED
      BY <3>1, OptionIs
  <2> DEFINE next == IF value = <<>> THEN over ELSE Append(over, text)
  <2>2. next \in Seq(AnyText)
    <3>1. Append(over, text) \in Seq(AnyText)
      BY <1>2, <1>7, MoreType
    <3> HIDE DEF text
    <3>2. QED
      BY <1>7, <3>1
  <2> HIDE DEF text, next
  <2>3. <<next>> \in Optional(Seq(AnyText))
    BY <2>1, <2>2
  <2>4. override = IF key # "arguments_override" THEN rule.override ELSE <<next>>
    BY DEF next, text
  <2> HIDE DEF override
  <2>5. QED
    BY <1>1, <2>3, <2>4
<1>9. env \in Seq(NamedEntries)
  <2>1. key = "env" => one \in NamedEntries
    BY <1>2 DEF NamedEntries
  <2> HIDE DEF one
  <2>2. key = "env" => Append(rule.env, one) \in Seq(NamedEntries)
    BY <1>1, <2>1, MoreType
  <2>3. QED
    BY <1>1, <2>2
<1> HIDE DEF text, over, pins, scalars, more, override, env, one
<1>10. QED
  BY <1>1, <1>3, <1>4, <1>5, <1>6, <1>8, <1>9 DEF ReadRules

(* A record as it is being read. *)
ReadTyped(acc) ==
  /\ acc = [rule |-> acc.rule, exe |-> acc.exe, seen |-> acc.seen, bad |-> acc.bad]
  /\ acc.rule \in ReadRules /\ acc.exe \in Optional(AnyText)

(* Is the field one that its key takes? *)
Readable(raw) ==
  /\ Contains(raw, "=") /\ Len(Before(raw)) = 1 /\ Before(raw)[1] \in Keys
  /\ Takes(Before(raw)[1], After(raw))

Worse(acc) == [acc EXCEPT !.bad = @ + 1]

(* read_field leaves the record as it was, counts a problem, or takes the field. *)
LEMMA ReadFieldIs ==
  ASSUME NEW acc, NEW raw
  PROVE  \/ ReadField(acc, raw) = acc
         \/ ReadField(acc, raw) = Worse(acc)
         \/ /\ Readable(raw)
            /\ \E seen, bad :
                 ReadField(acc, raw) = [rule |-> PutPart(acc.rule, Before(raw)[1], After(raw)),
                                        exe |-> PutExe(acc.exe, Before(raw)[1], After(raw)),
                                        seen |-> seen, bad |-> bad]
<1> DEFINE key == Before(raw)
           value == After(raw)
           again == HoldsOne(key[1]) /\ key[1] \in acc.seen
           part == PutPart(acc.rule, key[1], value)
           exe == PutExe(acc.exe, key[1], value)
           seen == IF HoldsOne(key[1]) THEN acc.seen \cup {key[1]} ELSE acc.seen
           bad == IF again \/ Decode(value).bad THEN acc.bad + 1 ELSE acc.bad
<1>1. ReadField(acc, raw) =
        CASE raw = <<>> -> acc
          [] ~Readable(raw) -> Worse(acc)
          [] OTHER -> [rule |-> part, exe |-> exe, seen |-> seen, bad |-> bad]
  BY Zenon DEF ReadField, Readable, Worse
<1> HIDE DEF part, exe, seen, bad
<1>2. CASE raw # <<>> /\ Readable(raw)
  <2>1. ReadField(acc, raw) = [rule |-> part, exe |-> exe, seen |-> seen, bad |-> bad]
    BY <1>1, <1>2, Zenon
  <2>2. QED
    BY <1>2, <2>1, Zenon DEF part, exe
<1>3. CASE raw = <<>> \/ ~Readable(raw)
  <2>1. ReadField(acc, raw) = acc \/ ReadField(acc, raw) = Worse(acc)
    BY <1>1, <1>3, Zenon
  <2>2. QED
    BY <2>1
<1>4. QED
  BY <1>2, <1>3

(* Reading one field of a line keeps what is read so far a draft of a rule *)
(* (read_field).                                                           *)
LEMMA ReadFieldType ==
  ASSUME NEW acc, ReadTyped(acc), NEW raw \in AnyText
  PROVE  ReadTyped(ReadField(acc, raw))
<1>1. CASE ReadField(acc, raw) = acc
  BY <1>1
<1>2. CASE ReadField(acc, raw) = Worse(acc)
  <2>1. Worse(acc) = [rule |-> acc.rule, exe |-> acc.exe, seen |-> acc.seen, bad |-> acc.bad + 1]
    BY DEF Worse, ReadTyped
  <2>2. ReadTyped(Worse(acc))
    BY <2>1 DEF ReadTyped
  <2>3. QED
    BY <1>2, <2>2
<1>3. ASSUME Readable(raw), NEW seen, NEW bad,
             ReadField(acc, raw) = [rule |-> PutPart(acc.rule, Before(raw)[1], After(raw)),
                                    exe |-> PutExe(acc.exe, Before(raw)[1], After(raw)),
                                    seen |-> seen, bad |-> bad]
      PROVE  ReadTyped(ReadField(acc, raw))
  <2> DEFINE key == Before(raw)[1]
             value == After(raw)
             part == PutPart(acc.rule, key, value)
             exe == PutExe(acc.exe, key, value)
  <2>1. key \in Keys /\ value \in AnyText /\ Takes(key, value)
    BY <1>3, SidesType DEF Readable
  <2> HIDE DEF key, value
  <2>2. part \in ReadRules
    <3>1. acc.rule \in ReadRules
      BY DEF ReadTyped
    <3>2. QED
      BY <2>1, <3>1, PutPartType
  <2>3. exe \in Optional(AnyText)
    <3> DEFINE text == Decode(value).text
    <3>1. text \in AnyText /\ acc.exe \in Optional(AnyText)
      BY <2>1, DecodeType DEF ReadTyped
    <3>2. exe = IF key # "exe" THEN acc.exe ELSE IF text = <<>> THEN <<>> ELSE <<text>>
      BY Zenon DEF PutExe
    <3> HIDE DEF text, exe
    <3>3. <<>> \in Optional(AnyText) /\ <<text>> \in Optional(AnyText)
      <4>1. <<>> \in Option1(AnyText) /\ <<text>> \in Option1(AnyText)
        BY <3>1, Zenon DEF Option1
      <4>2. QED
        BY <4>1, OptionIs, Zenon
    <3>4. QED
      BY <3>1, <3>2, <3>3, Zenon
  <2> HIDE DEF part, exe
  <2>4. ReadField(acc, raw) = [rule |-> part, exe |-> exe, seen |-> seen, bad |-> bad]
    BY <1>3, Zenon DEF part, exe, key, value
  <2>5. QED
    BY <2>2, <2>3, <2>4 DEF ReadTyped
<1>4. QED
  BY <1>1, <1>2, <1>3, ReadFieldIs, Zenon

(* Before its first field a line is a draft of a rule.                     *)
LEMMA NothingTyped == ReadTyped(NothingRead)
<1> DEFINE none == <<>>
<1>1. none \in Seq(AnyText) /\ none \in Seq(NamedEntries)
  BY Joining!EmptyInSeq
<1>2. none \in Optional(AnyText) /\ none \in Optional(Seq(AnyText))
  BY OptionIs, Zenon DEF Option1
<1>3. Unset \in Word
  BY RulesAssumption
<1>4. NothingRead = [rule |-> [exe |-> AnyExe, pins |-> [k \in PinKeys |-> none],
                               scalars |-> [s \in Scalars |-> Unset], dlls |-> none,
                               override |-> none, arguments |-> none, channels |-> none,
                               env |-> none],
                     exe |-> none, seen |-> {}, bad |-> 0]
  BY Zenon DEF NothingRead, NewRule
<1> HIDE DEF none
<1>5. [rule |-> NothingRead.rule, exe |-> NothingRead.exe, seen |-> NothingRead.seen,
       bad |-> NothingRead.bad] = NothingRead
  BY <1>4
<1>6. NothingRead.rule \in ReadRules
  BY <1>1, <1>2, <1>3, <1>4 DEF ReadRules
<1>7. NothingRead.exe \in Optional(AnyText)
  BY <1>2, <1>4
<1>8. QED
  BY <1>5, <1>6, <1>7, Zenon DEF ReadTyped

(* What a rule read from a text is made of.                                *)
TextRules == [exe : AnyText, pins : [PinKeys -> Optional(AnyText)], scalars : [Scalars -> Word],
              dlls : Seq(AnyText), override : Optional(Seq(AnyText)), arguments : Seq(AnyText),
              channels : Seq(AnyText), env : Seq(NamedEntries)]

(* A line reads as one rule or as none (read_record).                      *)
LEMMA ReadRecordType ==
  ASSUME NEW line \in AnyText
  PROVE  ReadRecord(line).rule \in Option1(TextRules)
<1> DEFINE raws == Split(line, ";")
           P == {rs \in Seq(AnyText) : ReadTyped(Record!Fold(NothingRead, rs))}
           acc == Record!Fold(NothingRead, raws)
<1>1. raws \in Seq(AnyText)
  BY SplitType DEF AnyText
<1>2. <<>> \in P
  BY NothingTyped, Record!FoldOfNothing, Joining!EmptyInSeq
<1>3. ASSUME NEW rs \in Seq(AnyText), NEW x \in AnyText, rs \in P
      PROVE  rs \o <<x>> \in P
  <2>1. Record!Fold(NothingRead, rs \o <<x>>) = ReadField(Record!Fold(NothingRead, rs), x)
    BY Record!FoldOfOneMore
  <2>2. ReadTyped(Record!Fold(NothingRead, rs))
    BY <1>3
  <2>3. ReadTyped(ReadField(Record!Fold(NothingRead, rs), x))
    BY <2>2, ReadFieldType
  <2>4. rs \o <<x>> \in Seq(AnyText)
    OBVIOUS
  <2>5. QED
    BY <2>1, <2>3, <2>4
<1> HIDE DEF P
<1>4. \A rs \in Seq(AnyText) : rs \in P
  BY <1>2, <1>3, Joining!SeqInduction
<1>5. ReadTyped(acc)
  BY <1>1, <1>4 DEF P
<1>6. ReadRecord(line) =
        [rule |-> IF acc.exe = <<>> THEN <<>> ELSE <<[acc.rule EXCEPT !.exe = acc.exe[1]]>>,
         bad |-> acc.bad]
  BY Zenon DEF ReadRecord
<1> HIDE DEF acc
<1>7. CASE acc.exe = <<>>
  <2>1. ReadRecord(line).rule = <<>>
    BY <1>6, <1>7
  <2>2. QED
    BY <2>1, Zenon DEF Option1
<1>8. CASE acc.exe # <<>>
  <2>1. acc.exe[1] \in AnyText
    <3>1. acc.exe \in Option1(AnyText)
      BY <1>5, OptionIs DEF ReadTyped
    <3>2. PICK x \in AnyText : acc.exe = <<x>>
      BY <1>8, <3>1, Zenon DEF Option1
    <3>3. QED
      BY <3>2
  <2>2. [acc.rule EXCEPT !.exe = acc.exe[1]] \in TextRules
    <3> DEFINE r == acc.rule
               e == acc.exe[1]
    <3>1. r \in ReadRules
      BY <1>5 DEF ReadTyped
    <3> HIDE DEF r, e
    <3>1a. r = [exe |-> r.exe, pins |-> r.pins, scalars |-> r.scalars, dlls |-> r.dlls,
                override |-> r.override, arguments |-> r.arguments,
                channels |-> r.channels, env |-> r.env]
      BY <3>1 DEF ReadRules
    <3>2. [r EXCEPT !.exe = e] = [exe |-> e, pins |-> r.pins, scalars |-> r.scalars,
                                  dlls |-> r.dlls, override |-> r.override,
                                  arguments |-> r.arguments, channels |-> r.channels,
                                  env |-> r.env]
      BY <3>1a
    <3>3. QED
      BY <2>1, <3>1, <3>2 DEF ReadRules, TextRules, r, e
  <2>3. ReadRecord(line).rule = <<[acc.rule EXCEPT !.exe = acc.exe[1]]>>
    BY <1>6, <1>8
  <2>4. QED
    BY <2>2, <2>3, Zenon DEF Option1
<1>9. QED
  BY <1>7, <1>8

(* The positions a filter takes, of 1 .. n: they are some of those.        *)
LEMMA SelectedNumbers ==
  ASSUME NEW n \in Nat, NEW I
  PROVE  /\ Selected(Numbers(n), I) \in Seq(1 .. n)
         /\ \A k \in 1 .. Len(Selected(Numbers(n), I)) : Selected(Numbers(n), I)[k] \in I
<1> DEFINE s == Numbers(n)
           c == Selected(s, I)
<1>1. s \in Seq(1 .. n) /\ Len(s) = n /\ \A i \in 1 .. n : s[i] = i
  BY DEF Numbers
<1> HIDE DEF s
<1>2. c \in Seq(1 .. n)
  BY <1>1, SelectedType
<1>3. PICK at : IsPlaced(c, s, I, at)
  BY <1>1, SelectedInOrder
<1> HIDE DEF c
<1>4. \A k \in 1 .. Len(c) : c[k] \in I
  BY <1>1, <1>3 DEF IsPlaced
<1>5. QED
  BY <1>2, <1>4 DEF c, s

(* An entry of a table that a text is read as: on a line of the text, and  *)
(* what that line is read as.                                              *)
IsHome(entry, name, lines) ==
  /\ entry = [source |-> [text |-> name, line |-> entry.source.line], rule |-> entry.rule]
  /\ entry.source.line \in DOMAIN lines
  /\ ReadRecord(lines[entry.source.line]).rule = <<entry.rule>>
  /\ entry.rule \in TextRules

AllHome(entries, name, lines) ==
  /\ DOMAIN entries = 1 .. Len(entries) /\ Len(entries) \in Nat
  /\ entries = [n \in 1 .. Len(entries) |-> entries[n]]
  /\ \A n \in 1 .. Len(entries) : IsHome(entries[n], name, lines)

ReadAt(lines, used) == [k \in DOMAIN used |-> ReadRecord(lines[used[k]])]

(* Every entry that Table's parser collects from the lines has the number  *)
(* of the line it was read from, and is what that line reads as.           *)
LEMMA CollectHome ==
  ASSUME NEW name, NEW lines \in Seq(AnyText), NEW used \in Seq(DOMAIN lines)
  PROVE  AllHome(Collect(name, used, ReadAt(lines, used)).table, name, lines)
<1> DEFINE read == [k \in DOMAIN used |-> ReadRecord(lines[used[k]])]
           I == {k \in DOMAIN used : read[k].rule # <<>>}
           rules == Selected([k \in DOMAIN used |-> k], I)
           row(n) == [source |-> [text |-> name, line |-> used[rules[n]]],
                      rule |-> read[rules[n]].rule[1]]
           made == Collect(name, used, read).table
<1>1. Len(used) \in Nat /\ [k \in DOMAIN used |-> k] = Numbers(Len(used))
  BY DEF Numbers
<1>2. made = [n \in DOMAIN rules |-> row(n)]
  <2>1. Collect(name, used, read) =
          [table |-> [n \in DOMAIN rules |-> row(n)], bad |-> Problems!Fold(0, read)]
    BY Zenon DEF Collect
  <2> HIDE DEF row, rules
  <2>2. QED
    BY <2>1
<1>3. rules \in Seq(1 .. Len(used)) /\ \A n \in 1 .. Len(rules) : rules[n] \in I
  <2> HIDE DEF I
  <2>1. QED
    BY <1>1, SelectedNumbers
<1>4. DOMAIN rules = 1 .. Len(rules) /\ Len(rules) \in Nat
  BY <1>3
<1> HIDE DEF rules, made
<1>5. ASSUME NEW n \in 1 .. Len(rules)
      PROVE  IsHome(made[n], name, lines)
  <2> DEFINE k == rules[n]
             line == used[k]
             rule == read[k].rule
  <2>0. k \in I
    BY <1>3
  <2>1. k \in DOMAIN used /\ rule # <<>> /\ line \in DOMAIN lines
    <3>1. k \in DOMAIN used /\ rule # <<>>
      BY <2>0
    <3>2. QED
      BY <3>1
  <2>2. rule = ReadRecord(lines[line]).rule
    BY <2>1
  <2>3. lines[line] \in AnyText
    BY <2>1
  <2>4. made[n] = [source |-> [text |-> name, line |-> line], rule |-> rule[1]]
    <3>1. made[n] = row(n)
      BY <1>2, <1>4
    <3>2. QED
      BY <3>1
  <2> HIDE DEF k, line, rule, read, I, row
  <2>5. rule \in Option1(TextRules)
    BY <2>2, <2>3, ReadRecordType
  <2>6. PICK r \in TextRules : rule = <<r>>
    BY <2>1, <2>5, Zenon DEF Option1
  <2>7. rule[1] = r
    BY <2>6
  <2>8. made[n].source.line = line /\ made[n].rule = r
        /\ made[n] = [source |-> [text |-> name, line |-> line], rule |-> r]
    BY <2>4, <2>7
  <2>9. QED
    BY <2>1, <2>2, <2>6, <2>8, Zenon DEF IsHome
<1>6. DOMAIN made = 1 .. Len(made) /\ Len(made) = Len(rules)
      /\ made = [n \in 1 .. Len(made) |-> made[n]]
  <2> HIDE DEF row
  <2>1. QED
    BY <1>2, <1>4
<1>7. QED
  BY <1>4, <1>5, <1>6 DEF made, AllHome, ReadAt

(* Every rule a text is read as is on its line.                            *)
LEMMA ParseHome ==
  ASSUME NEW name, NEW text \in AnyText
  PROVE  AllHome(ParseText(name, text).table, name, Split(text, "newline"))
<1> DEFINE lines == Split(text, "newline")
           I == {i \in DOMAIN lines : lines[i] # <<>> /\ ~(i = 1 /\ IsLegacyHeader(lines[i]))}
           used == Selected([i \in DOMAIN lines |-> i], I)
<1>1. lines \in Seq(AnyText)
  BY SplitType DEF AnyText
<1>2. ParseText(name, text) = Collect(name, used, ReadAt(lines, used))
  BY Zenon DEF ParseText, ReadAt
<1> HIDE DEF lines, I
<1>3. [i \in DOMAIN lines |-> i] = Numbers(Len(lines)) /\ DOMAIN lines = 1 .. Len(lines)
      /\ Len(lines) \in Nat
  BY <1>1 DEF Numbers
<1>4. used \in Seq(DOMAIN lines)
  BY <1>3, SelectedNumbers
<1> HIDE DEF used
<1>5. QED
  BY <1>1, <1>2, <1>4, CollectHome DEF lines

Sources == [text : {"built-in", "variable", "file"}, line : Nat]
TableEntries == [source : Sources, rule : Rule]

(* A sequence whose members are all in T is a sequence over T.             *)
LEMMA SeqIn ==
  ASSUME NEW S, NEW T
  PROVE  \A s \in Seq(S) : (\A i \in 1 .. Len(s) : s[i] \in T) => s \in Seq(T)
<1> SUFFICES ASSUME NEW s \in Seq(S), \A i \in 1 .. Len(s) : s[i] \in T
             PROVE  s \in Seq(T)
  OBVIOUS
<1>1. s = [i \in 1 .. Len(s) |-> s[i]] /\ Len(s) \in Nat
  OBVIOUS
<1>2. [i \in 1 .. Len(s) |-> s[i]] \in Seq(T)
  BY <1>1
<1>3. QED
  BY <1>1, <1>2, Zenon

(* The built-in table is entries of the source `built-in`, which have no   *)
(* line.                                                                   *)
LEMMA BuiltInType == BuiltInTable \in Seq(TableEntries) /\ \A i \in 1 .. Len(BuiltInTable) :
                       BuiltInTable[i].source.text = "built-in" /\ BuiltInTable[i].source.line = 0
<1> DEFINE rules == Defaults \o Programs
           n == Len(rules)
<1>1. DOMAIN rules = 1 .. n /\ n \in Nat
  BY DEF Defaults, Programs
<1>2. \A i \in 1 .. n : rules[i] \in Rule
  BY BuiltInAssumption, Zenon DEF WellMade
<1>3. BuiltInTable = [i \in DOMAIN rules |-> [source |-> [text |-> "built-in", line |-> 0],
                                             rule |-> rules[i]]]
  BY Zenon DEF BuiltInTable, BuiltIn
<1> HIDE DEF rules, n
<1>4. /\ DOMAIN BuiltInTable = 1 .. n
      /\ \A i \in 1 .. n : BuiltInTable[i] = [source |-> [text |-> "built-in", line |-> 0],
                                             rule |-> rules[i]]
  BY <1>1, <1>3
<1>5. \A i \in 1 .. n : [source |-> [text |-> "built-in", line |-> 0], rule |-> rules[i]]
                          \in TableEntries
  BY <1>2 DEF TableEntries, Sources
<1>6. BuiltInTable \in Seq(TableEntries)
  BY <1>1, <1>3, <1>5
<1>7. QED
  BY <1>1, <1>4, <1>6

(* The launcher's text is words.                                           *)
LEMMA DisplayType ==
  ASSUME NEW rules \in Seq(MadeRules)
  PROVE  Display(InVariable(rules)) \in AnyText
<1> DEFINE rs == Records(rules)
           t == Display(InVariable(rules))
<1>1. /\ rs \in Seq(Seq(Word)) /\ Len(rs) = Len(rules) /\ t = Join(rs, "newline")
      /\ \A i \in 1 .. Len(rules) : Lacks(rs[i], "newline")
  BY DisplayIs, Zenon
<1>2. "newline" \in Word
  BY WireAssumption DEF Escaped
<1> HIDE DEF rs, t
<1>3. CASE rs = <<>>
  <2>1. Join(<<>>, "newline") = Flat(<<>>)
    BY DEF Join
  <2>2. t = <<>>
    BY <1>1, <1>3, <2>1, FlatOfNothing, Zenon
  <2>3. <<>> \in Seq(Word)
    BY Joining!EmptyInSeq
  <2>4. QED
    BY <2>2, <2>3, Zenon DEF t, AnyText
<1>4. CASE rs # <<>>
  <2>1. Join(rs, "newline") \in Seq(Word)
    BY <1>1, <1>2, <1>4, SplitOfJoin
  <2>2. QED
    BY <1>1, <2>1 DEF t, AnyText
<1>5. QED
  BY <1>3, <1>4

(* The launcher's own entries have the variable for their source.          *)
LEMMA InVariableType ==
  ASSUME NEW rules \in Seq(MadeRules)
  PROVE  /\ InVariable(rules) \in Seq(TableEntries)
         /\ \A i \in 1 .. Len(InVariable(rules)) : InVariable(rules)[i].source.text = "variable"
<1>1. \A i \in 1 .. Len(rules) : rules[i] \in Rule
  BY DEF MadeRules
<1>2. \A i \in 1 .. Len(rules) : RuleLine(rules, i) \in TableEntries
  BY <1>1 DEF RuleLine, TableEntries, Sources
<1>3. \A i : RuleLine(rules, i).source.text = "variable"
  BY DEF RuleLine
<1>4. InVariable(rules) = [i \in 1 .. Len(rules) |-> RuleLine(rules, i)] /\ Len(rules) \in Nat
  BY DEF InVariable
<1>5. InVariable(rules) \in Seq(TableEntries) /\ Len(InVariable(rules)) = Len(rules)
      /\ \A i \in 1 .. Len(rules) : InVariable(rules)[i] = RuleLine(rules, i)
  BY <1>2, <1>4
<1>6. QED
  BY <1>3, <1>5

Origins == {Origin(e) : e \in TableEntries} \cup {NoOrigin}
Sayings == [text : AnyText, from : Origins]
DllItems == [modules : AnyText, order : AnyText, from : Origins]
Settings == [Scalars -> [value : Word, by : Origins]]
EnvItems == [name : Names, value : AnyText, from : Origins, default : BOOLEAN]

(* What rules of any kind fold into. *)
Resolutions ==
  [scalars : Settings, dlls : Seq(DllItems), arguments : Seq(Sayings), ignored : Seq(Origins),
   channels : Seq(Sayings), env : Seq(EnvItems), hudAt : Nat]

(* The origin that the log names of an entry: its source and its line.     *)
LEMMA OriginType ==
  ASSUME NEW e \in TableEntries
  PROVE  Origin(e) \in Origins
BY Zenon DEF Origins

(* The parts of an entry's rule have their types.                          *)
LEMMA RuleType ==
  ASSUME NEW e \in TableEntries
  PROVE  /\ e.rule \in Rule
         /\ e.rule.scalars \in [Scalars -> Word]
         /\ e.rule.dlls \in Seq(AnyText) /\ e.rule.override \in Optional(Seq(AnyText))
         /\ e.rule.arguments \in Seq(AnyText) /\ e.rule.channels \in Seq(AnyText)
         /\ e.rule.env \in Seq([name : Names, value : AnyText])
         /\ e.rule.override # <<>> => e.rule.override[1] \in Seq(AnyText)
<1> DEFINE r == e.rule
<1>1. r \in Rule
  BY DEF TableEntries
<1> HIDE DEF r
<1>2. /\ r.scalars \in [Scalars -> Word]
      /\ r.dlls \in Seq(AnyText) /\ r.override \in Optional(Seq(AnyText))
      /\ r.arguments \in Seq(AnyText) /\ r.channels \in Seq(AnyText)
      /\ r.env \in Seq([name : Names, value : AnyText])
  BY <1>1 DEF Rule
<1>3. r.override # <<>> => r.override[1] \in Seq(AnyText)
  <2> DEFINE o == r.override
  <2>1. o \in Option1(Seq(AnyText))
    BY <1>2, OptionIs
  <2> HIDE DEF o
  <2>2. ASSUME o # <<>>
        PROVE  o[1] \in Seq(AnyText)
    <3>1. PICK x \in Seq(AnyText) : o = <<x>>
      BY <2>1, <2>2, Zenon DEF Option1
    <3>2. QED
      BY <3>1
  <2>3. QED
    BY <2>2 DEF o
<1>4. QED
  BY <1>1, <1>2, <1>3 DEF r

(* The texts that a rule says are noted with that rule's origin, in their  *)
(* order.                                                                  *)
LEMMA FromType ==
  ASSUME NEW e \in TableEntries, NEW texts \in Seq(AnyText)
  PROVE  /\ From(texts, e) \in Seq(Sayings) /\ Len(From(texts, e)) = Len(texts)
         /\ \A i \in 1 .. Len(texts) : From(texts, e)[i] = [text |-> texts[i], from |-> Origin(e)]
<1>1. \A i \in 1 .. Len(texts) : [text |-> texts[i], from |-> Origin(e)] \in Sayings
  BY OriginType DEF Sayings
<1>2. From(texts, e) = [i \in 1 .. Len(texts) |-> [text |-> texts[i], from |-> Origin(e)]]
  BY DEF From
<1>3. QED
  BY <1>1, <1>2

(* Where the first = of a text is. *)
LEMMA EqualsAt ==
  ASSUME NEW text \in AnyText
  PROVE  SelectInSeq(text, LAMBDA w : w = "=") \in 0 .. Len(text)
<1> DEFINE I == {i \in 1 .. Len(text) : text[i] = "="}
           m == Min(I)
<1>1. SelectInSeq(text, LAMBDA w : w = "=") = IF I = {} THEN 0 ELSE m
  BY DEF SelectInSeq
<1>2. Len(text) \in Nat
  BY DEF AnyText
<1>3. I # {} => m \in 1 .. Len(text)
  <2>1. I \subseteq Nat /\ I \subseteq 1 .. Len(text)
    BY <1>2
  <2> HIDE DEF I
  <2>2. I # {} => m \in I
    BY <2>1, SmallestIn
  <2>3. QED
    BY <2>1, <2>2
<1> HIDE DEF I, m
<1>4. QED
  BY <1>1, <1>2, <1>3

(* The two sides of a DLL override are texts.                              *)
LEMMA ModulesType ==
  ASSUME NEW text \in AnyText
  PROVE  Modules(text) \in AnyText /\ Order(text) \in AnyText
<1> DEFINE m == SelectInSeq(text, LAMBDA w : w = "=")
           I == {i \in 1 .. m - 1 : text[i] # ","}
           a == m + 1
           b == Len(text)
<1>1. m \in 0 .. Len(text) /\ Len(text) \in Nat /\ text \in Seq(Word)
  BY EqualsAt DEF AnyText
<1>2. Modules(text) = Selected(text, I) /\ Order(text) = SubSeq(text, a, b)
  BY DEF Modules, Order
<1> HIDE DEF I
<1>3. Selected(text, I) \in Seq(Word)
  BY <1>1, SelectedType
<1>4. SubSeq(text, a, b) \in Seq(Word)
  <2> HIDE DEF m
  <2>1. a \in 1 .. Len(text) + 1 /\ b \in a - 1 .. Len(text)
    BY <1>1
  <2> HIDE DEF a, b
  <2>2. QED
    BY <1>1, <2>1, PartIs
<1> HIDE DEF a, b
<1>5. QED
  BY <1>2, <1>3, <1>4 DEF AnyText

Rest(e, modules) ==
  Selected(e.modules, {k \in DOMAIN e.modules : ~Contains(modules, e.modules[k])})
KeptDlls(dlls, modules) ==
  Selected(dlls, {i \in DOMAIN dlls : dlls[i].modules = <<>> \/ Rest(dlls[i], modules) # <<>>})
WithRest(e, modules) == [e EXCEPT !.modules = Rest(e, modules)]

(* What is left of a list of overrides when modules are taken out of it,   *)
(* as a function.                                                          *)
LEMMA WithoutIs ==
  ASSUME NEW dlls, NEW modules
  PROVE  WithoutModules(dlls, modules)
           = [i \in DOMAIN KeptDlls(dlls, modules) |-> WithRest(KeptDlls(dlls, modules)[i], modules)]
BY Zenon DEF WithoutModules, Rest, KeptDlls, WithRest

(* An override with some of its modules taken away has the order and the   *)
(* origin it had.                                                          *)
LEMMA WithRestType ==
  ASSUME NEW e \in DllItems, NEW modules
  PROVE  /\ WithRest(e, modules) \in DllItems
         /\ WithRest(e, modules) = [modules |-> Rest(e, modules), order |-> e.order,
                                    from |-> e.from]
<1> DEFINE m == e.modules
           rest == Rest(e, modules)
<1>1. m \in AnyText /\ e.order \in AnyText /\ e.from \in Origins
      /\ e = [modules |-> m, order |-> e.order, from |-> e.from]
  BY DEF DllItems
<1>2. rest \in AnyText
  <2> DEFINE I == {k \in DOMAIN m : ~Contains(modules, m[k])}
  <2>1. rest = Selected(m, I)
    BY DEF Rest
  <2> HIDE DEF I, m, rest
  <2>2. m \in Seq(Word)
    BY <1>1 DEF AnyText
  <2>3. QED
    BY <2>1, <2>2, SelectedType DEF AnyText
<1> HIDE DEF rest
<1>3. [e EXCEPT !.modules = rest] = [modules |-> rest, order |-> e.order, from |-> e.from]
  BY <1>1
<1>4. [modules |-> rest, order |-> e.order, from |-> e.from] \in DllItems
  BY <1>1, <1>2 DEF DllItems
<1>5. QED
  BY <1>3, <1>4 DEF WithRest, rest

(* Overrides without some modules are overrides.                           *)
LEMMA WithoutType ==
  ASSUME NEW dlls \in Seq(DllItems), NEW modules
  PROVE  WithoutModules(dlls, modules) \in Seq(DllItems)
<1> DEFINE kept == KeptDlls(dlls, modules)
<1>1. kept \in Seq(DllItems)
  <2> DEFINE I == {i \in DOMAIN dlls : dlls[i].modules = <<>> \/ Rest(dlls[i], modules) # <<>>}
  <2>1. kept = Selected(dlls, I)
    BY DEF KeptDlls
  <2> HIDE DEF I, kept
  <2>2. QED
    BY <2>1, SelectedType
<1>2. WithoutModules(dlls, modules) = [i \in DOMAIN kept |-> WithRest(kept[i], modules)]
  BY WithoutIs
<1> HIDE DEF kept
<1>3. DOMAIN kept = 1 .. Len(kept) /\ Len(kept) \in Nat /\ \A i \in 1 .. Len(kept) : kept[i] \in DllItems
  BY <1>1
<1>4. \A i \in 1 .. Len(kept) : WithRest(kept[i], modules) \in DllItems
  BY <1>3, WithRestType
<1>5. QED
  BY <1>2, <1>3, <1>4

(* Folding one DLL override keeps a list of overrides (Resolution::fold).  *)
LEMMA FoldDllType ==
  \A dlls \in Seq(DllItems), said \in Sayings : FoldDll(dlls, said) \in Seq(DllItems)
<1> SUFFICES ASSUME NEW dlls \in Seq(DllItems), NEW said \in Sayings
             PROVE  FoldDll(dlls, said) \in Seq(DllItems)
  OBVIOUS
<1> DEFINE text == said.text
           item == [modules |-> Modules(text), order |-> Order(text), from |-> said.from]
<1>1. text \in AnyText /\ said.from \in Origins
  BY DEF Sayings
<1>2. item \in DllItems
  <2> HIDE DEF text
  <2>1. Modules(text) \in AnyText /\ Order(text) \in AnyText
    BY <1>1, ModulesType
  <2>2. QED
    BY <1>1, <2>1 DEF DllItems
<1>3. FoldDll(dlls, said) = IF Order(text) = <<Default>> THEN WithoutModules(dlls, Modules(text))
                            ELSE dlls \o <<item>>
  BY DEF FoldDll
<1> HIDE DEF item
<1>4. dlls \o <<item>> \in Seq(DllItems)
  BY <1>2
<1>5. WithoutModules(dlls, Modules(text)) \in Seq(DllItems)
  BY WithoutType
<1>6. QED
  BY <1>3, <1>4, <1>5

(* Folding a rule's DLL overrides keeps a list of overrides.               *)
LEMMA FoldDllsType ==
  ASSUME NEW dlls \in Seq(DllItems), NEW e \in TableEntries
  PROVE  FoldDlls(dlls, e) \in Seq(DllItems)
<1> DEFINE said == From(e.rule.dlls, e)
<1>1. said \in Seq(Sayings)
  BY RuleType, FromType
<1> HIDE DEF said
<1>2. Dlls!Fold(dlls, said) \in Seq(DllItems)
  <2> DEFINE R == Seq(DllItems)
  <2>1. \A r \in R, x \in Sayings : FoldDll(r, x) \in R
    BY FoldDllType
  <2>2. dlls \in R
    OBVIOUS
  <2> HIDE DEF R
  <2>3. Dlls!Fold(dlls, said) \in R
    BY <1>1, <2>1, <2>2, Dlls!FoldType
  <2>4. QED
    BY <2>3 DEF R
<1>3. QED
  BY <1>2 DEF FoldDlls, said

(* Folding a rule's arguments, or what it has in their place, keeps a list *)
(* of arguments.                                                           *)
LEMMA FoldArgumentsType ==
  ASSUME NEW arguments \in Seq(Sayings), NEW e \in TableEntries
  PROVE  FoldArguments(arguments, e) \in Seq(Sayings)
<1> DEFINE o == e.rule.override
           before == IF o = <<>> \/ IsSteamApp(e.rule.exe) THEN arguments ELSE From(o[1], e)
<1>1. before \in Seq(Sayings)
  <2>1. o # <<>> => From(o[1], e) \in Seq(Sayings)
    BY RuleType, FromType
  <2> HIDE DEF o
  <2>2. QED
    BY <2>1
<1>2. From(e.rule.arguments, e) \in Seq(Sayings)
  BY RuleType, FromType
<1>3. FoldArguments(arguments, e) = before \o From(e.rule.arguments, e)
  BY DEF FoldArguments
<1> HIDE DEF before
<1>4. QED
  BY <1>1, <1>2, <1>3

(* The entries of a rule, as the fold has them.                            *)
EnvOf(e) ==
  [i \in DOMAIN e.rule.env |->
     [name |-> e.rule.env[i].name, value |-> e.rule.env[i].value,
      from |-> Origin(e), default |-> EnvIsDefault(Origin(e))]]

(* A rule has as many entries for the environment as it says.              *)
LEMMA EnvOfType ==
  ASSUME NEW e \in TableEntries
  PROVE  EnvOf(e) \in Seq(EnvItems) /\ Len(EnvOf(e)) = Len(e.rule.env)
<1> DEFINE env == e.rule.env
           item(i) == [name |-> env[i].name, value |-> env[i].value,
                       from |-> Origin(e), default |-> EnvIsDefault(Origin(e))]
<1>1. env \in Seq(Entries)
  BY RuleType DEF Entries
<1>2. EnvOf(e) = [i \in DOMAIN env |-> item(i)]
  BY DEF EnvOf
<1>3. Origin(e) \in Origins /\ EnvIsDefault(Origin(e)) \in BOOLEAN
  BY OriginType DEF EnvIsDefault
<1> HIDE DEF env
<1>4. \A i \in 1 .. Len(env) : env[i].name \in Names /\ env[i].value \in AnyText
  <2>1. \A i \in 1 .. Len(env) : env[i] \in Entries
    BY <1>1
  <2>2. QED
    BY <2>1 DEF Entries
<1>5. \A i \in 1 .. Len(env) : item(i) \in EnvItems
  <2> SUFFICES ASSUME NEW i \in 1 .. Len(env)
               PROVE  item(i) \in EnvItems
    OBVIOUS
  <2> DEFINE a == env[i].name
             b == env[i].value
             c == Origin(e)
             d == EnvIsDefault(Origin(e))
  <2>1. a \in Names /\ b \in AnyText /\ c \in Origins /\ d \in BOOLEAN
    BY <1>3, <1>4
  <2>2. item(i) = [name |-> a, value |-> b, from |-> c, default |-> d]
    OBVIOUS
  <2> HIDE DEF a, b, c, d
  <2>3. [name |-> a, value |-> b, from |-> c, default |-> d] \in EnvItems
    BY <2>1, Zenon DEF EnvItems
  <2>4. QED
    BY <2>2, <2>3
<1> HIDE DEF item
<1>6. Len(env) \in Nat /\ DOMAIN env = 1 .. Len(env)
  BY <1>1
<1>7. QED
  BY <1>2, <1>5, <1>6 DEF env

SaidBy(e) == [s \in Scalars |-> [value |-> e.rule.scalars[s], by |-> Origin(e)]]

(* A rule that sets settings makes settings of settings.                   *)
LEMMA FoldScalarsType ==
  ASSUME NEW scalars \in Settings, NEW e \in TableEntries
  PROVE  FoldScalars(scalars, e) \in Settings
<1> DEFINE said == e.rule.scalars
<1>1. said \in [Scalars -> Word] /\ Origin(e) \in Origins
  BY RuleType, OriginType
<1>2. FoldScalars(scalars, e) =
        [s \in Scalars |-> IF said[s] = Unset THEN scalars[s]
                           ELSE [value |-> said[s], by |-> Origin(e)]]
  BY DEF FoldScalars
<1> HIDE DEF said
<1> DEFINE V == [value : Word, by : Origins]
<1>3. \A s \in Scalars : scalars[s] \in V /\ [value |-> said[s], by |-> Origin(e)] \in V
  BY <1>1 DEF Settings
<1>4. \A s \in Scalars : (IF said[s] = Unset THEN scalars[s]
                          ELSE [value |-> said[s], by |-> Origin(e)]) \in V
  BY <1>3
<1> HIDE DEF V
<1>5. FoldScalars(scalars, e) \in [Scalars -> V]
  BY <1>2, <1>4
<1>6. QED
  BY <1>5 DEF V, Settings

(* hudAt is a position in the entries there are, or 0. *)
HudAt(r, e) ==
  IF e.rule.scalars["metal_hud"] = Unset THEN r.hudAt
  ELSE IF e.rule.scalars["metal_hud"] = Default THEN 0 ELSE Len(r.env)

IgnoredEntry(r, e) ==
  IF e.rule.override # <<>> /\ IsSteamApp(e.rule.exe) THEN Append(r.ignored, Origin(e)) ELSE r.ignored

(* What a rule makes of a resolution, part by part.                        *)
LEMMA FoldRuleIs ==
  ASSUME NEW r, NEW e
  PROVE  FoldRule(r, e) =
           [scalars |-> FoldScalars(r.scalars, e), dlls |-> FoldDlls(r.dlls, e),
            arguments |-> FoldArguments(r.arguments, e), ignored |-> IgnoredEntry(r, e),
            channels |-> r.channels \o From(e.rule.channels, e),
            hudAt |-> HudAt(r, e), env |-> r.env \o EnvOf(e)]
<1> DEFINE w == e.rule.scalars["metal_hud"]
           hud == CASE w = Unset -> r.hudAt [] w = Default -> 0 [] OTHER -> Len(r.env)
<1>1. hud = HudAt(r, e)
  <2>0. Unset # Default
    BY DEF Unset, Default
  <2>1. HudAt(r, e) = IF w = Unset THEN r.hudAt ELSE IF w = Default THEN 0 ELSE Len(r.env)
    BY DEF HudAt
  <2> HIDE DEF w
  <2>2. CASE w = Unset
    <3>1. w # Default
      BY <2>0, <2>2
    <3>2. hud = r.hudAt
      BY <2>2, <3>1, Zenon
    <3>3. QED
      BY <2>1, <2>2, <3>2, Zenon
  <2>3. CASE w = Default
    <3>1. w # Unset
      BY <2>0, <2>3
    <3>2. hud = 0
      BY <2>3, <3>1, Zenon
    <3>3. QED
      BY <2>1, <2>3, <3>1, <3>2, Zenon
  <2>4. CASE w # Default /\ w # Unset
    <3>2. hud = Len(r.env)
      BY <2>4, Zenon
    <3>3. QED
      BY <2>1, <2>4, <3>2, Zenon
  <2>5. QED
    BY <2>2, <2>3, <2>4
<1>2. FoldRule(r, e) =
           [scalars |-> FoldScalars(r.scalars, e), dlls |-> FoldDlls(r.dlls, e),
            arguments |-> FoldArguments(r.arguments, e), ignored |-> IgnoredEntry(r, e),
            channels |-> r.channels \o From(e.rule.channels, e),
            hudAt |-> hud, env |-> r.env \o EnvOf(e)]
  BY Zenon DEF FoldRule, IgnoredEntry, FoldEnv, EnvOf
<1> HIDE DEF hud
<1>3. QED
  BY <1>1, <1>2, Zenon

Resolved == {r \in Resolutions : r.hudAt <= Len(r.env)}

(* Folding a rule keeps a resolution one, and the place of the HUD's       *)
(* entries within its environment.                                         *)
LEMMA FoldRuleType ==
  \A r \in Resolved, e \in TableEntries : FoldRule(r, e) \in Resolved
<1> SUFFICES ASSUME NEW r \in Resolved, NEW e \in TableEntries
             PROVE  FoldRule(r, e) \in Resolved
  OBVIOUS
<1>1. /\ r.scalars \in Settings /\ r.dlls \in Seq(DllItems) /\ r.arguments \in Seq(Sayings)
      /\ r.ignored \in Seq(Origins) /\ r.channels \in Seq(Sayings)
      /\ r.env \in Seq(EnvItems) /\ r.hudAt \in Nat /\ r.hudAt <= Len(r.env)
  BY DEF Resolved, Resolutions
<1> DEFINE a == FoldScalars(r.scalars, e)
           b == FoldDlls(r.dlls, e)
           c == FoldArguments(r.arguments, e)
           d == IgnoredEntry(r, e)
           f == r.channels \o From(e.rule.channels, e)
           g == HudAt(r, e)
           h == r.env \o EnvOf(e)
<1>2. a \in Settings /\ b \in Seq(DllItems) /\ c \in Seq(Sayings)
  BY <1>1, FoldScalarsType, FoldDllsType, FoldArgumentsType
<1>3. d \in Seq(Origins)
  <2>1. Origin(e) \in Origins
    BY OriginType
  <2>2. Append(r.ignored, Origin(e)) \in Seq(Origins)
    BY <1>1, <2>1, MoreType
  <2>3. QED
    BY <1>1, <2>2 DEF IgnoredEntry
<1>4. f \in Seq(Sayings)
  <2>1. From(e.rule.channels, e) \in Seq(Sayings)
    BY RuleType, FromType
  <2>2. QED
    BY <1>1, <2>1
<1>5. h \in Seq(EnvItems) /\ g \in Nat /\ g <= Len(h)
  <2>1. EnvOf(e) \in Seq(EnvItems)
    BY EnvOfType
  <2>2. h \in Seq(EnvItems) /\ Len(h) >= Len(r.env) /\ Len(r.env) \in Nat /\ Len(h) \in Nat
    BY <1>1, <2>1
  <2>3. g = r.hudAt \/ g = 0 \/ g = Len(r.env)
    BY DEF HudAt
  <2> HIDE DEF g, h
  <2>4. QED
    BY <1>1, <2>2, <2>3
<1>6. FoldRule(r, e) = [scalars |-> a, dlls |-> b, arguments |-> c, ignored |-> d,
                        channels |-> f, hudAt |-> g, env |-> h]
  BY FoldRuleIs
<1> HIDE DEF a, b, c, d, f, g, h
<1>7. [scalars |-> a, dlls |-> b, arguments |-> c, ignored |-> d,
       channels |-> f, hudAt |-> g, env |-> h] \in Resolutions
  BY <1>2, <1>3, <1>4, <1>5 DEF Resolutions
<1>8. QED
  BY <1>5, <1>6, <1>7 DEF Resolved

(* What no rule has said anything of yet is a resolution.                  *)
LEMMA NoResolutionType == NoResolution \in Resolved
<1> DEFINE a == [s \in Scalars |-> [value |-> Unset, by |-> NoOrigin]]
           none == <<>>
<1>1. a \in Settings
  <2>1. Unset \in Word /\ NoOrigin \in Origins
    BY RulesAssumption DEF Origins
  <2>2. QED
    BY <2>1 DEF Settings
<1>2. /\ none \in Seq(DllItems) /\ none \in Seq(Sayings) /\ none \in Seq(Origins)
      /\ none \in Seq(EnvItems) /\ Len(none) = 0
  BY Joining!EmptyInSeq
<1>3. NoResolution = [scalars |-> a, dlls |-> none, arguments |-> none, ignored |-> none,
                      channels |-> none, env |-> none, hudAt |-> 0]
  BY Zenon DEF NoResolution
<1> HIDE DEF a, none
<1>4. [scalars |-> a, dlls |-> none, arguments |-> none, ignored |-> none,
       channels |-> none, env |-> none, hudAt |-> 0] \in Resolutions
  BY <1>1, <1>2 DEF Resolutions
<1>5. QED
  BY <1>2, <1>3, <1>4 DEF Resolved

(* The rules of a table that match are entries of the table. *)
LEMMA MatchingType ==
  ASSUME NEW t \in Seq(TableEntries), NEW image
  PROVE  Matching(t, image) \in Seq(TableEntries)
<1> DEFINE found == {i \in DOMAIN t : Matches(t[i].rule, image)}
           at(p) == {i \in found : Place(t[i]) = p - 1}
           parts == [p \in 1 .. 8 |-> Selected(t, at(p))]
<1>1. Matching(t, image) = Flat(parts)
  BY Zenon DEF Matching
<1>2. \A p \in 1 .. 8 : Selected(t, at(p)) \in Seq(TableEntries)
  <2> HIDE DEF at
  <2>1. QED
    BY SelectedType
<1>3. parts \in Seq(Seq(TableEntries))
  <2> HIDE DEF at
  <2>1. QED
    BY <1>2
<1> HIDE DEF parts
<1>4. Flat(parts) \in Seq(TableEntries)
  BY <1>3, FlatType
<1>5. QED
  BY <1>1, <1>4

(* Resolving a table for a program makes a resolution.                     *)
LEMMA ResolveType ==
  ASSUME NEW t \in Seq(TableEntries), NEW image
  PROVE  Resolve(t, image) \in Resolved
<1> DEFINE m == Matching(t, image)
<1>1. m \in Seq(TableEntries)
  BY MatchingType
<1> HIDE DEF m
<1>2. Rules!Fold(NoResolution, m) \in Resolved
  BY <1>1, FoldRuleType, NoResolutionType, Rules!FoldType
<1>3. QED
  BY <1>2 DEF Resolve, m

FinalWords == Word \cup {Option(w) : w \in Word} \cup {"1", "28", "device,...,client"}
FinalItems == [name : Names, value : Seq(FinalWords), from : Origins, default : BOOLEAN]

AllEnv(r) == r.env \o DerivedConfig(r)
FinalEnv(r) ==
  SubSeq(AllEnv(r), 1, r.hudAt) \o DerivedHud(r)
    \o SubSeq(AllEnv(r), r.hudAt + 1, Len(AllEnv(r)))

(* fold_derived_env changes the environment of a resolution and nothing    *)
(* else.                                                                   *)
LEMMA DerivedIs ==
  ASSUME NEW r \in Resolved
  PROVE  LET f == FoldDerivedEnv(r)
         IN /\ f.scalars = r.scalars /\ f.dlls = r.dlls /\ f.arguments = r.arguments
            /\ f.channels = r.channels /\ f.hudAt = r.hudAt /\ f.env = FinalEnv(r)
            /\ f = [scalars |-> r.scalars, dlls |-> r.dlls, arguments |-> r.arguments,
                    ignored |-> r.ignored, channels |-> r.channels, env |-> FinalEnv(r),
                    hudAt |-> r.hudAt]
<1> DEFINE env == FinalEnv(r)
<1>1. FoldDerivedEnv(r) = [r EXCEPT !.env = env]
  BY Zenon DEF FoldDerivedEnv, FinalEnv, AllEnv
<1> HIDE DEF env
<1>2. r = [scalars |-> r.scalars, dlls |-> r.dlls, arguments |-> r.arguments,
           ignored |-> r.ignored, channels |-> r.channels, env |-> r.env, hudAt |-> r.hudAt]
  BY DEF Resolved, Resolutions
<1>3. [r EXCEPT !.env = env] =
        [scalars |-> r.scalars, dlls |-> r.dlls, arguments |-> r.arguments,
         ignored |-> r.ignored, channels |-> r.channels, env |-> env, hudAt |-> r.hudAt]
  BY <1>2
<1>4. QED
  BY <1>1, <1>3 DEF env

FinalEntry(entry, by) == [name |-> entry.name, value |-> entry.value, from |-> by, default |-> FALSE]

(* The entries that stand for a setting have the origin of the rule that   *)
(* set it.                                                                 *)
LEMMA DerivedType ==
  ASSUME NEW by \in Origins,
         NEW es \in Seq([name : Names, value : Seq(FinalWords)])
  PROVE  /\ Derived(es, by) \in Seq(FinalItems) /\ Len(Derived(es, by)) = Len(es)
         /\ \A i \in 1 .. Len(es) : Derived(es, by)[i] = FinalEntry(es[i], by)
<1> DEFINE E == [name : Names, value : Seq(FinalWords)]
<1>1. Derived(es, by) = [i \in 1 .. Len(es) |-> FinalEntry(es[i], by)] /\ Len(es) \in Nat
  BY DEF Derived, FinalEntry
<1>2. \A e \in E : FinalEntry(e, by) \in FinalItems
  BY DEF FinalEntry, FinalItems
<1>3. es \in Seq(E)
  OBVIOUS
<1> HIDE DEF E
<1>4. \A i \in 1 .. Len(es) : FinalEntry(es[i], by) \in FinalItems
  BY <1>2, <1>3
<1>5. QED
  BY <1>1, <1>4

ConfigEntry(r) == [name |-> "WINE_D3D_CONFIG", value |-> Wined3dConfig(r)]

(* A setting of a resolution has a word for its value and an origin.       *)
LEMMA ScalarType ==
  ASSUME NEW r \in Resolved, NEW s \in Scalars
  PROVE  r.scalars[s].value \in Word /\ r.scalars[s].by \in Origins
<1>1. r.scalars \in Settings
  BY DEF Resolved, Resolutions
<1>2. r.scalars[s] \in [value : Word, by : Origins]
  BY <1>1 DEF Settings
<1>3. QED
  BY <1>2

(* The last of some positions. *)
LastOf(I) == IF I # {} THEN Max(I) ELSE 0

(* The last of a set of places is the largest of them, or 0 where there    *)
(* are none.                                                               *)
LEMMA LargestIn ==
  ASSUME NEW n \in Nat, NEW I, I \subseteq 1 .. n
  PROVE  /\ I = {} => LastOf(I) = 0
         /\ I # {} => LastOf(I) \in I /\ LastOf(I) \in 1 .. n
         /\ LastOf(I) \in 0 .. n
         /\ \A j \in I : j <= LastOf(I)
<1>1. CASE I = {}
  BY <1>1 DEF LastOf
<1>2. CASE I # {}
  <2> DEFINE K == {n - j : j \in I}
             m == Min(K)
  <2>1. K \subseteq Nat /\ K # {}
    <3>1. ASSUME NEW j \in I
          PROVE  n - j \in Nat
      <4>1. j \in 1 .. n
        OBVIOUS
      <4>2. QED
        BY ONLY <4>1, n \in Nat
    <3>2. QED
      BY <1>2, <3>1
  <2>2. m \in K /\ \A k \in K : m <= k
    <3> HIDE DEF K
    <3>1. QED
      BY <2>1, SmallestIn
  <2>3. PICK l \in I : m = n - l
    BY <2>2
  <2>4. \A j \in I : j <= l
    <3> SUFFICES ASSUME NEW j \in I
                 PROVE  j <= l
      OBVIOUS
    <3>1. n - j \in K
      OBVIOUS
    <3>2. n - l <= n - j
      BY <2>2, <2>3, <3>1
    <3>3. j \in Nat /\ l \in Nat
      OBVIOUS
    <3>4. QED
      BY <3>2, <3>3
  <2>5. Max(I) = CHOOSE x \in I : \A y \in I : x >= y
    BY DEF Max
  <2>6. Max(I) = l
    <3>1. \A x \in I : x \in Nat
      OBVIOUS
    <3>2. \A y \in I : l >= y
      BY <2>4, <3>1
    <3>3. ASSUME NEW x \in I, \A y \in I : x >= y
          PROVE  x = l
      <4>1. x >= l /\ l >= x /\ x \in Nat /\ l \in Nat
        BY <3>1, <3>2, <3>3
      <4>2. QED
        BY <4>1
    <3> HIDE DEF K, m
    <3>4. QED
      BY <2>5, <3>2, <3>3
  <2>7. QED
    BY <1>2, <2>4, <2>6 DEF LastOf
<1>3. QED
  BY <1>1, <1>2

ForName(env, name) == {i \in 1 .. Len(env) : Variable[env[i].name] = Variable[name]}

(* The last entry for a variable is at the last of the places that have    *)
(* its name.                                                               *)
LEMMA LastForIs ==
  ASSUME NEW S, NEW env \in Seq(S), NEW name
  PROVE  /\ LastFor(env, name) = LastOf(ForName(env, name))
         /\ LastFor(env, name) \in 0 .. Len(env)
<1>1. LastFor(env, name) = LastOf(ForName(env, name))
  BY DEF LastFor, SelectLastInSeq, LastOf, ForName
<1>2. Len(env) \in Nat /\ ForName(env, name) \subseteq 1 .. Len(env)
  BY DEF ForName
<1>3. QED
  BY <1>1, <1>2, LargestIn

OwnConfig(r) ==
  LET i == LastFor(r.env, "WINE_D3D_CONFIG") IN IF i = 0 THEN <<>> ELSE r.env[i].value

(* WINE_D3D_CONFIG of a resolution is the renderer's option and then those *)
(* of its own entry that name no renderer.                                 *)
LEMMA ConfigType ==
  ASSUME NEW r \in Resolved
  PROVE  /\ OwnConfig(r) \in Seq(Word)
         /\ Wined3dConfig(r) \in Seq(FinalWords)
         /\ Wined3dConfig(r) = <<Option(r.scalars["wined3d"].value)>>
              \o Selected(OwnConfig(r), {k \in DOMAIN OwnConfig(r) : OwnConfig(r)[k] \notin RendererOptions})
<1> DEFINE i == LastFor(r.env, "WINE_D3D_CONFIG")
           own == OwnConfig(r)
           I == {k \in DOMAIN own : own[k] \notin RendererOptions}
           o == Option(r.scalars["wined3d"].value)
<1>1. r.env \in Seq(EnvItems)
  BY DEF Resolved, Resolutions
<1>2. i \in 0 .. Len(r.env)
  BY <1>1, LastForIs
<1>3. own = IF i = 0 THEN <<>> ELSE r.env[i].value
  BY DEF OwnConfig
<1>4. Wined3dConfig(r) = <<o>> \o Selected(own, I)
  BY Zenon DEF Wined3dConfig, OwnConfig
<1> HIDE DEF i, own
<1>5. own \in Seq(Word)
  <2>1. CASE i = 0
    BY <1>3, <2>1, Joining!EmptyInSeq, Zenon
  <2>2. CASE i # 0
    <3>1. i \in 1 .. Len(r.env)
      BY <1>2, <2>2
    <3>2. r.env[i] \in EnvItems
      BY <1>1, <3>1
    <3>3. r.env[i].value \in AnyText
      BY <3>2 DEF EnvItems
    <3>4. QED
      BY <1>3, <2>2, <3>3 DEF AnyText
  <2>3. QED
    BY <2>1, <2>2
<1>6. Selected(own, I) \in Seq(Word)
  <2> HIDE DEF I
  <2>1. QED
    BY <1>5, SelectedType
<1>7. o \in FinalWords /\ Word \subseteq FinalWords
  <2>1. "wined3d" \in Scalars
    BY RulesAssumption
  <2>2. r.scalars["wined3d"].value \in Word
    BY <2>1, ScalarType
  <2>3. QED
    BY <2>2, Zenon DEF FinalWords
<1> HIDE DEF o, I
<1>8. Selected(own, I) \in Seq(FinalWords)
  BY <1>6, <1>7, SeqSub
<1>9. <<o>> \o Selected(own, I) \in Seq(FinalWords)
  BY <1>7, <1>8
<1>10. QED
  BY <1>4, <1>5, <1>9 DEF own, o, I

FinalPairs == [name : Names, value : Seq(FinalWords)]

(* A resolution that sets a renderer gets one entry for WINE_D3D_CONFIG,   *)
(* with that rule's origin; another gets none.                             *)
LEMMA DerivedConfigType ==
  ASSUME NEW r \in Resolved
  PROVE  /\ DerivedConfig(r) \in Seq(FinalItems)
         /\ ~Said(r, "wined3d") => DerivedConfig(r) = <<>>
         /\ Said(r, "wined3d") =>
              /\ Len(DerivedConfig(r)) = 1
              /\ DerivedConfig(r)[1] = FinalEntry(ConfigEntry(r), r.scalars["wined3d"].by)
<1> DEFINE by == r.scalars["wined3d"].by
           es == <<ConfigEntry(r)>>
<1>1. "wined3d" \in Scalars /\ "WINE_D3D_CONFIG" \in Names
  BY RulesAssumption DEF OwnVariables
<1>2. by \in Origins
  BY <1>1, ScalarType
<1>3. ConfigEntry(r) \in FinalPairs
  <2>1. Wined3dConfig(r) \in Seq(FinalWords)
    BY ConfigType
  <2> DEFINE v == Wined3dConfig(r)
  <2> HIDE DEF v
  <2>2. ConfigEntry(r) = [name |-> "WINE_D3D_CONFIG", value |-> v]
    BY DEF ConfigEntry, v
  <2>3. v \in Seq(FinalWords)
    BY <2>1 DEF v
  <2>4. QED
    BY <1>1, <2>2, <2>3 DEF FinalPairs
<1>4. DerivedConfig(r) = IF ~Said(r, "wined3d") THEN <<>> ELSE Derived(es, by)
  BY DEF DerivedConfig, ConfigEntry
<1>5. es \in Seq(FinalPairs) /\ Len(es) = 1 /\ es[1] = ConfigEntry(r)
  BY <1>3
<1> HIDE DEF by, es
<1>6. /\ Derived(es, by) \in Seq(FinalItems) /\ Len(Derived(es, by)) = Len(es)
      /\ \A i \in 1 .. Len(es) : Derived(es, by)[i] = FinalEntry(es[i], by)
  BY <1>2, <1>5, DerivedType DEF FinalPairs
<1>7. <<>> \in Seq(FinalItems)
  BY Joining!EmptyInSeq
<1>8. Len(Derived(es, by)) = 1 /\ Derived(es, by)[1] = FinalEntry(ConfigEntry(r), by)
  BY <1>5, <1>6
<1>9. CASE Said(r, "wined3d")
  BY <1>4, <1>6, <1>8, <1>9 DEF by
<1>10. CASE ~Said(r, "wined3d")
  <2>1. DerivedConfig(r) = <<>>
    BY <1>4, <1>10
  <2>2. DerivedConfig(r) \in Seq(FinalItems)
    BY <1>7, <2>1, Zenon
  <2>3. QED
    BY <1>10, <2>1, <2>2, Zenon
<1>11. QED
  BY <1>9, <1>10

(* The HUD is three variables, in this order.                              *)
LEMMA MetalHudEnvType ==
  ASSUME NEW on
  PROVE  /\ MetalHudEnv(on) \in Seq(FinalPairs) /\ Len(MetalHudEnv(on)) = 3
         /\ MetalHudEnv(on)[1].name = "MTL_HUD_ENABLED"
         /\ MetalHudEnv(on)[2].name = "MTL_HUD_ALIGNMENT"
         /\ MetalHudEnv(on)[3].name = "MTL_HUD_ELEMENTS"
<1> DEFINE a == IF on THEN <<"1">> ELSE <<>>
           b == IF on THEN <<"28">> ELSE <<>>
           c == IF on THEN <<"device,...,client">> ELSE <<>>
           x == [name |-> "MTL_HUD_ENABLED", value |-> a]
           y == [name |-> "MTL_HUD_ALIGNMENT", value |-> b]
           z == [name |-> "MTL_HUD_ELEMENTS", value |-> c]
<1>1. {"MTL_HUD_ENABLED", "MTL_HUD_ALIGNMENT", "MTL_HUD_ELEMENTS"} \subseteq Names
  BY RulesAssumption DEF OwnVariables
<1>2. <<"1">> \in Seq(FinalWords) /\ <<"28">> \in Seq(FinalWords)
      /\ <<"device,...,client">> \in Seq(FinalWords)
  <2>1. "1" \in FinalWords /\ "28" \in FinalWords /\ "device,...,client" \in FinalWords
    BY Zenon DEF FinalWords
  <2>2. \A w \in FinalWords : <<w>> \in Seq(FinalWords)
    OBVIOUS
  <2>3. QED
    BY <2>1, <2>2, Zenon
<1>3. <<>> \in Seq(FinalWords)
  BY Joining!EmptyInSeq
<1>4. a \in Seq(FinalWords) /\ b \in Seq(FinalWords) /\ c \in Seq(FinalWords)
  BY <1>2, <1>3, Zenon
<1>5. MetalHudEnv(on) = <<x, y, z>>
  BY Zenon DEF MetalHudEnv
<1> HIDE DEF a, b, c
<1>6. x \in FinalPairs /\ y \in FinalPairs /\ z \in FinalPairs
  BY <1>1, <1>4 DEF FinalPairs
<1>7. x.name = "MTL_HUD_ENABLED" /\ y.name = "MTL_HUD_ALIGNMENT" /\ z.name = "MTL_HUD_ELEMENTS"
  OBVIOUS
<1> HIDE DEF x, y, z
<1>8. QED
  BY <1>5, <1>6, <1>7

(* A resolution that sets the HUD gets its three entries, with that rule's *)
(* origin; another gets none.                                              *)
LEMMA DerivedHudType ==
  ASSUME NEW r \in Resolved
  PROVE  /\ DerivedHud(r) \in Seq(FinalItems)
         /\ ~Said(r, "metal_hud") => DerivedHud(r) = <<>>
         /\ Said(r, "metal_hud") =>
              /\ Len(DerivedHud(r)) = 3
              /\ \A i \in 1 .. 3 : DerivedHud(r)[i] =
                   FinalEntry(MetalHudEnv(r.scalars["metal_hud"].value = "true")[i],
                              r.scalars["metal_hud"].by)
<1> DEFINE by == r.scalars["metal_hud"].by
           on == r.scalars["metal_hud"].value = "true"
           es == MetalHudEnv(on)
<1>1. "metal_hud" \in Scalars
  BY RulesAssumption
<1>2. by \in Origins
  BY <1>1, ScalarType
<1>3. es \in Seq(FinalPairs) /\ Len(es) = 3
  BY MetalHudEnvType
<1>4. DerivedHud(r) = IF ~Said(r, "metal_hud") THEN <<>> ELSE Derived(es, by)
  BY DEF DerivedHud
<1> HIDE DEF by, es, on
<1>6. /\ Derived(es, by) \in Seq(FinalItems) /\ Len(Derived(es, by)) = Len(es)
      /\ \A i \in 1 .. Len(es) : Derived(es, by)[i] = FinalEntry(es[i], by)
  BY <1>2, <1>3, DerivedType DEF FinalPairs
<1>7. <<>> \in Seq(FinalItems)
  BY Joining!EmptyInSeq
<1>8. Len(Derived(es, by)) = 3 /\ \A i \in 1 .. 3 : Derived(es, by)[i] = FinalEntry(es[i], by)
  BY <1>3, <1>6
<1>9. CASE Said(r, "metal_hud")
  <2>1. DerivedHud(r) = Derived(es, by)
    BY <1>4, <1>9
  <2>2. DerivedHud(r) \in Seq(FinalItems) /\ Len(DerivedHud(r)) = 3
        /\ \A i \in 1 .. 3 : DerivedHud(r)[i] = FinalEntry(es[i], by)
    BY <1>6, <1>8, <2>1
  <2>3. QED
    BY <1>9, <2>2, Zenon DEF by, es, on
<1>10. CASE ~Said(r, "metal_hud")
  <2>1. DerivedHud(r) = <<>>
    BY <1>4, <1>10
  <2>2. DerivedHud(r) \in Seq(FinalItems)
    BY <1>7, <2>1, Zenon
  <2>3. QED
    BY <1>10, <2>1, <2>2, Zenon
<1>11. QED
  BY <1>9, <1>10

(* The entry for WINE_D3D_CONFIG comes after all those of the rules.       *)
LEMMA AllEnvType ==
  ASSUME NEW r \in Resolved
  PROVE  /\ r.env \in Seq(FinalItems) /\ r.hudAt \in 0 .. Len(r.env)
         /\ AllEnv(r) \in Seq(FinalItems)
         /\ Len(AllEnv(r)) = Len(r.env) + Len(DerivedConfig(r))
         /\ \A i \in 1 .. Len(r.env) : AllEnv(r)[i] = r.env[i]
         /\ \A i \in 1 .. Len(DerivedConfig(r)) : AllEnv(r)[Len(r.env) + i] = DerivedConfig(r)[i]
<1> DEFINE env == r.env
           c == DerivedConfig(r)
<1>1. env \in Seq(EnvItems) /\ r.hudAt \in Nat /\ r.hudAt <= Len(env)
  BY DEF Resolved, Resolutions
<1>2. EnvItems \subseteq FinalItems
  <2>1. Word \subseteq FinalWords
    BY Zenon DEF FinalWords
  <2>2. AnyText \subseteq Seq(FinalWords)
    BY <2>1, SeqSub, Zenon DEF AnyText
  <2>3. QED
    BY <2>2 DEF EnvItems, FinalItems
<1> HIDE DEF env
<1>3. env \in Seq(FinalItems)
  BY <1>1, <1>2, SeqSub
<1>4. c \in Seq(FinalItems)
  BY DerivedConfigType
<1> HIDE DEF c
<1>5. /\ env \o c \in Seq(FinalItems) /\ Len(env \o c) = Len(env) + Len(c)
      /\ \A i \in 1 .. Len(env) : (env \o c)[i] = env[i]
      /\ \A i \in 1 .. Len(c) : (env \o c)[Len(env) + i] = c[i]
  BY <1>3, <1>4
<1>6. r.hudAt \in 0 .. Len(env)
  BY <1>1
<1>7. QED
  BY <1>3, <1>5, <1>6 DEF AllEnv, env, c

(* The entries in the end: those of the rules up to where the HUD goes,    *)
(* the HUD's, and the others, of which the renderer's is the last.         *)
LEMMA FinalEnvIs ==
  ASSUME NEW r \in Resolved
  PROVE  LET n == Len(AllEnv(r))
             h == r.hudAt
             l == Len(DerivedHud(r))
         IN /\ n \in Nat /\ h \in 0 .. n /\ l \in Nat
            /\ FinalEnv(r) \in Seq(FinalItems)
            /\ Len(FinalEnv(r)) = n + l
            /\ \A i \in 1 .. h : FinalEnv(r)[i] = AllEnv(r)[i]
            /\ \A i \in 1 .. l : FinalEnv(r)[h + i] = DerivedHud(r)[i]
            /\ \A i \in h + 1 .. n : FinalEnv(r)[l + i] = AllEnv(r)[i]
<1> DEFINE all == AllEnv(r)
           n == Len(all)
           h == r.hudAt
           hud == DerivedHud(r)
           l == Len(hud)
           a == SubSeq(all, 1, h)
           b == SubSeq(all, h + 1, n)
           f == FinalEnv(r)
<1>1. all \in Seq(FinalItems) /\ h \in 0 .. n /\ n \in Nat
  <2>1. /\ r.env \in Seq(FinalItems) /\ h \in 0 .. Len(r.env) /\ all \in Seq(FinalItems)
        /\ n = Len(r.env) + Len(DerivedConfig(r))
    BY AllEnvType
  <2>2. DerivedConfig(r) \in Seq(FinalItems)
    BY DerivedConfigType
  <2>3. Len(r.env) \in Nat /\ Len(DerivedConfig(r)) \in Nat
    BY <2>1, <2>2
  <2> HIDE DEF all, h
  <2>4. QED
    BY <2>1, <2>3
<1>2. hud \in Seq(FinalItems)
  BY DerivedHudType
<1>3. f = (a \o hud) \o b
  BY DEF FinalEnv
<1> HIDE DEF all, h, hud, f
<1>4. a \in Seq(FinalItems) /\ Len(a) = h /\ \A i \in 1 .. h : a[i] = all[i]
  <2>1. 1 \in 1 .. Len(all) + 1 /\ h \in 1 - 1 .. Len(all)
    BY <1>1
  <2>2. /\ a \in Seq(FinalItems) /\ Len(a) = h - 1 + 1
        /\ \A i \in 1 .. h - 1 + 1 : a[i] = all[1 + i - 1]
    BY <1>1, <2>1, PartIs
  <2>3. h - 1 + 1 = h /\ \A i \in 1 .. h : 1 + i - 1 = i
    BY <1>1
  <2> HIDE DEF a
  <2>4. QED
    BY <2>2, <2>3
<1>5. b \in Seq(FinalItems) /\ Len(b) = n - h /\ \A i \in 1 .. n - h : b[i] = all[h + i]
  <2> DEFINE x == h + 1
  <2>1. x \in 1 .. Len(all) + 1 /\ n \in x - 1 .. Len(all)
    BY <1>1
  <2>2. n - x + 1 = n - h /\ \A i \in 1 .. n - h : x + i - 1 = h + i
    BY <1>1
  <2> HIDE DEF x, n
  <2>3. /\ SubSeq(all, x, n) \in Seq(FinalItems) /\ Len(SubSeq(all, x, n)) = n - x + 1
        /\ \A i \in 1 .. n - x + 1 : SubSeq(all, x, n)[i] = all[x + i - 1]
    BY <1>1, <2>1, PartIs
  <2>4. b = SubSeq(all, x, n)
    BY DEF x
  <2> HIDE DEF b
  <2>5. QED
    BY <2>2, <2>3, <2>4
<1> HIDE DEF a, b, n, l
<1>6. l \in Nat /\ l = Len(hud)
  BY <1>2 DEF l
<1> DEFINE ah == a \o hud
<1>7. ah \in Seq(FinalItems) /\ Len(ah) = h + l /\ (\A i \in 1 .. h : ah[i] = all[i])
      /\ \A i \in 1 .. l : ah[h + i] = hud[i]
  BY <1>1, <1>2, <1>4, <1>6
<1> HIDE DEF ah
<1>8. f = ah \o b
  BY <1>3 DEF ah
<1>9. f \in Seq(FinalItems) /\ Len(f) = (h + l) + (n - h)
      /\ (\A i \in 1 .. h + l : f[i] = ah[i])
      /\ \A i \in 1 .. n - h : f[(h + l) + i] = b[i]
  <2>1. ah \in Seq(FinalItems) /\ b \in Seq(FinalItems)
    BY <1>5, <1>7
  <2>2. /\ ah \o b \in Seq(FinalItems) /\ Len(ah \o b) = Len(ah) + Len(b)
        /\ \A i \in 1 .. Len(ah) : (ah \o b)[i] = ah[i]
        /\ \A i \in 1 .. Len(b) : (ah \o b)[Len(ah) + i] = b[i]
    BY ONLY <2>1
  <2>3. Len(ah) = h + l /\ Len(b) = n - h
    BY <1>5, <1>7
  <2>4. QED
    BY ONLY <2>2, <2>3, <1>8, Zenon
<1>10. Len(f) = n + l
  BY <1>1, <1>6, <1>9
<1>11. \A i \in 1 .. h : f[i] = all[i]
  <2>1. \A i \in 1 .. h : i \in 1 .. h + l
    BY <1>1, <1>6
  <2>2. QED
    BY <1>7, <1>9, <2>1
<1>12. \A i \in 1 .. l : f[h + i] = hud[i]
  <2>1. \A i \in 1 .. l : h + i \in 1 .. h + l
    BY <1>1, <1>6
  <2>2. QED
    BY <1>7, <1>9, <2>1
<1>13. \A i \in h + 1 .. n : f[l + i] = all[i]
  <2> SUFFICES ASSUME NEW i \in h + 1 .. n
               PROVE  f[l + i] = all[i]
    OBVIOUS
  <2> DEFINE j == i - h
  <2>1. j \in 1 .. n - h /\ (h + l) + j = l + i /\ h + j = i
    BY <1>1, <1>6
  <2> HIDE DEF j
  <2>2. QED
    BY <1>5, <1>9, <2>1
<1>14. QED
  BY <1>1, <1>6, <1>9, <1>10, <1>11, <1>12, <1>13 DEF n, l, all, h, hud, f

(* A place is its three bits, the first the heaviest. *)
LEMMA PlaceIsThreeBits ==
  ASSUME NEW e, NEW f
  PROVE  LET names(x) == x.rule.exe # AnyExe
             own(x) == x.source.text # "built-in"
             pinned(x) == Pinned(x.rule)
         IN /\ Place(e) \in 0 .. 7
            /\ Place(e) > Place(f) <=>
                 \/ names(e) /\ ~names(f)
                 \/ /\ names(e) <=> names(f)
                    /\ \/ own(e) /\ ~own(f)
                       \/ (own(e) <=> own(f)) /\ pinned(e) /\ ~pinned(f)
            /\ Place(e) = Place(f) <=>
                 /\ names(e) <=> names(f)
                 /\ own(e) <=> own(f)
                 /\ pinned(e) <=> pinned(f)
BY DEF Place

(* Of two entries of a table, does the first go behind the second?         *)
Follows(t, i, j) == Place(t[i]) > Place(t[j]) \/ (Place(t[i]) = Place(t[j]) /\ i > j)

(* Entries of a table in the order of their places and positions: those of *)
(* the positions in H that have one of the first q places.                 *)
IsRanked(c, t, H, q, at) ==
  /\ Len(c) \in Nat
  /\ \A k \in 1 .. Len(c) :
       at[k] \in H /\ at[k] \in Nat /\ Place(t[at[k]]) < q /\ c[k] = t[at[k]]
  /\ \A k, l \in 1 .. Len(c) : k < l => Follows(t, at[l], at[k])
  /\ \A i \in H : Place(t[i]) < q => \E k \in 1 .. Len(c) : at[k] = i

Placed(t, H, q) == {i \in H : Place(t[i]) = q}

(* The next place goes behind those before it.                             *)
LEMMA RankedMore ==
  ASSUME NEW S, NEW t \in Seq(S), NEW H, H \subseteq 1 .. Len(t), NEW q \in Nat,
         NEW b \in Seq(S), NEW at1, IsRanked(b, t, H, q, at1),
         NEW c \in Seq(S), NEW at2, IsPlaced(c, t, Placed(t, H, q), at2)
  PROVE  \E at : IsRanked(b \o c, t, H, q + 1, at)
<1> DEFINE n == Len(b)
           m == Len(c)
           d == b \o c
           at == [k \in 1 .. n + m |-> IF k <= n THEN at1[k] ELSE at2[k - n]]
<1>1. n \in Nat /\ m \in Nat /\ Len(d) = n + m
      /\ (\A k \in 1 .. n : d[k] = b[k])
      /\ \A k \in 1 .. m : d[n + k] = c[k]
  OBVIOUS
<1>2. \A i : Place(t[i]) \in Nat
  BY DEF Place
<1>3. \A k \in 1 .. n : at1[k] \in H /\ at1[k] \in Nat /\ Place(t[at1[k]]) < q /\ b[k] = t[at1[k]]
  BY DEF IsRanked
<1>4. \A k \in 1 .. m : at2[k] \in H /\ at2[k] \in Nat /\ Place(t[at2[k]]) = q /\ c[k] = t[at2[k]]
  BY DEF IsPlaced, Placed
<1> HIDE DEF n, m, d
<1>5. /\ \A k \in 1 .. n : at[k] = at1[k]
      /\ \A k \in 1 .. m : at[n + k] = at2[k]
  BY <1>1
<1> HIDE DEF at
<1>6. ASSUME NEW k \in 1 .. n + m
      PROVE  k \in 1 .. n \/ \E j \in 1 .. m : k = n + j
  <2>1. CASE k > n
    <3>1. k - n \in 1 .. m /\ k = n + (k - n)
      BY <1>1, <2>1
    <3>2. QED
      BY <3>1
  <2>2. QED
    BY <1>1, <2>1
<1>7. ASSUME NEW k \in 1 .. n + m
      PROVE  at[k] \in H /\ at[k] \in Nat /\ Place(t[at[k]]) < q + 1 /\ d[k] = t[at[k]]
  <2>0. \A x \in Nat : x < q \/ x = q => x < q + 1
    OBVIOUS
  <2>1. CASE k \in 1 .. n
    <3>1. at[k] = at1[k] /\ d[k] = b[k]
      BY <1>1, <1>5, <2>1
    <3>2. at1[k] \in H /\ at1[k] \in Nat /\ Place(t[at1[k]]) < q /\ b[k] = t[at1[k]]
      BY <1>3, <2>1
    <3>3. QED
      BY <1>2, <2>0, <3>1, <3>2
  <2>2. ASSUME NEW j \in 1 .. m, k = n + j
        PROVE  at[k] \in H /\ at[k] \in Nat /\ Place(t[at[k]]) < q + 1 /\ d[k] = t[at[k]]
    <3>1. at[k] = at2[j] /\ d[k] = c[j]
      BY <1>1, <1>5, <2>2
    <3>2. at2[j] \in H /\ at2[j] \in Nat /\ Place(t[at2[j]]) = q /\ c[j] = t[at2[j]]
      BY <1>4, <2>2
    <3>3. QED
      BY <1>2, <2>0, <3>1, <3>2
  <2>3. QED
    BY <1>6, <2>1, <2>2
<1>8. ASSUME NEW k \in 1 .. n + m, NEW l \in 1 .. n + m, k < l
      PROVE  Follows(t, at[l], at[k])
  <2>1. CASE l \in 1 .. n
    <3>1. k \in 1 .. n
      BY <1>1, <1>8, <2>1
    <3>2. Follows(t, at1[l], at1[k])
      BY <1>8, <2>1, <3>1 DEF IsRanked, n
    <3>3. QED
      BY <1>5, <2>1, <3>1, <3>2
  <2>2. ASSUME NEW j \in 1 .. m, l = n + j
        PROVE  Follows(t, at[l], at[k])
    <3>1. CASE k \in 1 .. n
      <4>1. Place(t[at1[k]]) < q /\ Place(t[at2[j]]) = q
        BY <1>3, <1>4, <3>1
      <4>2. Place(t[at2[j]]) > Place(t[at1[k]])
        BY <1>2, <4>1
      <4>3. at[l] = at2[j] /\ at[k] = at1[k]
        BY <1>5, <2>2, <3>1
      <4>4. QED
        BY <4>2, <4>3 DEF Follows
    <3>2. ASSUME NEW i \in 1 .. m, k = n + i
          PROVE  Follows(t, at[l], at[k])
      <4>1. i < j
        BY <1>1, <1>8, <2>2, <3>2
      <4>2. at2[i] < at2[j]
        BY <4>1 DEF IsPlaced, m
      <4>3. Place(t[at2[j]]) = Place(t[at2[i]]) /\ at2[i] \in Nat /\ at2[j] \in Nat
        BY <1>4
      <4>4. at2[j] > at2[i]
        BY <4>2, <4>3
      <4>5. at[l] = at2[j] /\ at[k] = at2[i]
        BY <1>5, <2>2, <3>2
      <4>6. QED
        BY <4>3, <4>4, <4>5 DEF Follows
    <3>3. QED
      BY <1>6, <3>1, <3>2
  <2>3. QED
    BY <1>6, <2>1, <2>2
<1>9. ASSUME NEW i \in H, Place(t[i]) < q + 1
      PROVE  \E k \in 1 .. n + m : at[k] = i
  <2>1. CASE Place(t[i]) < q
    <3>1. PICK k \in 1 .. n : at1[k] = i
      BY <2>1 DEF IsRanked, n
    <3>2. k \in 1 .. n + m
      BY <1>1
    <3>3. QED
      BY <1>5, <3>1, <3>2
  <2>2. CASE Place(t[i]) = q
    <3>1. i \in Placed(t, H, q) /\ i \in 1 .. Len(t)
      BY <2>2 DEF Placed
    <3>2. PICK k \in 1 .. m : at2[k] = i
      BY <3>1 DEF IsPlaced, m
    <3>3. n + k \in 1 .. n + m
      BY <1>1
    <3>4. QED
      BY <1>5, <3>2, <3>3
  <2>3. QED
    BY <1>2, <1>9, <2>1, <2>2
<1>10. Len(d) = n + m /\ Len(d) \in Nat
  BY <1>1
<1>11. IsRanked(d, t, H, q + 1, at)
  BY <1>7, <1>8, <1>9, <1>10 DEF IsRanked
<1>12. QED
  BY <1>11 DEF d

EnvItem(e, m) ==
  [name |-> e.rule.env[m].name, value |-> e.rule.env[m].value,
   from |-> Origin(e), default |-> EnvIsDefault(Origin(e))]
EnvCount(e) == Len(e.rule.env)

(* Each entry of a rule for the environment, with its origin and whether   *)
(* it is a default.                                                        *)
LEMMA EnvOfIs ==
  ASSUME NEW e \in TableEntries
  PROVE  /\ EnvOf(e) \in Seq(EnvItems) /\ Len(EnvOf(e)) = EnvCount(e) /\ EnvCount(e) \in Nat
         /\ \A m \in 1 .. EnvCount(e) : EnvOf(e)[m] = EnvItem(e, m)
<1> DEFINE env == e.rule.env
<1>1. env \in Seq([name : Names, value : AnyText])
  BY RuleType
<1>2. EnvOf(e) = [i \in DOMAIN env |-> EnvItem(e, i)]
  BY Zenon DEF EnvOf, EnvItem
<1> HIDE DEF env
<1>3. DOMAIN env = 1 .. Len(env) /\ Len(env) \in Nat
  BY <1>1
<1>4. \A m \in 1 .. Len(env) : EnvOf(e)[m] = EnvItem(e, m)
  BY <1>2, <1>3
<1>5. EnvCount(e) = Len(env)
  BY DEF EnvCount, env
<1>6. EnvOf(e) \in Seq(EnvItems) /\ Len(EnvOf(e)) = EnvCount(e)
  BY EnvOfType DEF EnvCount
<1>7. QED
  BY <1>3, <1>4, <1>5, <1>6

(* The entries of the first n rules, one after another: entry i is the     *)
(* at[i]-th of rule of[i].                                                 *)
IsListed(env, c, n, of, at) ==
  /\ Len(env) \in Nat
  /\ \A i \in 1 .. Len(env) :
       of[i] \in 1 .. n /\ at[i] \in 1 .. EnvCount(c[of[i]]) /\ env[i] = EnvItem(c[of[i]], at[i])
  /\ \A i, j \in 1 .. Len(env) : i < j => of[i] < of[j] \/ (of[i] = of[j] /\ at[i] < at[j])
  /\ \A k \in 1 .. n : \A m \in 1 .. EnvCount(c[k]) :
       \E i \in 1 .. Len(env) : of[i] = k /\ at[i] = m

(* Folding one rule more appends its entries to the environment: each      *)
(* entry there is of one rule and one place in it, in their order.         *)
LEMMA ListedMore ==
  ASSUME NEW c, NEW n \in Nat, NEW env \in Seq(EnvItems), NEW of1, NEW at1,
         IsListed(env, c, n, of1, at1), c[n + 1] \in TableEntries
  PROVE  \E of, at : /\ IsListed(env \o EnvOf(c[n + 1]), c, n + 1, of, at)
                     /\ \A i \in 1 .. Len(env) : of[i] = of1[i]
                     /\ \A i \in 1 .. Len(env \o EnvOf(c[n + 1])) : i > Len(env) => of[i] = n + 1
<1> DEFINE e == c[n + 1]
           new == EnvOf(e)
           a == Len(env)
           b == EnvCount(e)
           d == env \o new
           of == [i \in 1 .. a + b |-> IF i <= a THEN of1[i] ELSE n + 1]
           at == [i \in 1 .. a + b |-> IF i <= a THEN at1[i] ELSE i - a]
<1>1. /\ new \in Seq(EnvItems) /\ Len(new) = b /\ b \in Nat
      /\ \A m \in 1 .. b : new[m] = EnvItem(e, m)
  BY EnvOfIs
<1> HIDE DEF new, b
<1>2. a \in Nat /\ Len(d) = a + b
      /\ (\A i \in 1 .. a : d[i] = env[i])
      /\ \A i \in 1 .. b : d[a + i] = new[i]
  <2>1. Len(env) \in Nat /\ Len(d) = Len(env) + Len(new)
        /\ (\A i \in 1 .. Len(env) : d[i] = env[i])
        /\ \A i \in 1 .. Len(new) : d[Len(env) + i] = new[i]
    BY <1>1
  <2>2. QED
    BY <1>1, <2>1
<1> HIDE DEF d, a
<1>3. /\ \A i \in 1 .. a : of[i] = of1[i] /\ at[i] = at1[i]
      /\ \A i \in 1 .. b : of[a + i] = n + 1 /\ at[a + i] = i
  BY <1>1, <1>2
<1> HIDE DEF of, at
<1>4. \A i \in 1 .. a + b : i \in 1 .. a \/ \E m \in 1 .. b : i = a + m
  <2> SUFFICES ASSUME NEW i \in 1 .. a + b, i \notin 1 .. a
               PROVE  \E m \in 1 .. b : i = a + m
    OBVIOUS
  <2>1. i - a \in 1 .. b /\ i = a + (i - a)
    BY <1>1, <1>2
  <2>2. QED
    BY <2>1
<1>5. \A i \in 1 .. a : of1[i] \in 1 .. n /\ at1[i] \in 1 .. EnvCount(c[of1[i]])
                         /\ env[i] = EnvItem(c[of1[i]], at1[i])
  BY DEF IsListed, a
<1>6. ASSUME NEW i \in 1 .. a + b
      PROVE  of[i] \in 1 .. n + 1 /\ at[i] \in 1 .. EnvCount(c[of[i]]) /\ d[i] = EnvItem(c[of[i]], at[i])
  <2>1. CASE i \in 1 .. a
    <3>1. of[i] = of1[i] /\ at[i] = at1[i] /\ d[i] = env[i] /\ of1[i] \in 1 .. n
      BY <1>2, <1>3, <1>5, <2>1
    <3>2. of1[i] \in 1 .. n + 1
      BY <3>1
    <3>3. QED
      BY <1>5, <2>1, <3>1, <3>2
  <2>2. ASSUME NEW m \in 1 .. b, i = a + m
        PROVE  of[i] \in 1 .. n + 1 /\ at[i] \in 1 .. EnvCount(c[of[i]])
               /\ d[i] = EnvItem(c[of[i]], at[i])
    <3>1. of[i] = n + 1 /\ at[i] = m /\ d[i] = new[m]
      BY <1>2, <1>3, <2>2
    <3>2. n + 1 \in 1 .. n + 1 /\ m \in 1 .. EnvCount(c[n + 1]) /\ new[m] = EnvItem(c[n + 1], m)
      BY <1>1, <2>2 DEF b
    <3>3. QED
      BY <3>1, <3>2
  <2>3. QED
    BY <1>4, <2>1, <2>2
<1>7. ASSUME NEW i \in 1 .. a + b, NEW j \in 1 .. a + b, i < j
      PROVE  of[i] < of[j] \/ (of[i] = of[j] /\ at[i] < at[j])
  <2>1. CASE j \in 1 .. a
    <3>1. i \in 1 .. a
      BY <1>2, <1>7, <2>1
    <3>2. of1[i] < of1[j] \/ (of1[i] = of1[j] /\ at1[i] < at1[j])
      BY <1>7, <2>1, <3>1 DEF IsListed, a
    <3>3. QED
      BY <1>3, <2>1, <3>1, <3>2
  <2>2. ASSUME NEW m \in 1 .. b, j = a + m
        PROVE  of[i] < of[j] \/ (of[i] = of[j] /\ at[i] < at[j])
    <3>1. CASE i \in 1 .. a
      <4>1. of[i] = of1[i] /\ of1[i] \in 1 .. n /\ of[j] = n + 1
        BY <1>3, <1>5, <2>2, <3>1
      <4>2. QED
        BY <4>1
    <3>2. ASSUME NEW l \in 1 .. b, i = a + l
          PROVE  of[i] < of[j] \/ (of[i] = of[j] /\ at[i] < at[j])
      <4>1. of[i] = of[j] /\ at[i] = l /\ at[j] = m
        BY <1>3, <2>2, <3>2
      <4>2. l < m
        BY <1>2, <1>7, <2>2, <3>2
      <4>3. QED
        BY <4>1, <4>2
    <3>3. QED
      BY <1>4, <3>1, <3>2
  <2>3. QED
    BY <1>4, <2>1, <2>2
<1>8. ASSUME NEW k \in 1 .. n + 1, NEW m \in 1 .. EnvCount(c[k])
      PROVE  \E i \in 1 .. a + b : of[i] = k /\ at[i] = m
  <2>1. CASE k \in 1 .. n
    <3>1. PICK i \in 1 .. a : of1[i] = k /\ at1[i] = m
      BY <2>1 DEF IsListed, a
    <3>2. i \in 1 .. a + b
      BY <1>1, <1>2
    <3>3. QED
      BY <1>3, <3>1, <3>2
  <2>2. CASE k = n + 1
    <3>1. m \in 1 .. b
      BY <2>2 DEF b
    <3>2. a + m \in 1 .. a + b
      BY <1>1, <1>2, <3>1
    <3>3. QED
      BY <1>3, <2>2, <3>1, <3>2
  <2>3. QED
    BY <2>1, <2>2
<1>9. IsListed(d, c, n + 1, of, at)
  <2>1. Len(d) = a + b /\ Len(d) \in Nat
    BY <1>1, <1>2
  <2>2. \A i \in 1 .. Len(d) :
          of[i] \in 1 .. n + 1 /\ at[i] \in 1 .. EnvCount(c[of[i]]) /\ d[i] = EnvItem(c[of[i]], at[i])
    BY ONLY <1>6, <2>1
  <2>3. \A i, j \in 1 .. Len(d) : i < j => of[i] < of[j] \/ (of[i] = of[j] /\ at[i] < at[j])
    BY ONLY <1>7, <2>1
  <2>4. \A k \in 1 .. n + 1 : \A m \in 1 .. EnvCount(c[k]) :
          \E i \in 1 .. Len(d) : of[i] = k /\ at[i] = m
    BY ONLY <1>8, <2>1
  <2>5. QED
    BY ONLY <2>1, <2>2, <2>3, <2>4 DEF IsListed
<1>10. \A i \in 1 .. Len(d) : i > a => of[i] = n + 1
  BY <1>2, <1>3, <1>4
<1>11. QED
  BY <1>3, <1>9, <1>10 DEF d, a, new

Reduced == "FEX_X87REDUCEDPRECISION"

(* A rule with this exe and these env entries.                             *)
IsFor(rule, exe, env) ==
  "exe" \in DOMAIN rule /\ "env" \in DOMAIN rule /\ rule.exe = exe /\ rule.env = env

(* A new rule is for the exe it names and has no entries for the           *)
(* environment.                                                            *)
LEMMA NewIsFor ==
  ASSUME NEW exe
  PROVE  IsFor(NewRule(exe), exe, <<>>)
BY DEF NewRule, IsFor

(* A setting more leaves a rule's exe and its environment as they are.     *)
LEMMA SaysIsFor ==
  ASSUME NEW rule, NEW exe, NEW env, IsFor(rule, exe, env), NEW s, NEW word
  PROVE  IsFor(Gives(rule, s, word), exe, env)
BY DEF Gives, IsFor

(* A fingerprint more leaves a rule's exe and its environment as they are. *)
LEMMA PinsIsFor ==
  ASSUME NEW rule, NEW exe, NEW env, IsFor(rule, exe, env), NEW key, NEW text
  PROVE  IsFor(Pins(rule, key, text), exe, env)
BY DEF Pins, IsFor

(* What a rule for every process changes by default: one variable.         *)
IsDefault(rule) ==
  rule.exe = AnyExe => \A m \in 1 .. Len(rule.env) : rule.env[m].name = Reduced

(* A rule for every process has no entry for the environment but for       *)
(* FEX_X87REDUCEDPRECISION.                                                *)
LEMMA ForIsDefault ==
  ASSUME NEW rule, NEW exe, NEW env, IsFor(rule, exe, env), exe # AnyExe \/ Len(env) = 0
  PROVE  IsDefault(rule)
BY DEF IsFor, IsDefault

(* The rules for Chromium's processes are for the exe they were begun      *)
(* with.                                                                   *)
LEMMA BrowserIsFor ==
  ASSUME NEW rule, NEW exe, NEW env, IsFor(rule, exe, env)
  PROVE  \E e : IsFor(Browser(rule), exe, e)
<1> DEFINE b == Gives(Gives(rule, "dxgi", "dxmt"), "metal_hud", "false")
           e == <<[name |-> "MTL_HUD_ENABLED", value |-> <<"0">>]>>
           a == << <<"--in-process-gpu">> >>
<1>1. IsFor(b, exe, env)
  BY SaysIsFor
<1>2. Browser(rule) = [b EXCEPT !.arguments = a, !.env = e]
  BY DEF Browser
<1> HIDE DEF b, e, a
<1>3. IsFor(Browser(rule), exe, e)
  BY <1>1, <1>2 DEF IsFor
<1>4. QED
  BY <1>3

(* The rules every process gets have no entry for the environment but for  *)
(* FEX_X87REDUCEDPRECISION (builtin.rs).                                   *)
LEMMA DefaultsAre ==
  \A i \in 1 .. 8 : IsDefault(Defaults[i])
<1> DEFINE none == <<>>
<1>0. Len(none) = 0
  OBVIOUS
<1>1. IsFor(NewRule(AnyExe), AnyExe, none)
  BY NewIsFor
<1> HIDE DEF none
<1>2. ASSUME NEW s, NEW word
      PROVE  IsDefault(Turns(s, word))
  <2>1. IsFor(Turns(s, word), AnyExe, none)
    BY <1>1, SaysIsFor DEF Turns
  <2>2. QED
    BY <1>0, <2>1, ForIsDefault
<1>3. IsDefault(FexReducedX87Precision)
  <2> DEFINE env == <<[name |-> "FEX_X87REDUCEDPRECISION", value |-> <<"1">>]>>
             new == NewRule(AnyExe)
  <2>1. FexReducedX87Precision = [new EXCEPT !.env = env]
    BY DEF FexReducedX87Precision
  <2>2. "env" \in DOMAIN new
    BY <1>1 DEF IsFor
  <2>3. Len(env) = 1 /\ env[1].name = Reduced
    BY DEF Reduced
  <2> HIDE DEF env, new
  <2>4. FexReducedX87Precision.env = env
    BY <2>1, <2>2
  <2>5. \A m \in 1 .. 1 : m = 1
    OBVIOUS
  <2>6. QED
    BY <2>3, <2>4, <2>5 DEF IsDefault
<1>4. IsDefault(NoMonoOrGecko)
  <2> DEFINE dlls == << <<"mscoree", ",", "mshtml", "=">> >>
             new == NewRule(AnyExe)
  <2>1. NoMonoOrGecko = [new EXCEPT !.dlls = dlls]
    BY DEF NoMonoOrGecko
  <2>2. IsFor(new, AnyExe, none)
    BY <1>1
  <2> HIDE DEF dlls, new
  <2>3. IsFor(NoMonoOrGecko, AnyExe, none)
    BY <2>1, <2>2 DEF IsFor
  <2>4. QED
    BY <1>0, <2>3, ForIsDefault
<1>5. /\ IsDefault(DxgiDxmt) /\ IsDefault(D3d9Mtld3d) /\ IsDefault(DpiAware) /\ IsDefault(Gcmouse)
      /\ IsDefault(OpenglEgl) /\ IsDefault(ForceNx)
  BY <1>2, Zenon DEF DxgiDxmt, D3d9Mtld3d, DpiAware, Gcmouse, OpenglEgl, ForceNx
<1>6. /\ Defaults[1] = DxgiDxmt /\ Defaults[2] = D3d9Mtld3d /\ Defaults[3] = DpiAware
      /\ Defaults[4] = Gcmouse /\ Defaults[5] = FexReducedX87Precision /\ Defaults[6] = OpenglEgl
      /\ Defaults[7] = ForceNx /\ Defaults[8] = NoMonoOrGecko
  BY DEF Defaults
<1>7. \A i \in 1 .. 8 : i = 1 \/ i = 2 \/ i = 3 \/ i = 4 \/ i = 5 \/ i = 6 \/ i = 7 \/ i = 8
  OBVIOUS
<1>8. QED
  BY <1>3, <1>4, <1>5, <1>6, <1>7, Zenon

(* Of the rules for known programs, one for every process would have no    *)
(* entry but for FEX_X87REDUCEDPRECISION (builtin.rs).                     *)
LEMMA ProgramsAre ==
  \A i \in 1 .. 7 : IsDefault(Programs[i])
<1>1. ASSUME NEW name, name # "*"
      PROVE  <<name>> # AnyExe /\ IsFor(Exe(name), <<name>>, <<>>)
  <2>1. <<name>> # AnyExe
    BY <1>1 DEF AnyExe
  <2>2. IsFor(Exe(name), <<name>>, <<>>)
    BY NewIsFor, Zenon DEF Exe
  <2>3. QED
    BY <2>1, <2>2
<1> DEFINE none == <<>>
           one(name) == <<name>>
<1>2. \A name : name # "*" => one(name) # AnyExe /\ IsFor(Exe(name), one(name), none)
  BY <1>1
<1> HIDE DEF none, one
<1>3. IsDefault(RockstarGamesLauncher)
  <2> DEFINE x == "Launcher.exe"
             a == Pins(Exe(x), "company", "Rockstar Games")
             b == Pins(a, "product", "Rockstar Games Launcher")
  <2>1. one(x) # AnyExe /\ IsFor(Exe(x), one(x), none)
    BY <1>2
  <2>2. IsFor(a, one(x), none)
    BY <2>1, PinsIsFor
  <2> HIDE DEF a
  <2>3. IsFor(b, one(x), none)
    BY <2>2, PinsIsFor
  <2> HIDE DEF b
  <2>4. IsFor(Gives(b, "dxgi", "wined3d"), one(x), none)
    BY <2>3, SaysIsFor
  <2>5. RockstarGamesLauncher = Gives(b, "dxgi", "wined3d")
    BY Zenon DEF RockstarGamesLauncher, a, b
  <2>6. QED
    BY <2>1, <2>4, <2>5, ForIsDefault
<1>4. IsDefault(SocialClubHelper)
  <2> DEFINE x == "SocialClubHelper.exe"
             a == Pins(Exe(x), "company", "Take-Two Interactive Software")
             b == Pins(a, "product", "Social Club UI")
  <2>1. one(x) # AnyExe /\ IsFor(Exe(x), one(x), none)
    BY <1>2
  <2>2. IsFor(a, one(x), none)
    BY <2>1, PinsIsFor
  <2> HIDE DEF a
  <2>3. IsFor(b, one(x), none)
    BY <2>2, PinsIsFor
  <2> HIDE DEF b
  <2>4. \E e : IsFor(Browser(b), one(x), e)
    BY <2>3, BrowserIsFor
  <2>5. SocialClubHelper = Browser(b)
    BY Zenon DEF SocialClubHelper, a, b
  <2>6. QED
    BY <2>1, <2>4, <2>5, ForIsDefault
<1>5. IsDefault(SteamWebHelper)
  <2> DEFINE x == "steamwebhelper.exe"
             a == Pins(Exe(x), "company", "Valve Corporation")
             b == Pins(a, "product", "Steam Client WebHelper")
  <2>1. one(x) # AnyExe /\ IsFor(Exe(x), one(x), none)
    BY <1>2
  <2>2. IsFor(a, one(x), none)
    BY <2>1, PinsIsFor
  <2> HIDE DEF a
  <2>3. IsFor(b, one(x), none)
    BY <2>2, PinsIsFor
  <2> HIDE DEF b
  <2>4. \E e : IsFor(Browser(b), one(x), e)
    BY <2>3, BrowserIsFor
  <2>5. SteamWebHelper = Browser(b)
    BY Zenon DEF SteamWebHelper, a, b
  <2>6. QED
    BY <2>1, <2>4, <2>5, ForIsDefault
<1>6. IsDefault(GtaIV)
  <2> DEFINE x == "GTAIV.exe"
             a == Pins(Exe(x), "company", "Rockstar Games")
             b == Pins(a, "product", "Grand Theft Auto IV")
             arguments == << <<"-availablevidmem 2048.0">> >>
  <2>1. one(x) # AnyExe /\ IsFor(Exe(x), one(x), none)
    BY <1>2
  <2>2. IsFor(a, one(x), none)
    BY <2>1, PinsIsFor
  <2> HIDE DEF a
  <2>3. IsFor(b, one(x), none)
    BY <2>2, PinsIsFor
  <2>4. GtaIV = [b EXCEPT !.arguments = arguments]
    BY Zenon DEF GtaIV, a, b
  <2> HIDE DEF b, arguments
  <2>5. IsFor(GtaIV, one(x), none)
    BY <2>3, <2>4 DEF IsFor
  <2>6. QED
    BY <2>1, <2>5, ForIsDefault
<1>7. IsDefault(Nostale)
  <2> DEFINE x == "NostaleClientX.exe"
             a == Pins(Exe(x), "company", "Entwell")
  <2>1. one(x) # AnyExe /\ IsFor(Exe(x), one(x), none)
    BY <1>2
  <2>2. IsFor(a, one(x), none)
    BY <2>1, PinsIsFor
  <2> HIDE DEF a
  <2>3. IsFor(Gives(a, "dpi_aware", "false"), one(x), none)
    BY <2>2, SaysIsFor
  <2>4. Nostale = Gives(a, "dpi_aware", "false")
    BY Zenon DEF Nostale, a
  <2>5. QED
    BY <2>1, <2>3, <2>4, ForIsDefault
<1>8. IsDefault(AgeOfEmpiresIIHD)
  <2> DEFINE x == "AoK HD.exe"
             a == Pins(Exe(x), "company", "Microsoft Corporation")
  <2>1. one(x) # AnyExe /\ IsFor(Exe(x), one(x), none)
    BY <1>2
  <2>2. IsFor(a, one(x), none)
    BY <2>1, PinsIsFor
  <2> HIDE DEF a
  <2>3. IsFor(Gives(a, "dpi_aware", "false"), one(x), none)
    BY <2>2, SaysIsFor
  <2>4. AgeOfEmpiresIIHD = Gives(a, "dpi_aware", "false")
    BY Zenon DEF AgeOfEmpiresIIHD, a
  <2>5. QED
    BY <2>1, <2>3, <2>4, ForIsDefault
<1>9. IsDefault(WorldOfWarcraft)
  <2> DEFINE x == "WoW.exe"
             a == Pins(Exe(x), "company", "Blizzard Entertainment")
             b == Pins(a, "product", "World of Warcraft")
             d == Pins(b, "original_filename", "WoW.exe")
  <2>1. one(x) # AnyExe /\ IsFor(Exe(x), one(x), none)
    BY <1>2
  <2>2. IsFor(a, one(x), none)
    BY <2>1, PinsIsFor
  <2> HIDE DEF a
  <2>3. IsFor(b, one(x), none)
    BY <2>2, PinsIsFor
  <2> HIDE DEF b
  <2>4. IsFor(d, one(x), none)
    BY <2>3, PinsIsFor
  <2> HIDE DEF d
  <2>5. IsFor(Gives(d, "large_address_aware", "true"), one(x), none)
    BY <2>4, SaysIsFor
  <2>6. WorldOfWarcraft = Gives(d, "large_address_aware", "true")
    BY Zenon DEF WorldOfWarcraft, a, b, d
  <2>7. QED
    BY <2>1, <2>5, <2>6, ForIsDefault
<1>10. /\ Programs[1] = RockstarGamesLauncher /\ Programs[2] = SocialClubHelper
       /\ Programs[3] = SteamWebHelper /\ Programs[4] = GtaIV /\ Programs[5] = Nostale
       /\ Programs[6] = AgeOfEmpiresIIHD /\ Programs[7] = WorldOfWarcraft
  BY DEF Programs
<1>11. \A i \in 1 .. 7 : i = 1 \/ i = 2 \/ i = 3 \/ i = 4 \/ i = 5 \/ i = 6 \/ i = 7
  OBVIOUS
<1>12. QED
  BY <1>3, <1>4, <1>5, <1>6, <1>7, <1>8, <1>9, <1>10, <1>11, Zenon

Drops(order) == order = <<Default>>

HasModule(e, m) == Contains(e.modules, m)

(* What some load orders say of module m: nothing, or this in the last.    *)
OrderIs(dlls, m, order) ==
  \/ Drops(order) /\ \A i \in 1 .. Len(dlls) : ~HasModule(dlls[i], m)
  \/ /\ ~Drops(order)
     /\ \E i \in 1 .. Len(dlls) :
          /\ HasModule(dlls[i], m) /\ dlls[i].order = order
          /\ \A j \in 1 .. Len(dlls) : HasModule(dlls[j], m) => j <= i

(* The modules left of an entry are those that are not taken out.          *)
LEMMA RestHas ==
  ASSUME NEW e \in DllItems, NEW modules, NEW m
  PROVE  HasModule(WithRest(e, modules), m) <=> HasModule(e, m) /\ ~Contains(modules, m)
<1> DEFINE s == e.modules
           I == {k \in DOMAIN s : ~Contains(modules, s[k])}
           rest == Rest(e, modules)
<1>1. s \in Seq(Word) /\ rest = Selected(s, I)
  BY DEF DllItems, AnyText, Rest
<1>2. DOMAIN s = 1 .. Len(s) /\ Len(s) \in Nat
  BY <1>1
<1>3. WithRest(e, modules).modules = rest
  <2>1. WithRest(e, modules) = [modules |-> rest, order |-> e.order, from |-> e.from]
    BY WithRestType
  <2> HIDE DEF rest
  <2>2. QED
    BY <2>1
<1> HIDE DEF s
<1>4. PICK at : IsPlaced(rest, s, I, at)
  <2> HIDE DEF I, rest
  <2>1. QED
    BY <1>1, SelectedInOrder
<1> HIDE DEF rest
<1>5. \A k \in 1 .. Len(rest) : at[k] \in 1 .. Len(s) /\ at[k] \in I /\ rest[k] = s[at[k]]
  BY <1>4 DEF IsPlaced
<1>6. \A i \in 1 .. Len(s) : i \in I => \E k \in 1 .. Len(rest) : at[k] = i
  BY <1>4 DEF IsPlaced
<1>7. ASSUME Contains(rest, m)
      PROVE  Contains(s, m) /\ ~Contains(modules, m)
  <2>1. PICK k \in 1 .. Len(rest) : rest[k] = m
    BY <1>7 DEF Contains
  <2>2. at[k] \in 1 .. Len(s) /\ s[at[k]] = m /\ at[k] \in I
    BY <1>5, <2>1
  <2>3. ~Contains(modules, m)
    BY <2>2
  <2>4. Contains(s, m)
    BY <2>2 DEF Contains
  <2>5. QED
    BY <2>3, <2>4
<1>8. ASSUME Contains(s, m), ~Contains(modules, m)
      PROVE  Contains(rest, m)
  <2>1. PICK i \in 1 .. Len(s) : s[i] = m
    BY <1>8 DEF Contains
  <2>2. i \in I
    BY <1>2, <1>8, <2>1
  <2>3. PICK k \in 1 .. Len(rest) : at[k] = i
    BY <1>6, <2>2
  <2>4. rest[k] = m
    BY <1>5, <2>1, <2>3
  <2>5. QED
    BY <2>4 DEF Contains
<1>9. QED
  BY <1>3, <1>7, <1>8 DEF HasModule, s

(* Entries that are dropped name no module that is left.                   *)
LEMMA KeptHas ==
  ASSUME NEW dlls \in Seq(DllItems), NEW modules
  PROVE  \E at :
           LET new == WithoutModules(dlls, modules)
           IN /\ Len(new) \in Nat
              /\ \A k \in 1 .. Len(new) : at[k] \in 1 .. Len(dlls) /\ new[k] = WithRest(dlls[at[k]], modules)
              /\ \A k, l \in 1 .. Len(new) : k < l => at[k] < at[l]
              /\ \A i \in 1 .. Len(dlls) : \A m :
                   HasModule(dlls[i], m) /\ ~Contains(modules, m) => \E k \in 1 .. Len(new) : at[k] = i
<1> DEFINE I == {i \in DOMAIN dlls : dlls[i].modules = <<>> \/ Rest(dlls[i], modules) # <<>>}
           kept == KeptDlls(dlls, modules)
           new == WithoutModules(dlls, modules)
<1>1. kept = Selected(dlls, I)
  BY DEF KeptDlls
<1>2. new = [i \in DOMAIN kept |-> WithRest(kept[i], modules)]
  BY WithoutIs
<1>3. \A i \in 1 .. Len(dlls) : \A m : HasModule(dlls[i], m) /\ ~Contains(modules, m) => i \in I
  <2> SUFFICES ASSUME NEW i \in 1 .. Len(dlls), NEW m,
                      HasModule(dlls[i], m), ~Contains(modules, m)
               PROVE  i \in I
    OBVIOUS
  <2> DEFINE e == dlls[i]
             rest == Rest(e, modules)
             none == <<>>
  <2>1. e \in DllItems /\ HasModule(e, m)
    OBVIOUS
  <2>2. HasModule(WithRest(e, modules), m)
    BY <2>1, RestHas
  <2>3. WithRest(e, modules) = [modules |-> rest, order |-> e.order, from |-> e.from]
    BY <2>1, WithRestType
  <2>4. Contains(rest, m)
    <3> HIDE DEF rest
    <3>1. WithRest(e, modules).modules = rest
      BY <2>3
    <3>2. QED
      BY <2>2, <3>1 DEF HasModule
  <2>5. Len(none) = 0
    OBVIOUS
  <2>6. rest # none
    <3> HIDE DEF rest, none
    <3>1. \E k \in 1 .. Len(rest) : rest[k] = m
      BY <2>4 DEF Contains
    <3>2. QED
      BY <2>5, <3>1
  <2>7. QED
    BY <2>6
<1>4. PICK at : IsPlaced(kept, dlls, I, at)
  <2> HIDE DEF I, kept
  <2>1. QED
    BY <1>1, SelectedInOrder
<1>5. kept \in Seq(DllItems)
  <2> HIDE DEF I, kept
  <2>1. QED
    BY <1>1, SelectedType
<1> HIDE DEF kept, new, I
<1>6. Len(kept) \in Nat /\ DOMAIN kept = 1 .. Len(kept)
  BY <1>5
<1>7. Len(new) = Len(kept) /\ \A k \in 1 .. Len(new) : new[k] = WithRest(kept[k], modules)
  BY <1>2, <1>6
<1>8. \A k \in 1 .. Len(kept) : at[k] \in 1 .. Len(dlls) /\ kept[k] = dlls[at[k]]
  BY <1>4 DEF IsPlaced
<1>9. \A k, l \in 1 .. Len(kept) : k < l => at[k] < at[l]
  BY <1>4 DEF IsPlaced
<1>10. \A i \in 1 .. Len(dlls) : i \in I => \E k \in 1 .. Len(kept) : at[k] = i
  BY <1>4 DEF IsPlaced
<1>11. \A k \in 1 .. Len(new) : at[k] \in 1 .. Len(dlls) /\ new[k] = WithRest(dlls[at[k]], modules)
  BY <1>7, <1>8
<1>12. \A i \in 1 .. Len(dlls) : \A m :
         HasModule(dlls[i], m) /\ ~Contains(modules, m) => \E k \in 1 .. Len(new) : at[k] = i
  BY <1>3, <1>7, <1>10
<1>13. QED
  BY <1>6, <1>7, <1>9, <1>11, <1>12 DEF new

(* Of a module that is taken out nothing is left, of another the same.     *)
LEMMA WithoutSays ==
  ASSUME NEW dlls \in Seq(DllItems), NEW modules, NEW m, NEW order, OrderIs(dlls, m, order)
  PROVE  LET new == WithoutModules(dlls, modules)
         IN /\ Contains(modules, m) => \A i \in 1 .. Len(new) : ~HasModule(new[i], m)
            /\ ~Contains(modules, m) => OrderIs(new, m, order)
<1> DEFINE new == WithoutModules(dlls, modules)
           out == Contains(modules, m)
<1>1. PICK at : /\ Len(new) \in Nat
                /\ \A k \in 1 .. Len(new) : at[k] \in 1 .. Len(dlls)
                                            /\ new[k] = WithRest(dlls[at[k]], modules)
                /\ \A k, l \in 1 .. Len(new) : k < l => at[k] < at[l]
                /\ \A i \in 1 .. Len(dlls) : \A x :
                     HasModule(dlls[i], x) /\ ~Contains(modules, x) => \E k \in 1 .. Len(new) : at[k] = i
  BY KeptHas
<1>2. \A i \in 1 .. Len(dlls) :
        HasModule(WithRest(dlls[i], modules), m) <=> HasModule(dlls[i], m) /\ ~out
  BY RestHas
<1>3. \A i \in 1 .. Len(dlls) : WithRest(dlls[i], modules).order = dlls[i].order
  <2> SUFFICES ASSUME NEW i \in 1 .. Len(dlls)
               PROVE  WithRest(dlls[i], modules).order = dlls[i].order
    OBVIOUS
  <2> DEFINE rest == Rest(dlls[i], modules)
             e == dlls[i]
  <2>1. e \in DllItems
    OBVIOUS
  <2>2. WithRest(e, modules) = [modules |-> rest, order |-> e.order, from |-> e.from]
    BY <2>1, WithRestType
  <2> HIDE DEF rest
  <2>3. QED
    BY <2>2
<1>4. \A i \in 1 .. Len(dlls) : HasModule(dlls[i], m) /\ ~out => \E k \in 1 .. Len(new) : at[k] = i
  BY <1>1
<1> HIDE DEF new, out
<1>5. \A k \in 1 .. Len(new) :
        /\ at[k] \in 1 .. Len(dlls)
        /\ HasModule(new[k], m) <=> HasModule(dlls[at[k]], m) /\ ~out
        /\ new[k].order = dlls[at[k]].order
  BY <1>1, <1>2, <1>3
<1>6. out => \A i \in 1 .. Len(new) : ~HasModule(new[i], m)
  BY <1>5
<1>7. ASSUME ~out
      PROVE  OrderIs(new, m, order)
  <2>1. CASE Drops(order) /\ \A i \in 1 .. Len(dlls) : ~HasModule(dlls[i], m)
    BY <1>5, <2>1 DEF OrderIs
  <2>2. ASSUME ~Drops(order),
               NEW i \in 1 .. Len(dlls), HasModule(dlls[i], m), dlls[i].order = order,
               \A j \in 1 .. Len(dlls) : HasModule(dlls[j], m) => j <= i
        PROVE  OrderIs(new, m, order)
    <3>1. PICK k \in 1 .. Len(new) : at[k] = i
      BY <1>4, <1>7, <2>2
    <3>2. HasModule(new[k], m) /\ new[k].order = order
      BY <1>5, <1>7, <2>2, <3>1
    <3>3. ASSUME NEW l \in 1 .. Len(new), HasModule(new[l], m)
          PROVE  l <= k
      <4>1. at[l] <= i /\ at[l] \in 1 .. Len(dlls)
        BY <1>5, <2>2, <3>3
      <4>2. ~(k < l)
        <5>1. k < l => i < at[l]
          BY <1>1, <3>1
        <5>2. at[l] \in Int /\ i \in Int
          BY <4>1
        <5>3. QED
          BY <4>1, <5>1, <5>2
      <4>3. QED
        BY <1>1, <4>2
    <3>4. QED
      BY <2>2, <3>2, <3>3 DEF OrderIs
  <2>3. QED
    BY <2>1, <2>2 DEF OrderIs
<1>8. QED
  BY <1>6, <1>7 DEF new, out

(* What an entry more says of the modules it names, and of no other.       *)
LEMMA AppendSays ==
  ASSUME NEW dlls \in Seq(DllItems), NEW item \in DllItems, ~Drops(item.order), NEW m,
         NEW order, OrderIs(dlls, m, order)
  PROVE  OrderIs(dlls \o <<item>>, m, IF HasModule(item, m) THEN item.order ELSE order)
<1> DEFINE new == dlls \o <<item>>
           n == Len(dlls)
<1>1. n \in Nat /\ Len(new) = n + 1 /\ new[n + 1] = item /\ \A i \in 1 .. n : new[i] = dlls[i]
  OBVIOUS
<1> HIDE DEF new
<1>2. \A i \in 1 .. n + 1 : i \in 1 .. n \/ i = n + 1
  BY <1>1
<1>3. \A i \in 1 .. n : i \in 1 .. n + 1 /\ i <= n + 1
  BY <1>1
<1> HIDE DEF n
<1>4. CASE HasModule(item, m)
  <2>1. n + 1 \in 1 .. n + 1 /\ \A j \in 1 .. n + 1 : j <= n + 1
    BY <1>1
  <2>2. OrderIs(new, m, item.order)
    BY <1>1, <1>4, <2>1 DEF OrderIs
  <2>3. QED
    BY <1>4, <2>2 DEF new
<1>5. CASE ~HasModule(item, m)
  <2>1. CASE Drops(order) /\ \A i \in 1 .. n : ~HasModule(dlls[i], m)
    <3>1. OrderIs(new, m, order)
      BY <1>1, <1>2, <1>5, <2>1 DEF OrderIs
    <3>2. QED
      BY <1>5, <3>1 DEF new
  <2>2. ASSUME ~Drops(order),
               NEW i \in 1 .. n, HasModule(dlls[i], m), dlls[i].order = order,
               \A j \in 1 .. n : HasModule(dlls[j], m) => j <= i
        PROVE  OrderIs(new, m, order)
    <3>1. HasModule(new[i], m) /\ new[i].order = order /\ i \in 1 .. n + 1
      BY <1>1, <1>3, <2>2
    <3>2. \A j \in 1 .. n + 1 : HasModule(new[j], m) => j <= i
      BY <1>1, <1>2, <1>5, <2>2
    <3>3. QED
      BY <1>1, <2>2, <3>1, <3>2 DEF OrderIs
  <2>3. OrderIs(new, m, order)
    BY <1>5, <2>1, <2>2 DEF OrderIs, n, new
  <2>4. QED
    BY <1>5, <2>3 DEF new
<1>6. QED
  BY <1>4, <1>5

Names1(text, m) == Contains(Modules(text), m)

(* One more dlls entry of a rule decides for the modules it names.         *)
LEMMA FoldDllSays ==
  ASSUME NEW dlls \in Seq(DllItems), NEW said \in Sayings, NEW m, NEW order, OrderIs(dlls, m, order)
  PROVE  OrderIs(FoldDll(dlls, said), m, IF Names1(said.text, m) THEN Order(said.text) ELSE order)
<1> DEFINE text == said.text
           mods == Modules(text)
           item == [modules |-> mods, order |-> Order(text), from |-> said.from]
<1>1. FoldDll(dlls, said) = IF Order(text) = <<Default>> THEN WithoutModules(dlls, mods)
                            ELSE dlls \o <<item>>
  BY DEF FoldDll
<1>2. text \in AnyText /\ said.from \in Origins
  BY DEF Sayings
<1>3. mods \in AnyText /\ Order(text) \in AnyText
  <2> HIDE DEF text
  <2>1. QED
    BY <1>2, ModulesType
<1> HIDE DEF text, mods
<1>4. CASE Drops(Order(text))
  <2> DEFINE new == WithoutModules(dlls, mods)
  <2>1. /\ Contains(mods, m) => \A i \in 1 .. Len(new) : ~HasModule(new[i], m)
        /\ ~Contains(mods, m) => OrderIs(new, m, order)
    BY WithoutSays
  <2>2. FoldDll(dlls, said) = new
    BY <1>1, <1>4 DEF Drops
  <2> HIDE DEF new
  <2>3. CASE Contains(mods, m)
    <3>1. OrderIs(new, m, Order(text))
      BY <1>4, <2>1, <2>3 DEF OrderIs
    <3>2. QED
      BY <2>2, <2>3, <3>1 DEF Names1, mods, text
  <2>4. CASE ~Contains(mods, m)
    BY <2>1, <2>2, <2>4 DEF Names1, mods, text
  <2>5. QED
    BY <2>3, <2>4
<1>5. CASE ~Drops(Order(text))
  <2>1. item \in DllItems
    BY <1>2, <1>3 DEF DllItems
  <2>2. item.order = Order(text) /\ item.modules = mods
    OBVIOUS
  <2> HIDE DEF item
  <2>3. FoldDll(dlls, said) = dlls \o <<item>>
    BY <1>1, <1>5 DEF Drops
  <2>4. OrderIs(dlls \o <<item>>, m, IF HasModule(item, m) THEN item.order ELSE order)
    BY <1>5, <2>1, <2>2, AppendSays
  <2>5. HasModule(item, m) <=> Names1(said.text, m)
    BY <2>2 DEF HasModule, Names1, mods, text
  <2>6. QED
    BY <2>2, <2>3, <2>4, <2>5 DEF text
<1>6. QED
  BY <1>4, <1>5

DllCount(e) == Len(e.rule.dlls)
NamesAt(e, q, m) == Names1(e.rule.dlls[q], m)
OrderAt(e, q) == Order(e.rule.dlls[q])

(* Of the first n entries of rule e the last that names m says this, or    *)
(* none names it and it is as before.                                      *)
LastIn(e, m, n, before, order) ==
  \/ order = before /\ \A q \in 1 .. n : ~NamesAt(e, q, m)
  \/ \E q \in 1 .. n : /\ NamesAt(e, q, m) /\ order = OrderAt(e, q)
                       /\ \A p \in 1 .. n : NamesAt(e, p, m) => p <= q

(* What the entries of a rule say of a module, with one entry more: the    *)
(* last that names it counts.                                              *)
LEMMA LastInMore ==
  ASSUME NEW e, NEW m, NEW k \in Nat, NEW before, NEW order, LastIn(e, m, k, before, order)
  PROVE  LastIn(e, m, k + 1, before, IF NamesAt(e, k + 1, m) THEN OrderAt(e, k + 1) ELSE order)
<1>1. \A j \in 1 .. k + 1 : j \in 1 .. k \/ j = k + 1
  OBVIOUS
<1>2. \A j \in 1 .. k : j \in 1 .. k + 1 /\ j <= k + 1
  OBVIOUS
<1>3. k + 1 \in 1 .. k + 1 /\ k + 1 <= k + 1
  OBVIOUS
<1> DEFINE n == k + 1
<1> HIDE DEF n
<1>4. CASE NamesAt(e, n, m)
  <2>1. \A p \in 1 .. n : p <= n
    BY <1>1, <1>2, <1>3 DEF n
  <2>2. LastIn(e, m, n, before, OrderAt(e, n))
    BY <1>3, <1>4, <2>1 DEF LastIn, n
  <2>3. QED
    BY <1>4, <2>2 DEF n
<1>5. CASE ~NamesAt(e, n, m)
  <2>1. CASE order = before /\ \A q \in 1 .. k : ~NamesAt(e, q, m)
    <3>1. \A q \in 1 .. n : ~NamesAt(e, q, m)
      BY <1>1, <1>5, <2>1 DEF n
    <3>2. LastIn(e, m, n, before, order)
      BY <2>1, <3>1 DEF LastIn
    <3>3. QED
      BY <1>5, <3>2 DEF n
  <2>2. ASSUME NEW q \in 1 .. k, NamesAt(e, q, m), order = OrderAt(e, q),
               \A p \in 1 .. k : NamesAt(e, p, m) => p <= q
        PROVE  LastIn(e, m, n, before, order)
    <3>1. q \in 1 .. n /\ \A p \in 1 .. n : NamesAt(e, p, m) => p <= q
      BY <1>1, <1>2, <1>5, <2>2 DEF n
    <3>2. QED
      BY <2>2, <3>1 DEF LastIn
  <2>3. LastIn(e, m, n, before, order)
    BY <1>5, <2>1, <2>2 DEF LastIn, n
  <2>4. QED
    BY <1>5, <2>3 DEF n
<1>6. QED
  BY <1>4, <1>5

(* What the entries of a rule make of a load order.                        *)
LEMMA FoldDllsSays ==
  ASSUME NEW dlls \in Seq(DllItems), NEW e \in TableEntries, NEW m, NEW before,
         OrderIs(dlls, m, before)
  PROVE  \E order : OrderIs(FoldDlls(dlls, e), m, order) /\ LastIn(e, m, DllCount(e), before, order)
<1> DEFINE said == From(e.rule.dlls, e)
           n == DllCount(e)
           st == Dlls!States(dlls, said)
           Good(k) == /\ st[k] \in Seq(DllItems)
                      /\ \E order : OrderIs(st[k], m, order) /\ LastIn(e, m, k, before, order)
           T == {k \in Nat : k <= n => Good(k)}
<1>1. said \in Seq(Sayings) /\ e.rule.dlls \in Seq(AnyText)
  BY RuleType, FromType
<1>2. Len(said) = n /\ n \in Nat /\ \A k \in 1 .. n : said[k].text = e.rule.dlls[k]
  BY <1>1 DEF From, DllCount
<1>3. FoldDlls(dlls, e) = st[n]
  <2>1. FoldDlls(dlls, e) = Dlls!Fold(dlls, said)
    BY DEF FoldDlls
  <2>2. Dlls!Fold(dlls, said) = st[Len(said)]
    BY DEF Dlls!Fold
  <2>3. QED
    BY <1>2, <2>1, <2>2
<1>4. st[0] = dlls /\ \A k \in 1 .. n : st[k] = FoldDll(st[k - 1], said[k])
  <2> HIDE DEF said
  <2>1. Len(said) \in Nat
    BY <1>2
  <2>2. /\ st[0] = dlls
        /\ \A k \in 1 .. Len(said) : st[k] = FoldDll(st[k - 1], said[k])
    BY <2>1, Dlls!StatesStep
  <2>3. QED
    BY <1>2, <2>2
<1> HIDE DEF said, st, n
<1>5. 0 \in T
  <2>1. LastIn(e, m, 0, before, before)
    BY DEF LastIn
  <2>2. QED
    BY <1>4, <2>1
<1>6. ASSUME NEW k \in Nat, k \in T
      PROVE  k + 1 \in T
  <2> SUFFICES ASSUME k + 1 <= n
               PROVE  Good(k + 1)
    OBVIOUS
  <2>1. k + 1 \in 1 .. n /\ (k + 1) - 1 = k /\ k <= n
    BY <1>2
  <2>2. Good(k)
    BY <1>6, <2>1
  <2>3. st[k + 1] = FoldDll(st[k], said[k + 1])
    BY <1>4, <2>1
  <2>4. said[k + 1] \in Sayings /\ said[k + 1].text = e.rule.dlls[k + 1]
    BY <1>1, <1>2, <2>1
  <2>5. PICK order : OrderIs(st[k], m, order) /\ LastIn(e, m, k, before, order)
    BY <2>2
  <2>6. st[k + 1] \in Seq(DllItems)
    BY <2>2, <2>3, <2>4, FoldDllType
  <2> DEFINE x == said[k + 1]
             d == st[k]
             o == IF NamesAt(e, k + 1, m) THEN OrderAt(e, k + 1) ELSE order
  <2>7. OrderIs(st[k + 1], m, o)
    <3>1. d \in Seq(DllItems) /\ x \in Sayings /\ OrderIs(d, m, order)
      BY <2>2, <2>4, <2>5
    <3>2. o = IF Names1(x.text, m) THEN Order(x.text) ELSE order
      BY <2>4 DEF NamesAt, OrderAt
    <3> HIDE DEF x, d, o
    <3>3. OrderIs(FoldDll(d, x), m, IF Names1(x.text, m) THEN Order(x.text) ELSE order)
      BY <3>1, FoldDllSays
    <3>4. QED
      BY <2>3, <3>2, <3>3 DEF x, d
  <2>8. LastIn(e, m, k + 1, before, o)
    BY <2>5, LastInMore
  <2> HIDE DEF o
  <2>9. QED
    BY <2>6, <2>7, <2>8
<1>7. \A k \in Nat : k \in T
  <2> HIDE DEF T
  <2>1. QED
    BY <1>5, <1>6, Joining!Induction
<1>8. Good(n)
  BY <1>2, <1>7
<1>9. QED
  BY <1>3, <1>8 DEF n

(* Of the entries of the first k rules the last that names m says this, or *)
(* none names it and nothing is said.                                      *)
LastOfAll(c, m, k, order) ==
  \/ Drops(order) /\ \A j \in 1 .. k : \A q \in 1 .. DllCount(c[j]) : ~NamesAt(c[j], q, m)
  \/ \E j \in 1 .. k : \E q \in 1 .. DllCount(c[j]) :
       /\ NamesAt(c[j], q, m) /\ order = OrderAt(c[j], q)
       /\ \A i \in 1 .. k : \A p \in 1 .. DllCount(c[i]) :
            NamesAt(c[i], p, m) => i < j \/ (i = j /\ p <= q)

(* What several rules say of a module, with one rule more.                 *)
LEMMA LastOfAllMore ==
  ASSUME NEW c, NEW m, NEW k \in Nat, NEW before, LastOfAll(c, m, k, before),
         NEW order, LastIn(c[k + 1], m, DllCount(c[k + 1]), before, order)
  PROVE  LastOfAll(c, m, k + 1, order)
<1>1. \A j \in 1 .. k + 1 : j \in 1 .. k \/ j = k + 1
  OBVIOUS
<1>2. \A j \in 1 .. k : j \in 1 .. k + 1 /\ j < k + 1
  OBVIOUS
<1>3. k + 1 \in 1 .. k + 1
  OBVIOUS
<1> DEFINE n == k + 1
           e == c[n]
<1>4. LastIn(e, m, DllCount(e), before, order)
  OBVIOUS
<1>5. c[n] = e
  OBVIOUS
<1> HIDE DEF n, e
<1>6. CASE order = before /\ \A q \in 1 .. DllCount(e) : ~NamesAt(e, q, m)
  <2>1. CASE Drops(before) /\ \A j \in 1 .. k : \A q \in 1 .. DllCount(c[j]) : ~NamesAt(c[j], q, m)
    <3>1. \A j \in 1 .. n : \A q \in 1 .. DllCount(c[j]) : ~NamesAt(c[j], q, m)
      BY <1>1, <1>5, <1>6, <2>1 DEF n
    <3>2. QED
      BY <1>6, <2>1, <3>1 DEF LastOfAll, n
  <2>2. ASSUME NEW j \in 1 .. k, NEW q \in 1 .. DllCount(c[j]),
               NamesAt(c[j], q, m), before = OrderAt(c[j], q),
               \A i \in 1 .. k : \A p \in 1 .. DllCount(c[i]) :
                 NamesAt(c[i], p, m) => i < j \/ (i = j /\ p <= q)
        PROVE  LastOfAll(c, m, n, order)
    <3>1. \A i \in 1 .. n : \A p \in 1 .. DllCount(c[i]) :
            NamesAt(c[i], p, m) => i < j \/ (i = j /\ p <= q)
      BY <1>1, <1>5, <1>6, <2>2 DEF n
    <3>2. j \in 1 .. n
      BY <1>2 DEF n
    <3>3. QED
      BY <1>6, <2>2, <3>1, <3>2 DEF LastOfAll
  <2>3. QED
    BY <2>1, <2>2 DEF LastOfAll, n
<1>7. ASSUME NEW q \in 1 .. DllCount(e), NamesAt(e, q, m), order = OrderAt(e, q),
             \A p \in 1 .. DllCount(e) : NamesAt(e, p, m) => p <= q
      PROVE  LastOfAll(c, m, n, order)
  <2>1. \A i \in 1 .. n : \A p \in 1 .. DllCount(c[i]) :
          NamesAt(c[i], p, m) => i < n \/ (i = n /\ p <= q)
    BY <1>1, <1>2, <1>5, <1>7 DEF n
  <2>2. n \in 1 .. n
    BY <1>3 DEF n
  <2>3. QED
    BY <1>5, <1>7, <2>1, <2>2 DEF LastOfAll
<1>8. QED
  BY <1>4, <1>6, <1>7 DEF LastIn, n

============================================================================
