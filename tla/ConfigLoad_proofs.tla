-------------------------- MODULE ConfigLoad_proofs --------------------------
(***************************************************************************)
(* Proofs about ConfigLoad: that reading a file keeps it, and that what is *)
(* typed into the window and run once is what runs, for any texts, words,  *)
(* keys and rules.  The lemmas on the way say what trim_end,               *)
(* insert_blocks, set_option, the document of a text and the template are, *)
(* then that words::split undoes words::quote and that a --config batch    *)
(* reads back as the assignment it was written from.                       *)
(***************************************************************************)
EXTENDS ConfigLoad, CompatRules_proofs

(* A filter of a sequence and one line more: the lines that are not blank. *)
LEMMA LinesOfOneMore ==
  ASSUME NEW S, NEW s \in Seq(S), NEW x \in S
  PROVE  Lines(s \o <<x>>) = IF x # Blank THEN Lines(s) \o <<x>> ELSE Lines(s)
<1> DEFINE n == Len(s)
           t == s \o <<x>>
           I == {i \in DOMAIN s : s[i] # Blank}
           J == {i \in DOMAIN t : t[i] # Blank}
<1>1. /\ n \in Nat /\ DOMAIN s = 1 .. n /\ DOMAIN t = 1 .. n + 1
      /\ t[n + 1] = x /\ \A i \in 1 .. n : t[i] = s[i]
  OBVIOUS
<1>2. Lines(s) = Selected(s, I) /\ Lines(t) = Selected(t, J)
  BY DEF Lines, Filtered
<1>3. n + 1 \in J <=> x # Blank
  BY <1>1
<1>4. \A i \in 1 .. n : i \in I <=> i \in J
  BY <1>1
<1> HIDE DEF I, J
<1>5. Selected(s, I) = Selected(s, J)
  BY <1>4, SelectedSame DEF n
<1>6. Selected(t, J) = IF n + 1 \in J THEN Selected(s, J) \o <<x>> ELSE Selected(s, J)
  BY SelectedOfOneMore DEF t, n
<1>7. QED
  BY <1>2, <1>3, <1>5, <1>6

(* The lines of nothing. *)
LEMMA LinesOfNothing == Lines(<<>>) = <<>>
BY SelectedOfNothing DEF Lines, Filtered

(* The lines are lines. *)
LEMMA LinesType ==
  ASSUME NEW S, NEW s \in Seq(S)
  PROVE  Lines(s) \in Seq(S)
BY SelectedType DEF Lines, Filtered

(* The lines of two texts one after the other. *)
LEMMA LinesOfMore ==
  ASSUME NEW S, NEW s \in Seq(S)
  PROVE  \A t \in Seq(S) : Lines(s \o t) = Lines(s) \o Lines(t)
<1> DEFINE P == {t \in Seq(S) : Lines(s \o t) = Lines(s) \o Lines(t)}
<1>0. Lines(s) \in Seq(S)
  BY LinesType
<1>1. <<>> \in P
  <2>1. s \o <<>> = s /\ Lines(s) \o <<>> = Lines(s)
    BY <1>0, Joining!Concat, Joining!EmptyInSeq
  <2>2. Lines(s \o <<>>) = Lines(s) \o Lines(<<>>)
    BY <2>1, LinesOfNothing
  <2>3. QED
    BY <2>2, Joining!EmptyInSeq
<1>2. ASSUME NEW t \in Seq(S), NEW x \in S, t \in P
      PROVE  t \o <<x>> \in P
  <2>1. t \o <<x>> \in Seq(S) /\ s \o t \in Seq(S)
    OBVIOUS
  <2>2. <<x>> \in Seq(S)
    OBVIOUS
  <2>3. Joining!AllIn(S, s, t, <<x>>)
    BY ONLY <2>2, s \in Seq(S), t \in Seq(S) DEF Joining!AllIn
  <2>4. (s \o t) \o <<x>> = s \o (t \o <<x>>)
    BY ONLY <2>3, Joining!EitherWay
  <2>5. Lines(s \o t) = Lines(s) \o Lines(t)
    BY <1>2
  <2>6. Lines((s \o t) \o <<x>>) = IF x # Blank THEN Lines(s \o t) \o <<x>> ELSE Lines(s \o t)
    BY <2>1, LinesOfOneMore
  <2>7. Lines(t \o <<x>>) = IF x # Blank THEN Lines(t) \o <<x>> ELSE Lines(t)
    BY LinesOfOneMore
  <2>8. Lines(t) \in Seq(S)
    BY LinesType
  <2>9. Joining!AllIn(S, Lines(s), Lines(t), <<x>>)
    BY ONLY <2>2, <2>8, <1>0 DEF Joining!AllIn
  <2>10. (Lines(s) \o Lines(t)) \o <<x>> = Lines(s) \o (Lines(t) \o <<x>>)
    BY ONLY <2>9, Joining!EitherWay
  <2>11. Lines(s \o (t \o <<x>>)) = Lines(s) \o Lines(t \o <<x>>)
    BY ONLY <2>4, <2>5, <2>6, <2>7, <2>10
  <2>12. QED
    BY <2>1, <2>11
<1> HIDE DEF P
<1>3. \A t \in Seq(S) : t \in P
  BY <1>1, <1>2, Joining!SeqInduction
<1>4. QED
  BY <1>3 DEF P

(* Blank lines do not count. *)
LEMMA LinesOfBlanks ==
  ASSUME NEW S, NEW s \in Seq(S), \A i \in 1 .. Len(s) : s[i] = Blank
  PROVE  Lines(s) = <<>>
<1> DEFINE I == {i \in DOMAIN s : s[i] # Blank}
<1>1. I = {}
  OBVIOUS
<1>2. Lines(s) = Selected(s, {})
  BY <1>1 DEF Lines, Filtered
<1>3. QED
  BY <1>2, SelectedNone

(* A text in two parts. *)
LEMMA TwoParts ==
  ASSUME NEW S, NEW s \in Seq(S), NEW i \in 0 .. Len(s)
  PROVE  /\ SubSeq(s, 1, i) \in Seq(S) /\ SubSeq(s, i + 1, Len(s)) \in Seq(S)
         /\ Len(SubSeq(s, 1, i)) = i /\ Len(SubSeq(s, i + 1, Len(s))) = Len(s) - i
         /\ \A k \in 1 .. i : SubSeq(s, 1, i)[k] = s[k]
         /\ \A k \in 1 .. Len(s) - i : SubSeq(s, i + 1, Len(s))[k] = s[i + k]
         /\ s = SubSeq(s, 1, i) \o SubSeq(s, i + 1, Len(s))
<1> DEFINE n == Len(s)
           a == SubSeq(s, 1, i)
           b == SubSeq(s, i + 1, n)
<1>1. n \in Nat /\ i \in 0 .. n
  OBVIOUS
<1>2. a \in Seq(S) /\ Len(a) = i /\ \A k \in 1 .. i : a[k] = s[k]
  <2>1. 1 \in 1 .. n + 1 /\ i \in 1 - 1 .. n
    BY <1>1
  <2>2. /\ a \in Seq(S) /\ Len(a) = i - 1 + 1
        /\ \A k \in 1 .. i - 1 + 1 : a[k] = s[1 + k - 1]
    BY ONLY <2>1, PartIs, s \in Seq(S) DEF a, n
  <2> HIDE DEF a, n
  <2>3. QED
    BY <2>2, <1>1
<1>3. b \in Seq(S) /\ Len(b) = n - i /\ \A k \in 1 .. n - i : b[k] = s[i + k]
  <2> DEFINE j == i + 1
  <2>1. j \in 1 .. n + 1 /\ n \in j - 1 .. n
    BY <1>1
  <2> HIDE DEF j
  <2>2. /\ SubSeq(s, j, n) \in Seq(S) /\ Len(SubSeq(s, j, n)) = n - j + 1
        /\ \A k \in 1 .. n - j + 1 : SubSeq(s, j, n)[k] = s[j + k - 1]
    BY ONLY <2>1, PartIs, s \in Seq(S) DEF n
  <2>3. b = SubSeq(s, j, n)
    BY DEF j
  <2> HIDE DEF b, n
  <2>4. QED
    BY <2>2, <2>3, <1>1 DEF j
<1>4. s = a \o b
  <2> HIDE DEF a, b
  <2>1. n = Len(s)
    OBVIOUS
  <2>2. a \o b \in Seq(S) /\ Len(a \o b) = n
    BY <1>1, <1>2, <1>3
  <2>3. \A k \in 1 .. n : s[k] = (a \o b)[k]
    <3>1. ASSUME NEW k \in 1 .. n
          PROVE  s[k] = (a \o b)[k]
      <4>1. CASE k <= i
        BY <4>1, <1>1, <1>2, <1>3
      <4>2. CASE k > i
        <5>1. (a \o b)[k] = b[k - i] /\ k - i \in 1 .. n - i
          BY <4>2, <1>1, <1>2, <1>3
        <5>2. b[k - i] = s[i + (k - i)]
          BY <5>1, <1>3
        <5>3. i + (k - i) = k
          BY <1>1
        <5>4. QED
          BY ONLY <5>1, <5>2, <5>3
      <4>3. k <= i \/ k > i
        BY <1>1
      <4>4. QED
        BY ONLY <4>1, <4>2, <4>3
    <3>2. QED
      BY <3>1
  <2> HIDE DEF n
  <2>4. QED
    BY <2>1, <2>2, <2>3, Joining!SameSeq
<1>5. QED
  BY <1>2, <1>3, <1>4 DEF a, b, n

(* What trim_end leaves off are blank lines (insert_blocks). *)
LEMMA TrimmedIs ==
  ASSUME NEW S, NEW u \in Seq(S)
  PROVE  \E l \in 0 .. Len(u) : /\ Trimmed(u) = SubSeq(u, 1, l)
                                /\ \A i \in l + 1 .. Len(u) : u[i] = Blank
<1> DEFINE n == Len(u)
           I == {i \in 1 .. n : u[i] # Blank}
           l == LastOf(I)
<1>1. Trimmed(u) = SubSeq(u, 1, l)
  BY DEF Trimmed, SelectLastInSeq, LastOf
<1>2. n \in Nat /\ I \subseteq 1 .. n
  OBVIOUS
<1>3. \A i \in 1 .. n : i \in I <=> u[i] # Blank
  OBVIOUS
<1> HIDE DEF I, n
<1>4. l \in 0 .. n /\ \A j \in I : j <= l
  BY <1>2, LargestIn
<1> HIDE DEF l
<1>5. ASSUME NEW i \in l + 1 .. n
      PROVE  u[i] = Blank
  <2>1. i \in 1 .. n /\ ~(i <= l)
    BY <1>2, <1>4
  <2>2. QED
    BY <2>1, <1>3, <1>4
<1>6. QED
  BY <1>1, <1>4, <1>5 DEF n

(* Trimming takes no line that counts. *)
LEMMA TrimmedLines ==
  ASSUME NEW S, NEW u \in Seq(S)
  PROVE  Lines(Trimmed(u)) = Lines(u)
<1>1. PICK l \in 0 .. Len(u) : /\ Trimmed(u) = SubSeq(u, 1, l)
                               /\ \A i \in l + 1 .. Len(u) : u[i] = Blank
  BY TrimmedIs
<1> DEFINE n == Len(u)
           a == SubSeq(u, 1, l)
           b == SubSeq(u, l + 1, n)
<1>2. /\ a \in Seq(S) /\ b \in Seq(S) /\ Len(b) = n - l /\ u = a \o b
      /\ \A k \in 1 .. n - l : b[k] = u[l + k]
  BY TwoParts
<1>3. n \in Nat /\ l \in 0 .. n
  OBVIOUS
<1>4. \A i \in l + 1 .. n : u[i] = Blank
  BY <1>1
<1> HIDE DEF n, a, b
<1>5. \A k \in 1 .. Len(b) : b[k] = Blank
  <2>1. ASSUME NEW k \in 1 .. n - l
        PROVE  b[k] = Blank
    <3>1. l + k \in l + 1 .. n
      BY <1>3
    <3>2. QED
      BY <3>1, <1>2, <1>4
  <2>2. QED
    BY <2>1, <1>2
<1>6. Lines(b) = <<>>
  BY <1>2, <1>5, LinesOfBlanks
<1>7. Lines(u) = Lines(a) \o Lines(b)
  BY <1>2, LinesOfMore
<1>8. Lines(a) \o <<>> = Lines(a)
  BY <1>2, LinesType, Joining!Concat, Joining!EmptyInSeq
<1>9. QED
  BY <1>1, <1>6, <1>7, <1>8 DEF a

(* A text with lines put in somewhere has grown. *)
LEMMA GrownIs ==
  ASSUME NEW S, NEW a \in Seq(S), NEW m \in Seq(S), NEW b \in Seq(S)
  PROVE  Grown(a \o b, (a \o m) \o b)
<1> DEFINE i == Len(a)
           k == Len(b)
           old == a \o b
           am == a \o m
           new == am \o b
<1>1. /\ i \in Nat /\ k \in Nat /\ Len(m) \in Nat
      /\ old \in Seq(S) /\ Len(old) = i + k
      /\ am \in Seq(S) /\ Len(am) = i + Len(m)
      /\ \A j \in 1 .. i : am[j] = a[j]
  OBVIOUS
<1>1a. \A j \in 1 .. i : old[j] = a[j]
  OBVIOUS
<1>1b. \A j \in 1 .. k : old[i + j] = b[j]
  OBVIOUS
<1> HIDE DEF am
<1>2. new \in Seq(S) /\ Len(new) = (i + Len(m)) + k
  BY <1>1
<1>2a. \A j \in 1 .. i : new[j] = a[j]
  BY <1>1
<1>2b. \A j \in 1 .. k : new[(i + Len(m)) + j] = b[j]
  BY <1>1
<1> DEFINE x == Len(m)
           c == (i + x) + k
           from == (i + x) + 1
<1> HIDE DEF new, old, i, k, x
<1>3. i \in 0 .. Len(old) /\ i \in 0 .. Len(new)
  BY <1>1, <1>2 DEF x
<1>4. SubSeq(new, 1, i) = SubSeq(old, 1, i)
  <2>1. /\ SubSeq(new, 1, i) \in Seq(S) /\ Len(SubSeq(new, 1, i)) = i
        /\ \A j \in 1 .. i : SubSeq(new, 1, i)[j] = new[j]
    BY <1>2, <1>3, TwoParts
  <2>2. /\ SubSeq(old, 1, i) \in Seq(S) /\ Len(SubSeq(old, 1, i)) = i
        /\ \A j \in 1 .. i : SubSeq(old, 1, i)[j] = old[j]
    BY <1>1, <1>3, TwoParts
  <2>3. \A j \in 1 .. i : SubSeq(new, 1, i)[j] = SubSeq(old, 1, i)[j]
    BY <2>1, <2>2, <1>1a, <1>2a
  <2>4. QED
    BY <2>1, <2>2, <2>3, Joining!SameSeq
<1>5. SubSeq(new, from, Len(new)) = SubSeq(old, i + 1, Len(old))
  <2>1. /\ SubSeq(old, i + 1, Len(old)) \in Seq(S) /\ Len(SubSeq(old, i + 1, Len(old))) = Len(old) - i
        /\ \A j \in 1 .. Len(old) - i : SubSeq(old, i + 1, Len(old))[j] = old[i + j]
    BY <1>1, <1>3, TwoParts
  <2>2. Len(old) - i = k /\ Len(new) - (i + x) = k /\ i + x \in 0 .. Len(new)
    BY <1>1, <1>2 DEF x
  <2> DEFINE h == i + x
  <2>3. h \in 0 .. Len(new) /\ from = h + 1 /\ Len(new) - h = k
    BY <2>2
  <2> HIDE DEF h, from
  <2>4. /\ SubSeq(new, h + 1, Len(new)) \in Seq(S) /\ Len(SubSeq(new, h + 1, Len(new))) = Len(new) - h
        /\ \A j \in 1 .. Len(new) - h : SubSeq(new, h + 1, Len(new))[j] = new[h + j]
    BY <2>3, <1>2, TwoParts
  <2> DEFINE p == SubSeq(new, h + 1, Len(new))
             q == SubSeq(old, i + 1, Len(old))
  <2>5. p \in Seq(S) /\ q \in Seq(S) /\ Len(p) = k /\ Len(q) = k
    BY <2>1, <2>2, <2>3, <2>4
  <2>6. \A j \in 1 .. k : p[j] = q[j]
    <3>1. \A j \in 1 .. k : p[j] = new[h + j] /\ q[j] = old[i + j]
      BY <2>1, <2>2, <2>3, <2>4
    <3>2. \A j \in 1 .. k : new[h + j] = b[j]
      BY <1>2b DEF h, x
    <3> HIDE DEF p, q
    <3>3. QED
      BY <3>1, <3>2, <1>1b
  <2> HIDE DEF p, q
  <2>7. p = q
    BY <2>5, <2>6, Joining!SameSeq
  <2>8. QED
    BY <2>7, <2>3 DEF p, q
<1>6. Len(new) - (Len(old) - i) + 1 = from
  BY <1>1, <1>2 DEF x
<1>7. Grown(old, new)
  BY <1>3, <1>4, <1>5, <1>6 DEF Grown
<1>8. QED
  BY <1>7 DEF old, new, am

(* Where a text's tables begin, the place in front of them, and what       *)
(* insert_blocks puts there.                                               *)
TablesAt(text) == {i \in 1 .. Len(text) : text[i].is = "header" /\ ~text[i].commented}
CutOf(text) == IF TablesAt(text) = {} THEN Len(text) ELSE Min(TablesAt(text)) - 1
GapOf(text) ==
  IF CutOf(text) = 0 \/ (CutOf(text) > 1 /\ text[CutOf(text)] = Blank) THEN <<>> ELSE <<Blank>>
EndedBlocks(blocks) == Flat([i \in DOMAIN blocks |-> Append(blocks[i], Blank)])
WithBlocks(text, blocks) ==
  (SubSeq(text, 1, CutOf(text)) \o (GapOf(text) \o EndedBlocks(blocks)))
    \o SubSeq(text, CutOf(text) + 1, Len(text))

(* The place is in the text, and its tables are behind it.                 *)
LEMMA CutIs ==
  ASSUME NEW S, NEW t \in Seq(S)
  PROVE  /\ CutOf(t) \in 0 .. Len(t)
         /\ \A i \in TablesAt(t) : i > CutOf(t)
         /\ CutOf(t) # Len(t) => CutOf(t) + 1 \in TablesAt(t)
<1> DEFINE n == Len(t)
           I == TablesAt(t)
<1>1. n \in Nat /\ I \subseteq 1 .. n /\ I \subseteq Nat
  BY DEF TablesAt
<1>2. CutOf(t) = IF I = {} THEN n ELSE Min(I) - 1
  BY DEF CutOf
<1> HIDE DEF n, I
<1>3. CASE I = {}
  BY <1>1, <1>2, <1>3 DEF n, I
<1>4. CASE I # {}
  <2>1. Min(I) \in I /\ \A j \in I : Min(I) <= j
    BY <1>1, <1>4, SmallestIn
  <2>2. Min(I) \in 1 .. n /\ CutOf(t) = Min(I) - 1
    BY <2>1, <1>1, <1>2, <1>4
  <2>3. CutOf(t) \in 0 .. n /\ CutOf(t) + 1 = Min(I)
    BY <2>2, <1>1
  <2>4. \A i \in I : i > CutOf(t)
    BY <2>1, <2>3, <1>1
  <2>5. QED
    BY <2>1, <2>3, <2>4 DEF n, I
<1>5. QED
  BY <1>3, <1>4

(* Blocks, each ended by a blank line, are lines.                          *)
LEMMA EndedType ==
  ASSUME NEW S, Blank \in S, NEW bs \in Seq(Seq(S))
  PROVE  EndedBlocks(bs) \in Seq(S)
<1> DEFINE f == [i \in DOMAIN bs |-> Append(bs[i], Blank)]
<1>1. \A i \in 1 .. Len(bs) : Append(bs[i], Blank) \in Seq(S)
  OBVIOUS
<1>2. f = [i \in 1 .. Len(bs) |-> Append(bs[i], Blank)] /\ Len(bs) \in Nat
  OBVIOUS
<1>3. f \in Seq(Seq(S))
  BY <1>1, <1>2
<1> HIDE DEF f
<1>4. Flat(f) \in Seq(S)
  BY <1>3, FlatType
<1>5. QED
  BY <1>4 DEF f, EndedBlocks

(* The first blocks, and one block more.                                   *)
LEMMA EndedOfOneMore ==
  ASSUME NEW S, Blank \in S, NEW bs \in Seq(Seq(S)), NEW b \in Seq(S)
  PROVE  EndedBlocks(bs \o <<b>>) = EndedBlocks(bs) \o Append(b, Blank)
<1> DEFINE n == Len(bs)
           cs == bs \o <<b>>
           f == [i \in DOMAIN bs |-> Append(bs[i], Blank)]
           g == [i \in DOMAIN cs |-> Append(cs[i], Blank)]
           x == Append(b, Blank)
<1>1. /\ n \in Nat /\ DOMAIN bs = 1 .. n /\ DOMAIN cs = 1 .. n + 1
      /\ cs[n + 1] = b /\ \A i \in 1 .. n : cs[i] = bs[i]
  OBVIOUS
<1>2. \A i \in 1 .. n : Append(bs[i], Blank) \in Seq(S)
  OBVIOUS
<1>3. x \in Seq(S)
  OBVIOUS
<1> HIDE DEF n, cs
<1>4. f \in Seq(Seq(S)) /\ Len(f) = n /\ \A i \in 1 .. n : f[i] = Append(bs[i], Blank)
  BY <1>1, <1>2
<1>5. DOMAIN g = 1 .. n + 1 /\ \A i \in 1 .. n + 1 : g[i] = Append(cs[i], Blank)
  BY <1>1
<1>5a. g = [i \in 1 .. n + 1 |-> g[i]]
  BY <1>1
<1>5b. n + 1 \in 1 .. n + 1 /\ \A i \in 1 .. n : i \in 1 .. n + 1
  BY <1>1
<1> HIDE DEF f, g
<1>5c. g[n + 1] = x
  BY <1>1, <1>5, <1>5b
<1>5d. \A i \in 1 .. n : g[i] = f[i]
  BY <1>1, <1>4, <1>5, <1>5b
<1> HIDE DEF x
<1>6. g \in Seq(Seq(S)) /\ Len(g) = n + 1
  <2>1. \A i \in 1 .. n + 1 : g[i] \in Seq(S)
    <3>1. \A i \in 1 .. n + 1 : i \in 1 .. n \/ i = n + 1
      BY <1>1
    <3>2. ASSUME NEW i \in 1 .. n
          PROVE  g[i] \in Seq(S)
      <4>1. f[i] \in Seq(S)
        BY <1>4
      <4>2. g[i] = f[i]
        BY <1>5d
      <4>3. QED
        BY <4>1, <4>2
    <3>3. QED
      BY <3>1, <3>2, <1>3, <1>5c
  <2>2. [i \in 1 .. n + 1 |-> g[i]] \in Seq(Seq(S)) /\ Len([i \in 1 .. n + 1 |-> g[i]]) = n + 1
    BY <2>1, <1>1
  <2>3. QED
    BY ONLY <2>2, <1>5a
<1>7. f \o <<x>> \in Seq(Seq(S)) /\ Len(f \o <<x>>) = n + 1
  BY <1>1, <1>3, <1>4
<1>8. \A i \in 1 .. n + 1 : g[i] = (f \o <<x>>)[i]
  <2>1. \A i \in 1 .. n + 1 : i \in 1 .. n \/ i = n + 1
    BY <1>1
  <2>2. \A i \in 1 .. n : (f \o <<x>>)[i] = f[i]
    BY <1>1, <1>3, <1>4
  <2>3. (f \o <<x>>)[n + 1] = x
    <3> DEFINE B == Seq(S)
    <3>1. f \in Seq(B) /\ x \in B
      BY <1>3, <1>4
    <3> HIDE DEF B
    <3>2. (f \o <<x>>)[Len(f) + 1] = x
      BY ONLY <3>1
    <3>3. QED
      BY <1>4, <3>2
  <2>4. QED
    BY <2>1, <2>2, <2>3, <1>5c, <1>5d
<1>9. g = f \o <<x>>
  BY <1>6, <1>7, <1>8, Joining!SameSeq
<1>10. Flat(f \o <<x>>) = Flat(f) \o x
  BY <1>3, <1>4, FlatOfOneMore
<1>11. QED
  BY <1>9, <1>10 DEF EndedBlocks, f, g, x, cs

(* insert_blocks puts the blocks there, behind a blank line.               *)
LEMMA InsertBlocksIs ==
  ASSUME NEW S, Blank \in S, NEW t \in Seq(S), NEW bs \in Seq(Seq(S))
  PROVE  /\ InsertBlocks(t, bs) = Trimmed(WithBlocks(t, bs))
         /\ SubSeq(t, 1, CutOf(t)) \in Seq(S)
         /\ SubSeq(t, CutOf(t) + 1, Len(t)) \in Seq(S)
         /\ GapOf(t) \in Seq(S)
         /\ GapOf(t) \o EndedBlocks(bs) \in Seq(S)
         /\ WithBlocks(t, bs) \in Seq(S)
<1> DEFINE n == Len(t)
           I == TablesAt(t)
           h == IF I # {} THEN Min(I) ELSE 0
           cut == CutOf(t)
           gap == GapOf(t)
           e == EndedBlocks(bs)
           a == SubSeq(t, 1, cut)
           b == SubSeq(t, cut + 1, n)
<1>1. cut \in 0 .. n
  BY CutIs
<1>2. a \in Seq(S) /\ b \in Seq(S)
  BY <1>1, TwoParts
<1>3. e \in Seq(S)
  BY EndedType
<1>4. gap \in Seq(S)
  <2>1. gap = <<>> \/ gap = <<Blank>>
    BY DEF GapOf
  <2>2. <<>> \in Seq(S) /\ <<Blank>> \in Seq(S)
    OBVIOUS
  <2>3. QED
    BY <2>1, <2>2
<1>5. cut = IF h = 0 THEN n ELSE h - 1
  <2>1. I # {} => Min(I) \in I
    <3>1. I \subseteq Nat
      BY DEF TablesAt
    <3> HIDE DEF I
    <3>2. QED
      BY <3>1, SmallestIn
  <2>2. I # {} => Min(I) # 0
    BY <2>1 DEF TablesAt
  <2>3. cut = IF I = {} THEN n ELSE Min(I) - 1
    BY DEF CutOf
  <2> HIDE DEF I, cut
  <2>4. QED
    BY <2>2, <2>3
<1>6. gap = IF cut = 0 \/ (cut > 1 /\ t[cut] = Blank) THEN <<>> ELSE <<Blank>>
  BY DEF GapOf
<1>7. h = SelectInSeq(t, LAMBDA line : line.is = "header" /\ ~line.commented)
  BY DEF SelectInSeq, TablesAt
<1>8. e = Flat([i \in DOMAIN bs |-> Append(bs[i], Blank)])
  BY DEF EndedBlocks
<1>9. InsertBlocks(t, bs) = Trimmed(((a \o gap) \o e) \o b)
  <2> DEFINE header == SelectInSeq(t, LAMBDA line : line.is = "header" /\ ~line.commented)
             cut_ == IF header = 0 THEN Len(t) ELSE header - 1
             gap_ == IF cut_ = 0 \/ (cut_ > 1 /\ t[cut_] = Blank) THEN <<>> ELSE <<Blank>>
  <2>1. InsertBlocks(t, bs) =
          Trimmed(SubSeq(t, 1, cut_) \o gap_ \o Flat([i \in DOMAIN bs |-> Append(bs[i], Blank)])
                    \o SubSeq(t, cut_ + 1, Len(t)))
    BY DEF InsertBlocks
  <2>2. header = h
    BY <1>7
  <2> HIDE DEF header, h, cut
  <2>3. cut_ = cut
    BY <2>2, <1>5
  <2> HIDE DEF cut_, gap
  <2>4. gap_ = gap
    BY <2>3, <1>6
  <2> HIDE DEF gap_, e
  <2>5. QED
    BY <2>1, <2>3, <2>4, <1>8
<1> HIDE DEF a, b, gap, e, cut
<1>10. Joining!AllIn(S, a, gap, e)
  BY ONLY <1>2, <1>3, <1>4 DEF Joining!AllIn
<1>11. (a \o gap) \o e = a \o (gap \o e)
  BY ONLY <1>10, Joining!EitherWay
<1>12. gap \o e \in Seq(S)
  BY <1>3, <1>4
<1>13. a \o (gap \o e) \in Seq(S)
  BY <1>2, <1>12
<1>14. (a \o (gap \o e)) \o b \in Seq(S)
  BY <1>2, <1>13
<1>15. WithBlocks(t, bs) = (a \o (gap \o e)) \o b
  BY DEF WithBlocks, a, b, gap, e, cut
<1>16. QED
  BY <1>2, <1>4, <1>9, <1>11, <1>12, <1>14, <1>15 DEF a, b, gap, e, cut

(* Blocks put into a text leave its lines as they are.                     *)
LEMMA InsertGrows ==
  ASSUME NEW S, Blank \in S, NEW t \in Seq(S), NEW bs \in Seq(Seq(S))
  PROVE  Grown(Lines(t), Lines(InsertBlocks(t, bs)))
<1> DEFINE cut == CutOf(t)
           a == SubSeq(t, 1, cut)
           b == SubSeq(t, cut + 1, Len(t))
           m == GapOf(t) \o EndedBlocks(bs)
           u == (a \o m) \o b
<1>1. /\ InsertBlocks(t, bs) = Trimmed(u) /\ u \in Seq(S)
      /\ a \in Seq(S) /\ b \in Seq(S) /\ m \in Seq(S)
  BY InsertBlocksIs DEF WithBlocks
<1>2. t = a \o b
  BY CutIs, TwoParts
<1> HIDE DEF a, b, m
<1>3. a \o m \in Seq(S)
  BY <1>1
<1>4. Lines(Trimmed(u)) = Lines(u)
  BY <1>1, TrimmedLines
<1>5. Lines(u) = (Lines(a) \o Lines(m)) \o Lines(b)
  <2> DEFINE am == a \o m
  <2>1. Lines(am) = Lines(a) \o Lines(m)
    BY <1>1, LinesOfMore
  <2>2. am \in Seq(S)
    BY <1>3
  <2> HIDE DEF am
  <2>3. Lines(am \o b) = Lines(am) \o Lines(b)
    BY <1>1, <2>2, LinesOfMore
  <2>4. QED
    BY <2>1, <2>3 DEF am
<1>6. Lines(t) = Lines(a) \o Lines(b)
  BY <1>1, <1>2, LinesOfMore
<1>7. Lines(a) \in Seq(S) /\ Lines(b) \in Seq(S) /\ Lines(m) \in Seq(S)
  BY <1>1, LinesType
<1>8. QED
  BY <1>1, <1>4, <1>5, <1>6, <1>7, GrownIs

(* Numbers that rise.                                                      *)
Rises(c) == /\ c \in Seq(Nat)
            /\ \A k, l \in 1 .. Len(c) : k < l => c[k] < c[l]
Meets(c, d) == \A k \in 1 .. Len(c) : \E l \in 1 .. Len(d) : d[l] = c[k]

(* Of two sequences of numbers that rise, with the same numbers, neither   *)
(* is ahead of the other.                                                  *)
LEMMA NoneAhead ==
  ASSUME NEW c, NEW d, Rises(c), Rises(d), Meets(c, d), Meets(d, c)
  PROVE  \A n \in Nat : \A k \in 1 .. Len(c) : k <= n => k <= Len(d) /\ d[k] = c[k]
<1> DEFINE N == {n \in Nat : \A k \in 1 .. Len(c) : k <= n => k <= Len(d) /\ d[k] = c[k]}
<1>0. /\ Len(c) \in Nat /\ Len(d) \in Nat
      /\ \A k \in 1 .. Len(c) : c[k] \in Nat
      /\ \A k \in 1 .. Len(d) : d[k] \in Nat
  BY DEF Rises
<1>1. 0 \in N
  BY <1>0
<1>2. ASSUME NEW n \in Nat, n \in N
      PROVE  n + 1 \in N
  <2>1. \A k \in 1 .. Len(c) : k <= n => k <= Len(d) /\ d[k] = c[k]
    BY <1>2
  <2>2. CASE n + 1 \in 1 .. Len(c)
    <3> DEFINE m == n + 1
    <3>1. PICK l \in 1 .. Len(d) : d[l] = c[m]
      BY <2>2 DEF Meets
    <3>2. ~(l <= n)
      <4>1. SUFFICES ASSUME l <= n PROVE FALSE
        OBVIOUS
      <4>2. l \in 1 .. Len(c) /\ l < m
        BY <4>1, <2>2, <1>0
      <4>3. d[l] = c[l] /\ c[l] < c[m]
        BY <4>1, <4>2, <2>1, <2>2 DEF Rises
      <4>4. QED
        BY <4>2, <4>3, <3>1, <1>0, <2>2
    <3>3. m \in 1 .. Len(d) /\ m <= l
      BY <3>2, <1>0
    <3>4. d[m] = c[m]
      <4>1. SUFFICES ASSUME d[m] # c[m] PROVE FALSE
        OBVIOUS
      <4>2. m < l
        BY <4>1, <3>1, <3>3, <1>0
      <4>3. d[m] < c[m]
        BY <4>2, <3>1, <3>3 DEF Rises
      <4>4. PICK j \in 1 .. Len(c) : c[j] = d[m]
        BY <3>3 DEF Meets
      <4>5. ~(j <= n)
        <5>1. SUFFICES ASSUME j <= n PROVE FALSE
          OBVIOUS
        <5>2. j <= Len(d) /\ d[j] = c[j]
          BY <5>1, <2>1
        <5>3. j \in 1 .. Len(d) /\ j < m
          BY <5>1, <5>2, <1>0
        <5>4. d[j] < d[m]
          BY <5>3, <3>3 DEF Rises
        <5>5. d[j] \in Nat
          BY <5>3, <1>0
        <5>6. QED
          BY <5>2, <5>4, <5>5, <4>4
      <4>6. j = m \/ m < j
        BY <4>5, <1>0
      <4>7. c[m] = c[j] \/ c[m] < c[j]
        BY <4>6, <2>2 DEF Rises
      <4>8. c[m] \in Nat /\ c[j] \in Nat
        BY <2>2, <1>0
      <4>9. QED
        BY <4>3, <4>4, <4>7, <4>8
    <3>5. \A k \in 1 .. Len(c) : k <= n + 1 => k <= n \/ k = n + 1
      BY <1>0
    <3>6. m <= Len(d)
      BY <3>3
    <3>7. QED
      BY <3>4, <3>5, <3>6, <2>1
  <2>3. CASE n + 1 \notin 1 .. Len(c)
    <3>1. \A k \in 1 .. Len(c) : k <= n + 1 => k <= n
      BY <2>3, <1>0
    <3>2. QED
      BY <3>1, <2>1
  <2>4. QED
    BY <2>2, <2>3
<1> HIDE DEF N
<1>3. \A n \in Nat : n \in N
  BY <1>1, <1>2, Joining!Induction
<1>4. QED
  BY <1>3 DEF N

(* So they are one.                                                        *)
LEMMA OneOrder ==
  ASSUME NEW c, NEW d, Rises(c), Rises(d), Meets(c, d), Meets(d, c)
  PROVE  c = d
<1>1. Len(c) \in Nat /\ Len(d) \in Nat /\ c \in Seq(Nat) /\ d \in Seq(Nat)
  BY DEF Rises
<1>2. \A k \in 1 .. Len(c) : k <= Len(c) => k <= Len(d) /\ d[k] = c[k]
  BY <1>1, NoneAhead
<1>3. \A k \in 1 .. Len(d) : k <= Len(d) => k <= Len(c) /\ c[k] = d[k]
  BY <1>1, NoneAhead
<1>4. Len(c) <= Len(d)
  BY <1>1, <1>2
<1>5. Len(d) <= Len(c)
  BY <1>1, <1>3
<1>6. Len(c) = Len(d) /\ \A k \in 1 .. Len(c) : c[k] = d[k]
  BY <1>1, <1>2, <1>4, <1>5
<1>7. QED
  BY <1>1, <1>6, Joining!SameSeq

----------------------------------------------------------------------------
(* What a text says, by the places of its lines.                           *)
SaysAt(text) == {i \in 1 .. Len(text) : text[i].is = "assign" /\ ~text[i].commented}
TablesBefore(text, i) == {h \in TablesAt(text) : h < i}
TableAt(text, i) ==
  IF TablesBefore(text, i) = {} THEN <<>>
  ELSE text[CHOOSE h \in TablesBefore(text, i) : \A g \in TablesBefore(text, i) : g <= h].path
SaidIn(text) == Selected(Numbers(Len(text)), SaysAt(text))
LeafAt(text, i) == Leaf(TableAt(text, i) \o text[i].path, text[i].item)
LeavesOf(text) == [n \in 1 .. Len(SaidIn(text)) |-> LeafAt(text, SaidIn(text)[n])]
TwoValues(table) == \E i, j \in DOMAIN table : i # j /\ IsPrefix(table[i].path, table[j].path)
TwoTables(text) == \E i, j \in TablesAt(text) : i < j /\ text[i].path = text[j].path
ValueAndTable(text, table) ==
  \E i \in DOMAIN table, h \in TablesAt(text) : IsPrefix(table[i].path, text[h].path)

LEMMA DocumentIs ==
  ASSUME NEW S, NEW t \in Seq(S)
  PROVE  Document(t) =
           [table |-> LeavesOf(t),
            fault |-> IF \/ TwoValues(LeavesOf(t)) \/ TwoTables(t) \/ ValueAndTable(t, LeavesOf(t))
                      THEN "Syntax" ELSE Ok]
<1> DEFINE headers == {i \in DOMAIN t : t[i].is = "header" /\ ~t[i].commented}
           before(i) == {h \in headers : h < i}
           within(i) == IF before(i) = {} THEN <<>>
                        ELSE t[CHOOSE h \in before(i) : \A g \in before(i) : g <= h].path
           said == Selected([i \in DOMAIN t |-> i],
                            {i \in DOMAIN t : t[i].is = "assign" /\ ~t[i].commented})
           table == [n \in DOMAIN said |-> Leaf(within(said[n]) \o t[said[n]].path, t[said[n]].item)]
<1>1. Document(t) =
        [table |-> table,
         fault |-> IF \/ \E i, j \in DOMAIN table : i # j /\ IsPrefix(table[i].path, table[j].path)
                      \/ \E i, j \in headers : i < j /\ t[i].path = t[j].path
                      \/ \E i \in DOMAIN table, h \in headers : IsPrefix(table[i].path, t[h].path)
                   THEN "Syntax" ELSE Ok]
  BY DEF Document
<1>2. DOMAIN t = 1 .. Len(t) /\ Len(t) \in Nat
  OBVIOUS
<1>3. headers = TablesAt(t)
  BY <1>2 DEF TablesAt
<1>4. said = SaidIn(t)
  BY <1>2 DEF SaidIn, SaysAt, Numbers
<1>5. DOMAIN SaidIn(t) = 1 .. Len(SaidIn(t))
  <2>1. Numbers(Len(t)) \in Seq(Nat)
    BY <1>2, NumbersMore
  <2>2. SaidIn(t) \in Seq(Nat)
    BY <2>1, SelectedType DEF SaidIn
  <2>3. QED
    BY <2>2
<1> HIDE DEF said, headers
<1>6. \A i : before(i) = TablesBefore(t, i)
  BY <1>3 DEF TablesBefore
<1>7. \A i : within(i) = TableAt(t, i)
  <2>1. ASSUME NEW i
        PROVE  within(i) = TableAt(t, i)
    <3> DEFINE B == before(i)
    <3>1. within(i) = IF B = {} THEN <<>> ELSE t[CHOOSE h \in B : \A g \in B : g <= h].path
      OBVIOUS
    <3>2. B = TablesBefore(t, i)
      BY <1>6
    <3> HIDE DEF B
    <3>3. QED
      BY <3>1, <3>2 DEF TableAt
  <2>2. QED
    BY <2>1
<1> HIDE DEF within
<1>8. table = LeavesOf(t)
  BY <1>4, <1>5, <1>7 DEF LeavesOf, LeafAt
<1> HIDE DEF table
<1>9. QED
  BY <1>1, <1>3, <1>8 DEF TwoValues, TwoTables, ValueAndTable

(* Where the lines of t went in u: in their order, and every line of u     *)
(* that says something is one of them.                                     *)
Live(line) == line.is \in {"assign", "header"} /\ ~line.commented
IsMoved(t, u, to) ==
  /\ \A i \in 1 .. Len(t) : to[i] \in 1 .. Len(u) /\ u[to[i]] = t[i]
  /\ \A i, j \in 1 .. Len(t) : i < j => to[i] < to[j]
  /\ \A j \in 1 .. Len(u) : Live(u[j]) => \E i \in 1 .. Len(t) : to[i] = j

(* The tables and the assignments of t are those of u. *)
LEMMA MovedPlaces ==
  ASSUME NEW S, NEW t \in Seq(S), NEW u \in Seq(S), NEW to, IsMoved(t, u, to)
  PROVE  /\ \A i \in 1 .. Len(t) : i \in TablesAt(t) <=> to[i] \in TablesAt(u)
         /\ \A j \in TablesAt(u) : \E i \in TablesAt(t) : to[i] = j
         /\ \A i \in 1 .. Len(t) : i \in SaysAt(t) <=> to[i] \in SaysAt(u)
         /\ \A j \in SaysAt(u) : \E i \in SaysAt(t) : to[i] = j
         /\ \A i, j \in 1 .. Len(t) : i < j <=> to[i] < to[j]
         /\ \A i, j \in 1 .. Len(t) : to[i] = to[j] => i = j
<1>1. \A i \in 1 .. Len(t) : i \in TablesAt(t) <=> to[i] \in TablesAt(u)
  BY DEF IsMoved, TablesAt
<1>2. \A i \in 1 .. Len(t) : i \in SaysAt(t) <=> to[i] \in SaysAt(u)
  BY DEF IsMoved, SaysAt
<1>3. \A j \in TablesAt(u) : \E i \in TablesAt(t) : to[i] = j
  <2>1. ASSUME NEW j \in TablesAt(u)
        PROVE  \E i \in TablesAt(t) : to[i] = j
    <3>1. j \in 1 .. Len(u) /\ Live(u[j])
      BY DEF TablesAt, Live
    <3>2. PICK i \in 1 .. Len(t) : to[i] = j
      BY <3>1 DEF IsMoved
    <3>3. QED
      BY <3>2, <1>1
  <2>2. QED
    BY <2>1
<1>4. \A j \in SaysAt(u) : \E i \in SaysAt(t) : to[i] = j
  <2>1. ASSUME NEW j \in SaysAt(u)
        PROVE  \E i \in SaysAt(t) : to[i] = j
    <3>1. j \in 1 .. Len(u) /\ Live(u[j])
      BY DEF SaysAt, Live
    <3>2. PICK i \in 1 .. Len(t) : to[i] = j
      BY <3>1 DEF IsMoved
    <3>3. QED
      BY <3>2, <1>2
  <2>2. QED
    BY <2>1
<1>5. ASSUME NEW i \in 1 .. Len(t), NEW j \in 1 .. Len(t)
      PROVE  /\ i < j <=> to[i] < to[j]
             /\ to[i] = to[j] => i = j
  <2>1. to[i] \in Nat /\ to[j] \in Nat /\ i \in Nat /\ j \in Nat
    BY DEF IsMoved
  <2>2. (i < j => to[i] < to[j]) /\ (j < i => to[j] < to[i])
    BY DEF IsMoved
  <2>3. QED
    BY <2>1, <2>2
<1>6. QED
  BY <1>1, <1>2, <1>3, <1>4, <1>5

(* The last of the tables before a line.                                   *)
LEMMA LastTable ==
  ASSUME NEW S, NEW t \in Seq(S), NEW i, TablesBefore(t, i) # {}
  PROVE  \E m \in TablesBefore(t, i) : /\ \A g \in TablesBefore(t, i) : g <= m
                                       /\ TableAt(t, i) = t[m].path
<1> DEFINE I == TablesBefore(t, i)
           n == Len(t)
           m == CHOOSE h \in I : \A g \in I : g <= h
<1>1. n \in Nat /\ I \subseteq 1 .. n
  BY DEF TablesBefore, TablesAt
<1>2. TableAt(t, i) = t[m].path
  BY DEF TableAt
<1> HIDE DEF I, n
<1>3. LastOf(I) \in I /\ \A j \in I : j <= LastOf(I)
  <2>1. I # {}
    BY DEF I
  <2>2. QED
    BY <1>1, <2>1, LargestIn
<1>4. m \in I /\ \A g \in I : g <= m
  BY <1>3
<1> HIDE DEF m
<1>5. QED
  BY <1>2, <1>4 DEF I

(* A line that moved is still below the same table.                        *)
LEMMA MovedTable ==
  ASSUME NEW S, NEW t \in Seq(S), NEW u \in Seq(S), NEW to, IsMoved(t, u, to),
         NEW i \in 1 .. Len(t)
  PROVE  TableAt(u, to[i]) = TableAt(t, i)
<1>1. /\ \A k \in 1 .. Len(t) : k \in TablesAt(t) <=> to[k] \in TablesAt(u)
      /\ \A j \in TablesAt(u) : \E k \in TablesAt(t) : to[k] = j
      /\ \A k, j \in 1 .. Len(t) : k < j <=> to[k] < to[j]
  BY MovedPlaces
<1>2. TablesAt(t) \subseteq 1 .. Len(t) /\ TablesAt(u) \subseteq 1 .. Len(u)
  BY DEF TablesAt
<1>3. \A h \in TablesBefore(t, i) : to[h] \in TablesBefore(u, to[i])
  BY <1>1, <1>2 DEF TablesBefore
<1>4. \A j \in TablesBefore(u, to[i]) : \E h \in TablesBefore(t, i) : to[h] = j
  <2>1. ASSUME NEW j \in TablesBefore(u, to[i])
        PROVE  \E h \in TablesBefore(t, i) : to[h] = j
    <3>1. j \in TablesAt(u) /\ j < to[i]
      BY DEF TablesBefore
    <3>2. PICK h \in TablesAt(t) : to[h] = j
      BY <3>1, <1>1
    <3>3. h \in 1 .. Len(t) /\ to[h] < to[i]
      BY <3>1, <3>2, <1>2
    <3>4. h < i
      BY <3>3, <1>1
    <3>5. QED
      BY <3>2, <3>4 DEF TablesBefore
  <2>2. QED
    BY <2>1
<1>5. CASE TablesBefore(t, i) = {}
  <2>1. TablesBefore(u, to[i]) = {}
    BY <1>4, <1>5
  <2>2. QED
    BY <1>5, <2>1 DEF TableAt
<1>6. CASE TablesBefore(t, i) # {}
  <2>1. TablesBefore(u, to[i]) # {}
    BY <1>3, <1>6
  <2>2. PICK m \in TablesBefore(t, i) : /\ \A g \in TablesBefore(t, i) : g <= m
                                        /\ TableAt(t, i) = t[m].path
    BY <1>6, LastTable
  <2>3. PICK q \in TablesBefore(u, to[i]) : /\ \A g \in TablesBefore(u, to[i]) : g <= q
                                            /\ TableAt(u, to[i]) = u[q].path
    BY <2>1, LastTable
  <2>4. PICK h \in TablesBefore(t, i) : to[h] = q
    BY <1>4
  <2>5. /\ h \in 1 .. Len(t) /\ m \in 1 .. Len(t) /\ h <= m /\ to[m] <= q
        /\ h \in Nat /\ m \in Nat /\ to[m] \in Nat /\ to[h] \in Nat
    BY <2>2, <2>3, <1>2, <1>3 DEF TablesBefore, IsMoved
  <2>6. ~(h < m)
    BY <1>1, <2>4, <2>5
  <2>7. h = m
    BY <2>5, <2>6
  <2>8. u[q] = t[m]
    BY <2>4, <2>5, <2>7 DEF IsMoved
  <2>9. QED
    BY <2>2, <2>3, <2>8
<1>7. QED
  BY <1>5, <1>6

(* The places of what a text says, in their order.                         *)
LEMMA SaidRises ==
  ASSUME NEW S, NEW t \in Seq(S)
  PROVE  /\ Rises(SaidIn(t))
         /\ \A k \in 1 .. Len(SaidIn(t)) : SaidIn(t)[k] \in SaysAt(t)
         /\ \A i \in SaysAt(t) : \E k \in 1 .. Len(SaidIn(t)) : SaidIn(t)[k] = i
<1> DEFINE n == Len(t)
           s == Numbers(n)
           I == SaysAt(t)
           c == SaidIn(t)
<1>1. n \in Nat /\ I \subseteq 1 .. n
  BY DEF SaysAt
<1>2. s \in Seq(Nat) /\ Len(s) = n /\ \A i \in 1 .. n : s[i] = i
  BY <1>1 DEF Numbers
<1>3. c = Selected(s, I)
  BY DEF SaidIn
<1> HIDE DEF s, I, c, n
<1>4. c \in Seq(Nat)
  BY <1>2, <1>3, SelectedType
<1>5. PICK at : IsPlaced(c, s, I, at)
  BY <1>2, <1>3, SelectedInOrder
<1>6. \A k \in 1 .. Len(c) : c[k] = at[k] /\ c[k] \in I
  BY <1>2, <1>5 DEF IsPlaced
<1>7. \A k, l \in 1 .. Len(c) : k < l => c[k] < c[l]
  BY <1>5, <1>6 DEF IsPlaced
<1>8. \A i \in I : \E k \in 1 .. Len(c) : c[k] = i
  BY <1>1, <1>2, <1>5, <1>6 DEF IsPlaced
<1>9. QED
  BY <1>4, <1>6, <1>7, <1>8 DEF Rises, I, c

(* What a text says is said at the places where its lines went.            *)
LEMMA MovedSays ==
  ASSUME NEW S, NEW t \in Seq(S), NEW u \in Seq(S), NEW to, IsMoved(t, u, to)
  PROVE  /\ Len(SaidIn(u)) = Len(SaidIn(t))
         /\ \A k \in 1 .. Len(SaidIn(t)) : SaidIn(t)[k] \in 1 .. Len(t) /\ SaidIn(u)[k] = to[SaidIn(t)[k]]
<1> DEFINE c == SaidIn(t)
           d == SaidIn(u)
           e == [k \in 1 .. Len(c) |-> to[c[k]]]
<1>1. /\ Rises(c) /\ \A k \in 1 .. Len(c) : c[k] \in SaysAt(t)
      /\ \A i \in SaysAt(t) : \E k \in 1 .. Len(c) : c[k] = i
  BY SaidRises
<1>2. /\ Rises(d) /\ \A k \in 1 .. Len(d) : d[k] \in SaysAt(u)
      /\ \A i \in SaysAt(u) : \E k \in 1 .. Len(d) : d[k] = i
  BY SaidRises
<1>3. /\ \A i \in 1 .. Len(t) : i \in SaysAt(t) <=> to[i] \in SaysAt(u)
      /\ \A j \in SaysAt(u) : \E i \in SaysAt(t) : to[i] = j
      /\ \A i, j \in 1 .. Len(t) : i < j <=> to[i] < to[j]
  BY MovedPlaces
<1>4. SaysAt(t) \subseteq 1 .. Len(t) /\ \A i \in 1 .. Len(t) : to[i] \in Nat
  BY DEF SaysAt, IsMoved
<1> HIDE DEF c, d
<1>5. Len(c) \in Nat /\ \A k \in 1 .. Len(c) : c[k] \in 1 .. Len(t)
  BY <1>1, <1>4 DEF Rises
<1>6. e \in Seq(Nat) /\ Len(e) = Len(c) /\ \A k \in 1 .. Len(c) : e[k] = to[c[k]]
  BY <1>4, <1>5
<1> HIDE DEF e
<1>7. Rises(e)
  <2>1. ASSUME NEW k \in 1 .. Len(c), NEW l \in 1 .. Len(c), k < l
        PROVE  e[k] < e[l]
    <3>1. c[k] < c[l]
      BY <1>1, <2>1 DEF Rises
    <3>2. c[k] \in 1 .. Len(t) /\ c[l] \in 1 .. Len(t)
      BY <1>5
    <3>3. to[c[k]] < to[c[l]]
      BY <1>3, <3>1, <3>2
    <3>4. QED
      BY <3>3, <1>6
  <2>2. QED
    BY <1>6, <2>1 DEF Rises
<1>8. Meets(e, d)
  BY <1>1, <1>2, <1>3, <1>5, <1>6 DEF Meets
<1>9. Meets(d, e)
  <2>1. ASSUME NEW k \in 1 .. Len(d)
        PROVE  \E l \in 1 .. Len(e) : e[l] = d[k]
    <3>1. d[k] \in SaysAt(u)
      BY <1>2
    <3>2. PICK i \in SaysAt(t) : to[i] = d[k]
      BY <3>1, <1>3
    <3>3. PICK l \in 1 .. Len(c) : c[l] = i
      BY <1>1
    <3>4. QED
      BY <3>2, <3>3, <1>6
  <2>2. QED
    BY <2>1 DEF Meets
<1>10. e = d
  BY <1>2, <1>7, <1>8, <1>9, OneOrder
<1>11. QED
  BY <1>5, <1>6, <1>10 DEF c, d

(* Lines that say nothing, put in anywhere, leave what a text says.        *)
LEMMA SameDocument ==
  ASSUME NEW S, NEW t \in Seq(S), NEW u \in Seq(S), NEW to, IsMoved(t, u, to)
  PROVE  Document(u) = Document(t)
<1>1. LeavesOf(u) = LeavesOf(t)
  <2>1. /\ Len(SaidIn(u)) = Len(SaidIn(t))
        /\ \A k \in 1 .. Len(SaidIn(t)) :
             SaidIn(t)[k] \in 1 .. Len(t) /\ SaidIn(u)[k] = to[SaidIn(t)[k]]
    BY MovedSays
  <2>2. \A k \in 1 .. Len(SaidIn(t)) : LeafAt(u, SaidIn(u)[k]) = LeafAt(t, SaidIn(t)[k])
    <3>1. ASSUME NEW k \in 1 .. Len(SaidIn(t))
          PROVE  LeafAt(u, SaidIn(u)[k]) = LeafAt(t, SaidIn(t)[k])
      <4> DEFINE i == SaidIn(t)[k]
      <4>1. i \in 1 .. Len(t) /\ SaidIn(u)[k] = to[i]
        BY <2>1
      <4> HIDE DEF i
      <4>2. TableAt(u, to[i]) = TableAt(t, i)
        BY <4>1, MovedTable
      <4>3. u[to[i]] = t[i]
        BY <4>1 DEF IsMoved
      <4>4. LeafAt(u, to[i]) = LeafAt(t, i)
        BY <4>2, <4>3 DEF LeafAt
      <4>5. QED
        BY <4>1, <4>4 DEF i
    <3>2. QED
      BY <3>1
  <2>3. QED
    BY <2>1, <2>2 DEF LeavesOf
<1>2. /\ \A i \in 1 .. Len(t) : i \in TablesAt(t) <=> to[i] \in TablesAt(u)
      /\ \A j \in TablesAt(u) : \E i \in TablesAt(t) : to[i] = j
      /\ \A i, j \in 1 .. Len(t) : i < j <=> to[i] < to[j]
      /\ \A i \in 1 .. Len(t) : u[to[i]] = t[i]
      /\ TablesAt(t) \subseteq 1 .. Len(t)
  <2>1. /\ \A i \in 1 .. Len(t) : i \in TablesAt(t) <=> to[i] \in TablesAt(u)
        /\ \A j \in TablesAt(u) : \E i \in TablesAt(t) : to[i] = j
        /\ \A i, j \in 1 .. Len(t) : i < j <=> to[i] < to[j]
    BY MovedPlaces
  <2>2. \A i \in 1 .. Len(t) : u[to[i]] = t[i]
    BY DEF IsMoved
  <2>3. TablesAt(t) \subseteq 1 .. Len(t)
    BY DEF TablesAt
  <2>4. QED
    BY <2>1, <2>2, <2>3
<1>3. TwoTables(u) <=> TwoTables(t)
  <2>1. TwoTables(t) => TwoTables(u)
    <3>1. SUFFICES ASSUME NEW i \in TablesAt(t), NEW j \in TablesAt(t), i < j, t[i].path = t[j].path
                   PROVE  TwoTables(u)
      BY DEF TwoTables
    <3>2. to[i] \in TablesAt(u) /\ to[j] \in TablesAt(u) /\ to[i] < to[j]
      BY <3>1, <1>2
    <3>3. u[to[i]].path = u[to[j]].path
      BY <3>1, <1>2
    <3>4. QED
      BY <3>2, <3>3 DEF TwoTables
  <2>2. TwoTables(u) => TwoTables(t)
    <3>1. SUFFICES ASSUME NEW i \in TablesAt(u), NEW j \in TablesAt(u), i < j, u[i].path = u[j].path
                   PROVE  TwoTables(t)
      BY DEF TwoTables
    <3>2. PICK k \in TablesAt(t) : to[k] = i
      BY <1>2
    <3>3. PICK l \in TablesAt(t) : to[l] = j
      BY <1>2
    <3>4. k < l /\ t[k].path = t[l].path
      BY <3>1, <3>2, <3>3, <1>2
    <3>5. QED
      BY <3>4 DEF TwoTables
  <2>3. QED
    BY <2>1, <2>2
<1> DEFINE table == LeavesOf(t)
<1>4. ValueAndTable(u, table) <=> ValueAndTable(t, table)
  <2> HIDE DEF table
  <2>1. ASSUME NEW i \in DOMAIN table
        PROVE  (\E h \in TablesAt(u) : IsPrefix(table[i].path, u[h].path))
                 <=> (\E h \in TablesAt(t) : IsPrefix(table[i].path, t[h].path))
    <3>1. ASSUME NEW h \in TablesAt(t), IsPrefix(table[i].path, t[h].path)
          PROVE  \E g \in TablesAt(u) : IsPrefix(table[i].path, u[g].path)
      <4>1. to[h] \in TablesAt(u) /\ u[to[h]] = t[h]
        BY <1>2
      <4>2. IsPrefix(table[i].path, u[to[h]].path)
        BY <3>1, <4>1
      <4>3. QED
        BY <4>1, <4>2
    <3>2. ASSUME NEW h \in TablesAt(u), IsPrefix(table[i].path, u[h].path)
          PROVE  \E g \in TablesAt(t) : IsPrefix(table[i].path, t[g].path)
      <4>1. PICK g \in TablesAt(t) : to[g] = h
        BY <1>2
      <4>2. u[h] = t[g]
        BY <4>1, <1>2
      <4>3. IsPrefix(table[i].path, t[g].path)
        BY <3>2, <4>2
      <4>4. QED
        BY <4>3
    <3>3. QED
      BY <3>1, <3>2
  <2>2. QED
    BY <2>1 DEF ValueAndTable
<1>5. Document(u) =
           [table |-> LeavesOf(u),
            fault |-> IF \/ TwoValues(LeavesOf(u)) \/ TwoTables(u) \/ ValueAndTable(u, LeavesOf(u))
                      THEN "Syntax" ELSE Ok]
  BY DocumentIs
<1>6. Document(t) =
           [table |-> LeavesOf(t),
            fault |-> IF \/ TwoValues(LeavesOf(t)) \/ TwoTables(t) \/ ValueAndTable(t, LeavesOf(t))
                      THEN "Syntax" ELSE Ok]
  BY DocumentIs
<1>7. QED
  <2> HIDE DEF table
  <2>1. LeavesOf(u) = table /\ LeavesOf(t) = table
    BY <1>1 DEF table
  <2>2. QED
    BY ONLY <1>3, <1>4, <1>5, <1>6, <2>1

(* A text with a part put in.                                              *)
LEMMA PutIn ==
  ASSUME NEW S, NEW a \in Seq(S), NEW m \in Seq(S), NEW b \in Seq(S)
  PROVE  LET u == (a \o m) \o b
         IN /\ u \in Seq(S) /\ Len(u) = Len(a) + Len(m) + Len(b)
            /\ \A i \in 1 .. Len(a) : u[i] = a[i]
            /\ \A i \in 1 .. Len(m) : u[Len(a) + i] = m[i]
            /\ \A i \in 1 .. Len(b) : u[Len(a) + Len(m) + i] = b[i]
<1> DEFINE am == a \o m
           u == am \o b
<1>1. /\ am \in Seq(S) /\ Len(am) = Len(a) + Len(m)
      /\ Len(a) \in Nat /\ Len(m) \in Nat /\ Len(b) \in Nat
      /\ \A i \in 1 .. Len(a) : am[i] = a[i]
      /\ \A i \in 1 .. Len(m) : am[Len(a) + i] = m[i]
  OBVIOUS
<1> HIDE DEF am
<1>2. /\ u \in Seq(S) /\ Len(u) = Len(am) + Len(b)
      /\ \A i \in 1 .. Len(am) : u[i] = am[i]
      /\ \A i \in 1 .. Len(b) : u[Len(am) + i] = b[i]
  <2>1. am \in Seq(S) /\ b \in Seq(S)
    BY <1>1
  <2>2. QED
    BY ONLY <2>1
<1> HIDE DEF u
<1>3. \A i \in 1 .. Len(a) : i \in 1 .. Len(am)
  BY <1>1
<1>4. \A i \in 1 .. Len(m) : Len(a) + i \in 1 .. Len(am)
  BY <1>1
<1>5. QED
  BY <1>1, <1>2, <1>3, <1>4 DEF u, am

(* A part put in, without anything live, leaves what the text says.        *)
LEMMA PutInMoves ==
  ASSUME NEW S, NEW a \in Seq(S), NEW m \in Seq(S), NEW b \in Seq(S),
         \A i \in 1 .. Len(m) : ~Live(m[i])
  PROVE  Document((a \o m) \o b) = Document(a \o b)
<1> DEFINE t == a \o b
           u == (a \o m) \o b
           p == Len(a)
           q == Len(m)
           to == [i \in 1 .. Len(t) |-> IF i <= p THEN i ELSE i + q]
<1>1. /\ t \in Seq(S) /\ Len(t) = p + Len(b)
      /\ p \in Nat /\ q \in Nat /\ Len(b) \in Nat
      /\ \A i \in 1 .. p : t[i] = a[i]
      /\ \A i \in 1 .. Len(b) : t[p + i] = b[i]
  OBVIOUS
<1>2. /\ u \in Seq(S) /\ Len(u) = p + q + Len(b)
      /\ \A i \in 1 .. p : u[i] = a[i]
      /\ \A i \in 1 .. q : u[p + i] = m[i]
      /\ \A i \in 1 .. Len(b) : u[p + q + i] = b[i]
  BY PutIn
<1>3. \A i \in 1 .. Len(t) : to[i] = IF i <= p THEN i ELSE i + q
  OBVIOUS
<1> HIDE DEF t, u, p, q, to
<1>4. \A i \in 1 .. Len(t) : to[i] \in 1 .. Len(u) /\ u[to[i]] = t[i]
  <2>1. ASSUME NEW i \in 1 .. Len(t)
        PROVE  to[i] \in 1 .. Len(u) /\ u[to[i]] = t[i]
    <3>1. CASE i <= p
      <4>1. to[i] = i /\ i \in 1 .. p /\ i \in 1 .. Len(u)
        BY <1>1, <1>2, <1>3, <3>1
      <4>2. QED
        BY <4>1, <1>1, <1>2
    <3>2. CASE ~(i <= p)
      <4> DEFINE k == i - p
      <4>1. k \in 1 .. Len(b) /\ i = p + k /\ to[i] = p + q + k /\ to[i] \in 1 .. Len(u)
        BY <1>1, <1>2, <1>3, <3>2
      <4> HIDE DEF k
      <4>2. t[p + k] = b[k] /\ u[p + q + k] = b[k]
        BY <4>1, <1>1, <1>2
      <4>3. QED
        BY <4>1, <4>2
    <3>3. QED
      BY <3>1, <3>2
  <2>2. QED
    BY <2>1
<1>5. \A i, j \in 1 .. Len(t) : i < j => to[i] < to[j]
  BY <1>1, <1>3
<1>6. \A j \in 1 .. Len(u) : Live(u[j]) => \E i \in 1 .. Len(t) : to[i] = j
  <2>1. ASSUME NEW j \in 1 .. Len(u), Live(u[j])
        PROVE  \E i \in 1 .. Len(t) : to[i] = j
    <3>1. CASE j <= p
      <4>1. j \in 1 .. Len(t) /\ to[j] = j
        BY <1>1, <1>3, <3>1
      <4>2. QED
        BY <4>1
    <3>2. CASE ~(j <= p) /\ j <= p + q
      <4> DEFINE k == j - p
      <4>1. k \in 1 .. q /\ j = p + k
        BY <1>1, <1>2, <3>2
      <4> HIDE DEF k
      <4>2. u[p + k] = m[k]
        BY <4>1, <1>2
      <4>3. ~Live(m[k])
        BY <4>1 DEF q
      <4>4. QED
        BY <4>1, <4>2, <4>3, <2>1
    <3>3. CASE ~(j <= p + q)
      <4> DEFINE k == j - q
      <4>1. k \in 1 .. Len(t) /\ ~(k <= p) /\ k + q = j
        BY <1>1, <1>2, <3>3
      <4> HIDE DEF k
      <4>2. to[k] = j
        BY <4>1, <1>3
      <4>3. QED
        BY <4>1, <4>2
    <3>4. QED
      BY <3>1, <3>2, <3>3, <1>1, <1>2
  <2>2. QED
    BY <2>1
<1>7. IsMoved(t, u, to)
  BY <1>4, <1>5, <1>6 DEF IsMoved
<1>8. Document(u) = Document(t)
  BY <1>1, <1>2, <1>7, SameDocument
<1>9. QED
  BY <1>8 DEF t, u

(* Trimming leaves what a text says.                                       *)
LEMMA TrimmedDocument ==
  ASSUME NEW S, NEW u \in Seq(S)
  PROVE  Document(Trimmed(u)) = Document(u) /\ Trimmed(u) \in Seq(S)
<1>1. PICK l \in 0 .. Len(u) : /\ Trimmed(u) = SubSeq(u, 1, l)
                               /\ \A i \in l + 1 .. Len(u) : u[i] = Blank
  BY TrimmedIs
<1> DEFINE t == SubSeq(u, 1, l)
           to == [i \in 1 .. l |-> i]
<1>2. t \in Seq(S) /\ Len(t) = l /\ \A i \in 1 .. l : t[i] = u[i]
  BY TwoParts
<1>3. \A i \in 1 .. l : to[i] = i
  OBVIOUS
<1>4. ~Live(Blank)
  BY DEF Live, Blank, Line
<1>5. l \in Nat /\ l <= Len(u) /\ Len(u) \in Nat
  BY <1>1
<1> HIDE DEF t, to
<1>6. \A j \in 1 .. Len(u) : Live(u[j]) => j \in 1 .. l
  <2>1. \A j \in 1 .. Len(u) : j \in 1 .. l \/ j \in l + 1 .. Len(u)
    BY <1>5
  <2>2. QED
    BY <2>1, <1>1, <1>4
<1>7. IsMoved(t, u, to)
  BY <1>2, <1>3, <1>5, <1>6 DEF IsMoved
<1>8. Document(u) = Document(t)
  BY <1>2, <1>7, SameDocument
<1>9. QED
  BY <1>1, <1>2, <1>8 DEF t

(* insert_blocks of blocks that are commented out leaves what a text says. *)
LEMMA InsertSays ==
  ASSUME NEW S, Blank \in S, NEW t \in Seq(S), NEW bs \in Seq(Seq(S)),
         \A i \in 1 .. Len(EndedBlocks(bs)) : ~Live(EndedBlocks(bs)[i])
  PROVE  Document(InsertBlocks(t, bs)) = Document(t) /\ InsertBlocks(t, bs) \in Seq(S)
<1> DEFINE a == SubSeq(t, 1, CutOf(t))
           b == SubSeq(t, CutOf(t) + 1, Len(t))
           g == GapOf(t)
           e == EndedBlocks(bs)
           m == g \o e
           u == (a \o m) \o b
<1>1. /\ InsertBlocks(t, bs) = Trimmed(u) /\ u \in Seq(S)
      /\ a \in Seq(S) /\ b \in Seq(S) /\ m \in Seq(S) /\ g \in Seq(S)
  BY InsertBlocksIs DEF WithBlocks
<1>2. t = a \o b
  BY CutIs, TwoParts
<1>3. e \in Seq(S)
  BY EndedType
<1>4. \A i \in 1 .. Len(g) : ~Live(g[i])
  BY DEF GapOf, Live, Blank, Line
<1>4a. \A i \in 1 .. Len(e) : ~Live(e[i])
  OBVIOUS
<1> HIDE DEF a, b, g, e
<1>5. \A i \in 1 .. Len(m) : ~Live(m[i])
  <2>1. ASSUME NEW i \in 1 .. Len(m)
        PROVE  ~Live(m[i])
    <3>1. \/ i \in 1 .. Len(g) /\ m[i] = g[i]
          \/ i - Len(g) \in 1 .. Len(e) /\ m[i] = e[i - Len(g)]
      BY <1>1, <1>3
    <3>2. QED
      BY <3>1, <1>4, <1>4a
  <2>2. QED
    BY <2>1
<1> HIDE DEF m
<1>6. Document(u) = Document(t)
  BY <1>1, <1>2, <1>5, PutInMoves
<1>7. QED
  BY <1>1, <1>6, TrimmedDocument

(* What is in a table depends on the lines before alone.                   *)
LEMMA InTableOfMore ==
  ASSUME NEW S, NEW a \in Seq(S), NEW b \in Seq(S), NEW i \in 1 .. Len(a)
  PROVE  InTable(a \o b, i) <=> InTable(a, i)
<1> DEFINE u == a \o b
<1>1. i \in Nat /\ i <= Len(a) /\ Len(a) \in Nat
  OBVIOUS
<1>2. \A k \in 1 .. Len(a) : u[k] = a[k]
  OBVIOUS
<1> HIDE DEF u
<1>3. \A h \in 1 .. i - 1 : h \in 1 .. Len(a) /\ \A k \in h + 1 .. i : k \in 1 .. Len(a)
  BY <1>1
<1>4. \A h \in 1 .. i - 1 : u[h] = a[h] /\ \A k \in h + 1 .. i : u[k] = a[k]
  BY <1>2, <1>3
<1>5. InTable(u, i) <=> InTable(a, i)
  BY <1>4 DEF InTable
<1>6. QED
  BY <1>5 DEF u

(* What a text mentions, it mentions with more lines at its end.           *)
LEMMA MentionsMore ==
  ASSUME NEW S, NEW a \in Seq(S), NEW b \in Seq(S), NEW o, Mentions(a, o)
  PROVE  Mentions(a \o b, o)
<1>1. PICK i \in 1 .. Len(a) : IsOption(a[i], o) /\ (a[i].is = "header" \/ ~InTable(a, i))
  BY DEF Mentions
<1>2. i \in DOMAIN (a \o b) /\ (a \o b)[i] = a[i]
  OBVIOUS
<1>3. InTable(a \o b, i) <=> InTable(a, i)
  BY InTableOfMore
<1>4. QED
  BY <1>1, <1>2, <1>3 DEF Mentions

(* Lines after which a new table may begin: no table of theirs goes on.    *)
Closed(a) ==
  \A h \in 1 .. Len(a) :
    a[h].is = "header" => /\ a[h].commented
                          /\ \E k \in h + 1 .. Len(a) : ~a[k].commented

(* Behind such lines, a text mentions what it mentions alone.              *)
LEMMA MentionsBehind ==
  ASSUME NEW S, NEW a \in Seq(S), NEW b \in Seq(S), NEW o, Closed(a), Mentions(b, o)
  PROVE  Mentions(a \o b, o)
<1> DEFINE u == a \o b
           p == Len(a)
<1>1. PICK i \in 1 .. Len(b) : IsOption(b[i], o) /\ (b[i].is = "header" \/ ~InTable(b, i))
  BY DEF Mentions
<1>2. /\ p \in Nat /\ Len(b) \in Nat /\ Len(u) = p + Len(b) /\ DOMAIN u = 1 .. Len(u)
      /\ \A k \in 1 .. p : u[k] = a[k]
      /\ \A k \in 1 .. Len(b) : u[p + k] = b[k]
  OBVIOUS
<1> HIDE DEF u
<1>3. p + i \in DOMAIN u /\ u[p + i] = b[i]
  BY <1>2
<1>4. ASSUME ~InTable(b, i)
      PROVE  ~InTable(u, p + i)
  <2>1. SUFFICES ASSUME NEW h \in 1 .. (p + i) - 1, u[h].is = "header",
                        u[h].commented => \A k \in h + 1 .. p + i : u[k].commented
                 PROVE  FALSE
    BY DEF InTable
  <2>2. CASE h <= p
    <3>1. h \in 1 .. Len(a) /\ u[h] = a[h]
      BY <1>2, <2>2
    <3>2. a[h].commented /\ \E k \in h + 1 .. Len(a) : ~a[k].commented
      BY <2>1, <3>1 DEF Closed
    <3>3. PICK k \in h + 1 .. Len(a) : ~a[k].commented
      BY <3>2
    <3>4. k \in 1 .. p /\ k \in h + 1 .. p + i
      BY <1>2, <3>1, <3>3
    <3>5. u[k] = a[k]
      BY <3>4, <1>2
    <3>6. QED
      BY <2>1, <3>1, <3>2, <3>3, <3>4, <3>5
  <2>3. CASE ~(h <= p)
    <3> DEFINE g == h - p
    <3>1. g \in 1 .. i - 1 /\ h = p + g /\ g \in 1 .. Len(b)
      BY <1>2, <2>3
    <3> HIDE DEF g
    <3>2. u[h] = b[g]
      BY <1>2, <3>1
    <3>3. b[g].is = "header"
      BY <2>1, <3>2
    <3>4. ASSUME b[g].commented, NEW k \in g + 1 .. i
          PROVE  b[k].commented
      <4>1. p + k \in h + 1 .. p + i /\ k \in 1 .. Len(b)
        BY <1>2, <3>1
      <4>2. u[p + k].commented
        BY <2>1, <3>2, <3>4, <4>1
      <4>3. QED
        BY <4>1, <4>2, <1>2
    <3>5. InTable(b, i)
      BY <3>1, <3>3, <3>4 DEF InTable
    <3>6. QED
      BY <1>4, <3>5
  <2>4. QED
    BY <2>2, <2>3
<1>5. QED
  BY <1>1, <1>3, <1>4 DEF Mentions, u

(* A header counts wherever it is.                                         *)
LEMMA HeaderMentions ==
  ASSUME NEW S, NEW u \in Seq(S), NEW o, NEW i \in 1 .. Len(u),
         IsOption(u[i], o), u[i].is = "header"
  PROVE  Mentions(u, o)
BY DEF Mentions

(* A blank line mentions nothing, and trimming takes no mention.           *)
LEMMA TrimmedMentions ==
  ASSUME NEW S, NEW u \in Seq(S), NEW o, Mentions(u, o)
  PROVE  Mentions(Trimmed(u), o)
<1>1. PICK l \in 0 .. Len(u) : /\ Trimmed(u) = SubSeq(u, 1, l)
                               /\ \A i \in l + 1 .. Len(u) : u[i] = Blank
  BY TrimmedIs
<1> DEFINE a == SubSeq(u, 1, l)
           b == SubSeq(u, l + 1, Len(u))
<1>2. a \in Seq(S) /\ b \in Seq(S) /\ Len(a) = l /\ u = a \o b /\ \A k \in 1 .. l : a[k] = u[k]
  <2>1. u \in Seq(S) /\ l \in 0 .. Len(u)
    OBVIOUS
  <2>2. QED
    BY ONLY <2>1, TwoParts
<1>3. PICK i \in 1 .. Len(u) : IsOption(u[i], o) /\ (u[i].is = "header" \/ ~InTable(u, i))
  BY DEF Mentions
<1>4. ~IsOption(Blank, o)
  BY DEF IsOption, OptionName, Blank, Line
<1>5. i \in 1 .. l
  <2>1. i \in 1 .. l \/ i \in l + 1 .. Len(u)
    OBVIOUS
  <2>2. QED
    BY <2>1, <1>1, <1>3, <1>4
<1> HIDE DEF a, b
<1>6. i \in 1 .. Len(a) /\ a[i] = u[i]
  BY <1>2, <1>5
<1>7. InTable(a \o b, i) <=> InTable(a, i)
  BY <1>2, <1>6, InTableOfMore
<1>8. Mentions(a, o)
  BY <1>2, <1>3, <1>6, <1>7 DEF Mentions
<1>9. QED
  BY <1>1, <1>8 DEF a

(* A line of a template: commented out, and a header with a name.          *)
IsExample(line) == line.commented /\ (line.is = "header" => line.path[1] # NoOption)

(* A block of such lines mentions its option (block_option).               *)
LEMMA BlockMentions ==
  ASSUME NEW S, NEW b \in Seq(S), \A i \in 1 .. Len(b) : IsExample(b[i]), BlockOption(b) # NoOption
  PROVE  Mentions(b, BlockOption(b))
<1> DEFINE I == {i \in 1 .. Len(b) : OptionName(b[i]) # NoOption}
           p == Min(I)
<1>0. Len(b) \in Nat
  OBVIOUS
<1>1. BlockOption(b) = IF (IF I # {} THEN p ELSE 0) = 0 THEN NoOption ELSE OptionName(b[IF I # {} THEN p ELSE 0])
  BY DEF BlockOption, SelectInSeq
<1>2. I # {}
  BY <1>1
<1>3. p \in I /\ \A i \in I : p <= i
  <2>1. I \subseteq Nat
    BY ONLY <1>0
  <2> HIDE DEF I
  <2>2. QED
    BY ONLY <1>2, <2>1, SmallestIn
<1> HIDE DEF p
<1>4. p \in 1 .. Len(b) /\ OptionName(b[p]) # NoOption
  BY <1>3
<1>5. BlockOption(b) = OptionName(b[p])
  BY <1>1, <1>2, <1>4
<1>6. IsOption(b[p], BlockOption(b))
  BY <1>4, <1>5 DEF IsOption
<1>7. ~InTable(b, p)
  <2>1. SUFFICES ASSUME NEW h \in 1 .. p - 1, b[h].is = "header"
                 PROVE  FALSE
    BY DEF InTable
  <2>1a. h \in 1 .. p - 1
    OBVIOUS
  <2>2. h \in 1 .. Len(b) /\ h < p /\ h \in Nat /\ p \in Nat
    BY ONLY <1>0, <1>4, <2>1a
  <2>3. IsExample(b[h])
    BY <2>2
  <2>4. OptionName(b[h]) # NoOption
    BY <2>1, <2>3 DEF IsExample, OptionName
  <2>5. h \in I
    BY <2>2, <2>4
  <2>6. p <= h
    BY <1>3, <2>5
  <2>7. QED
    BY ONLY <2>2, <2>6
<1>8. QED
  BY <1>4, <1>6, <1>7 DEF Mentions

(* Blocks of such lines, each ended by a blank line: no table of one goes  *)
(* on in the next, and each option is mentioned.                           *)
LEMMA EndedMentions ==
  ASSUME NEW Q, \A line \in Q : IsExample(line)
  PROVE  \A bs \in Seq(Seq(Q)) :
           /\ Closed(EndedBlocks(bs))
           /\ \A k \in 1 .. Len(bs) :
                BlockOption(bs[k]) # NoOption => Mentions(EndedBlocks(bs), BlockOption(bs[k]))
<1> DEFINE S == Q \cup {Blank}
           Good(bs) == /\ Closed(EndedBlocks(bs))
                       /\ \A k \in 1 .. Len(bs) :
                            BlockOption(bs[k]) # NoOption => Mentions(EndedBlocks(bs), BlockOption(bs[k]))
           P == {bs \in Seq(Seq(Q)) : Good(bs)}
<1>1. <<>> \in P
  <2>1. EndedBlocks(<<>>) = <<>>
    <3>1. [i \in DOMAIN <<>> |-> Append(<<>>[i], Blank)] = <<>>
      OBVIOUS
    <3>2. QED
      BY <3>1, FlatOfNothing DEF EndedBlocks
  <2>2. Closed(<<>>)
    BY DEF Closed
  <2>3. <<>> \in Seq(Seq(Q)) /\ \A k \in 1 .. Len(<<>>) : FALSE
    BY Joining!EmptyInSeq
  <2>4. Good(<<>>)
    BY ONLY <2>1, <2>2, <2>3
  <2> HIDE DEF Good
  <2>5. QED
    BY ONLY <2>3, <2>4
<1>2. ASSUME NEW bs \in Seq(Seq(Q)), NEW b \in Seq(Q), bs \in P
      PROVE  bs \o <<b>> \in P
  <2> DEFINE e == EndedBlocks(bs)
             c == Append(b, Blank)
             cs == bs \o <<b>>
  <2>1. bs \in Seq(Seq(S)) /\ b \in Seq(S) /\ Blank \in S
    OBVIOUS
  <2>2. e \in Seq(S) /\ EndedBlocks(cs) = e \o c
    BY <2>1, EndedType, EndedOfOneMore
  <2>3. /\ c \in Seq(S) /\ Len(c) = Len(b) + 1 /\ c[Len(b) + 1] = Blank
        /\ \A i \in 1 .. Len(b) : c[i] = b[i] /\ c[i] \in Q
        /\ Len(b) \in Nat
    OBVIOUS
  <2>4. /\ Closed(e)
        /\ \A k \in 1 .. Len(bs) : BlockOption(bs[k]) # NoOption => Mentions(e, BlockOption(bs[k]))
    <3>1. bs \in P
      BY <1>2
    <3>2. Good(bs)
      <4> HIDE DEF Good
      <4>1. QED
        BY ONLY <3>1
    <3>3. QED
      BY ONLY <3>2
  <2>5. ~Blank.commented /\ Blank.is = "blank"
    BY DEF Blank, Line
  <2>6. /\ cs \in Seq(Seq(Q)) /\ Len(cs) = Len(bs) + 1 /\ cs[Len(bs) + 1] = b
        /\ \A k \in 1 .. Len(bs) : cs[k] = bs[k]
        /\ Len(bs) \in Nat
    OBVIOUS
  <2>7. Closed(e \o c)
    <3> DEFINE u == e \o c
               n == Len(e) + Len(c)
    <3>1. /\ Len(e) \in Nat /\ Len(u) = n
          /\ \A i \in 1 .. Len(e) : u[i] = e[i]
          /\ \A i \in 1 .. Len(c) : u[Len(e) + i] = c[i]
      <4> HIDE DEF e, c
      <4>1. e \in Seq(S) /\ c \in Seq(S)
        BY ONLY <2>2, <2>3
      <4> HIDE DEF S
      <4>2. QED
        BY ONLY <4>1
    <3> HIDE DEF e, c, u
    <3>2. u[n] = Blank /\ n \in 1 .. n /\ n \in Nat
      BY <2>3, <3>1
    <3>3. ASSUME NEW h \in 1 .. n, u[h].is = "header"
          PROVE  u[h].commented
      <4>1. CASE h \in 1 .. Len(e)
        BY <3>1, <3>3, <4>1, <2>4 DEF Closed
      <4>2. CASE h \notin 1 .. Len(e)
        <5> DEFINE k == h - Len(e)
        <5>1. k \in 1 .. Len(c) /\ h = Len(e) + k
          BY <3>1, <2>3, <4>2
        <5> HIDE DEF k
        <5>2. u[h] = c[k]
          BY <5>1, <3>1
        <5>3. k \in 1 .. Len(b)
          BY <5>1, <5>2, <2>3, <2>5, <3>3
        <5>4. IsExample(c[k])
          BY <5>3, <2>3
        <5>5. QED
          BY <5>2, <5>4 DEF IsExample
      <4>3. QED
        BY <4>1, <4>2
    <3>4. ASSUME NEW h \in 1 .. n, u[h].is = "header"
          PROVE  n \in h + 1 .. n
      <4>1. h # n
        BY <3>2, <3>4, <2>5
      <4>2. h \in 1 .. n
        BY <3>4
      <4> HIDE DEF n
      <4>3. QED
        BY ONLY <4>1, <4>2, <3>2
    <3>5. ~u[n].commented
      BY <3>2, <2>5
    <3>6. Closed(u)
      BY <3>1, <3>3, <3>4, <3>5 DEF Closed
    <3>7. QED
      BY <3>6 DEF u
  <2>8. ASSUME NEW k \in 1 .. Len(cs), BlockOption(cs[k]) # NoOption
        PROVE  Mentions(e \o c, BlockOption(cs[k]))
    <3>1. CASE k \in 1 .. Len(bs)
      <4>1. cs[k] = bs[k]
        BY ONLY <2>6, <3>1
      <4> HIDE DEF e, c, cs
      <4>2. Mentions(e, BlockOption(bs[k]))
        BY <2>4, <2>8, <3>1, <4>1
      <4> HIDE DEF e, c, cs
      <4>3. QED
        BY <4>1, <4>2, <2>2, <2>3, MentionsMore
    <3>2. CASE k \notin 1 .. Len(bs)
      <4>1. cs[k] = b
        BY <2>6, <3>2
      <4>2. \A i \in 1 .. Len(b) : IsExample(b[i])
        OBVIOUS
      <4>3. Mentions(b, BlockOption(b))
        BY <4>1, <4>2, <2>8, BlockMentions
      <4>4. b \o <<Blank>> = c
        OBVIOUS
      <4>4a. <<Blank>> \in Seq(S) /\ b \in Seq(S)
        OBVIOUS
      <4> HIDE DEF e, c, cs
      <4>5. Mentions(c, BlockOption(b))
        BY ONLY <4>3, <4>4, <4>4a, MentionsMore
      <4>6. Mentions(e \o c, BlockOption(b))
        BY ONLY <4>5, <2>2, <2>3, <2>4, MentionsBehind
      <4>7. QED
        BY <4>1, <4>6
    <3>3. QED
      BY <3>1, <3>2
  <2>9. Good(cs)
    <3> HIDE DEF e, c
    <3>1. QED
      BY <2>2, <2>7, <2>8
  <2>10. QED
    BY <2>6, <2>9
<1> HIDE DEF Good
<1>3. \A bs \in Seq(Seq(Q)) : bs \in P
  <2> HIDE DEF P
  <2>1. \A bs \in Seq(Seq(Q)), b \in Seq(Q) : bs \in P => bs \o <<b>> \in P
    BY <1>2
  <2>2. QED
    BY <1>1, <2>1, Joining!SeqInduction
<1>4. QED
  BY <1>3 DEF Good

(* What a text mentions, it mentions with blocks put in.                   *)
LEMMA StillMentions ==
  ASSUME NEW S, Blank \in S, NEW t \in Seq(S), NEW bs \in Seq(Seq(S)), NEW o, Mentions(t, o)
  PROVE  Mentions(WithBlocks(t, bs), o)
<1> DEFINE cut == CutOf(t)
           a == SubSeq(t, 1, cut)
           b == SubSeq(t, cut + 1, Len(t))
           m == GapOf(t) \o EndedBlocks(bs)
           u == (a \o m) \o b
<1>1. /\ WithBlocks(t, bs) = u /\ u \in Seq(S)
      /\ a \in Seq(S) /\ b \in Seq(S) /\ m \in Seq(S)
  BY InsertBlocksIs DEF WithBlocks
<1>2. /\ cut \in 0 .. Len(t)
      /\ cut # Len(t) => cut + 1 \in TablesAt(t)
  BY CutIs
<1>3. /\ t = a \o b /\ Len(a) = cut /\ Len(b) = Len(t) - cut
      /\ \A k \in 1 .. cut : a[k] = t[k]
      /\ \A k \in 1 .. Len(t) - cut : b[k] = t[cut + k]
  <2>1. t \in Seq(S) /\ cut \in 0 .. Len(t)
    BY <1>2
  <2> HIDE DEF cut
  <2>2. QED
    BY ONLY <2>1, TwoParts
<1>4. PICK i \in 1 .. Len(t) : IsOption(t[i], o) /\ (t[i].is = "header" \/ ~InTable(t, i))
  BY DEF Mentions
<1> HIDE DEF cut, a, b, m, u
<1>5. /\ Len(u) = Len(a) + Len(m) + Len(b)
      /\ \A k \in 1 .. Len(a) : u[k] = a[k]
      /\ \A k \in 1 .. Len(b) : u[Len(a) + Len(m) + k] = b[k]
  BY <1>1, PutIn DEF u
<1>6. Len(a) \in Nat /\ Len(b) \in Nat /\ Len(m) \in Nat
  BY <1>1
<1>7. CASE t[i].is = "header"
  <2>1. \E j \in 1 .. Len(u) : u[j] = t[i]
    <3>1. CASE i <= cut
      <4>1. i \in 1 .. Len(u) /\ i \in 1 .. cut
        BY <1>2, <1>3, <1>5, <1>6, <3>1
      <4>2. u[i] = t[i]
        BY <4>1, <1>3, <1>5
      <4>3. QED
        BY <4>1, <4>2
    <3>2. CASE ~(i <= cut)
      <4> DEFINE k == i - cut
      <4>1. k \in 1 .. Len(b) /\ i = cut + k /\ Len(a) + Len(m) + k \in 1 .. Len(u)
        BY <1>2, <1>3, <1>5, <1>6, <3>2
      <4> HIDE DEF k
      <4>2. u[Len(a) + Len(m) + k] = t[i]
        BY <4>1, <1>3, <1>5
      <4>3. QED
        BY <4>1, <4>2
    <3>3. QED
      BY <3>1, <3>2
  <2>2. QED
    BY <2>1, <1>1, <1>4, <1>7, HeaderMentions
<1>8. CASE t[i].is # "header"
  <2>1. i <= cut
    <3>1. SUFFICES ASSUME ~(i <= cut)
                   PROVE  FALSE
      OBVIOUS
    <3>2. /\ cut + 1 \in 1 .. Len(t) /\ cut + 1 \in 1 .. i
          /\ t[cut + 1].is = "header" /\ ~t[cut + 1].commented
      BY <1>2, <3>1 DEF TablesAt
    <3>3. cut + 1 # i
      BY <3>2, <1>8
    <3>4. cut + 1 \in 1 .. i - 1
      BY <3>2, <3>3
    <3>5. InTable(t, i)
      BY <3>2, <3>4 DEF InTable
    <3>6. QED
      BY <3>5, <1>4, <1>8
  <2>2. i \in 1 .. Len(a) /\ a[i] = t[i]
    BY <1>2, <1>3, <2>1
  <2>3. InTable(a \o b, i) <=> InTable(a, i)
    BY <1>1, <2>2, InTableOfMore
  <2>4. Mentions(a, o)
    <3>1. IsOption(a[i], o) /\ ~InTable(t, i)
      BY <1>4, <1>8, <2>2
    <3>2. InTable(t, i) <=> InTable(a, i)
      BY ONLY <1>3, <2>3
    <3>3. i \in DOMAIN a
      BY <1>1, <2>2
    <3>4. QED
      BY ONLY <3>1, <3>2, <3>3 DEF Mentions
  <2>5. Mentions(a \o m, o)
    BY <1>1, <2>4, MentionsMore
  <2>6. a \o m \in Seq(S)
    BY <1>1
  <2>7. Mentions((a \o m) \o b, o)
    BY <1>1, <2>5, <2>6, MentionsMore
  <2>8. QED
    BY <2>7, <1>1 DEF u
<1>9. QED
  BY <1>7, <1>8

(* What the blocks mention, the text with them does.                       *)
LEMMA NowMentions ==
  ASSUME NEW S, Blank \in S, NEW t \in Seq(S), NEW bs \in Seq(Seq(S)), NEW o,
         Mentions(EndedBlocks(bs), o)
  PROVE  Mentions(WithBlocks(t, bs), o)
<1> DEFINE cut == CutOf(t)
           a == SubSeq(t, 1, cut)
           b == SubSeq(t, cut + 1, Len(t))
           g == GapOf(t)
           e == EndedBlocks(bs)
           m == g \o e
           u == (a \o m) \o b
           ag == a \o g
<1>1. /\ WithBlocks(t, bs) = u /\ u \in Seq(S)
      /\ a \in Seq(S) /\ b \in Seq(S) /\ g \in Seq(S) /\ m \in Seq(S)
  BY InsertBlocksIs DEF WithBlocks
<1>2. cut \in 0 .. Len(t) /\ \A i \in TablesAt(t) : i > cut
  BY CutIs
<1>3. Len(a) = cut /\ \A k \in 1 .. cut : a[k] = t[k]
  BY <1>2, TwoParts
<1>4. e \in Seq(S)
  BY EndedType
<1>5. Mentions(e, o)
  OBVIOUS
<1>6. g = IF cut = 0 \/ (cut > 1 /\ t[cut] = Blank) THEN <<>> ELSE <<Blank>>
  BY DEF GapOf
<1> HIDE DEF cut, a, b, g, e
<1>7. Closed(ag)
  <2>1. ~Blank.commented /\ Blank.is = "blank"
    BY DEF Blank, Line
  <2>2. \A h \in 1 .. cut : t[h].is = "header" => t[h].commented
    <3>1. ASSUME NEW h \in 1 .. cut, t[h].is = "header", ~t[h].commented
          PROVE  FALSE
      <4>1. h \in 1 .. Len(t)
        BY <1>2
      <4>2. h \in TablesAt(t)
        BY <3>1, <4>1 DEF TablesAt
      <4>3. QED
        BY <4>2, <1>2
    <3>2. QED
      BY <3>1
  <2>3. CASE cut = 0
    <3>1. Len(ag) = 0
      BY <1>1, <1>3, <1>6, <2>3
    <3>2. QED
      BY <3>1 DEF Closed
  <2>4. CASE cut > 1 /\ t[cut] = Blank
    <3>1. ag = a /\ cut \in 1 .. cut
      BY <1>1, <1>2, <1>6, <2>4
    <3>2. ASSUME NEW h \in 1 .. cut, t[h].is = "header"
          PROVE  cut \in h + 1 .. cut
      <4>1. h # cut
        BY <2>1, <2>4, <3>2
      <4>2. QED
        BY <4>1, <1>2
    <3>3. ~t[cut].commented
      BY <2>1, <2>4
    <3>4. \A h \in 1 .. cut :
            t[h].is = "header" => t[h].commented /\ \E k \in h + 1 .. cut : ~t[k].commented
      BY <2>2, <3>2, <3>3
    <3>5. \A h \in 1 .. cut : a[h].is = "header" => a[h].commented
      BY <2>2, <1>3
    <3>6. \A h \in 1 .. cut : a[h].is = "header" => cut \in h + 1 .. cut
      BY <3>2, <1>3
    <3>7. ~a[cut].commented
      BY <3>1, <3>3, <1>3
    <3>8. Closed(a)
      BY <1>3, <3>5, <3>6, <3>7 DEF Closed
    <3>9. QED
      BY <3>1, <3>8
  <2>5. CASE ~(cut = 0 \/ (cut > 1 /\ t[cut] = Blank))
    <3>1. g = <<Blank>>
      BY <1>6, <2>5
    <3>2. /\ Len(ag) = cut + 1 /\ ag[cut + 1] = Blank /\ cut \in Nat
          /\ \A h \in 1 .. cut : ag[h] = a[h]
      BY <1>1, <1>2, <1>3, <3>1
    <3> HIDE DEF ag
    <3>3. \A h \in 1 .. cut + 1 : ag[h].is = "header" => h \in 1 .. cut
      <4>1. \A h \in 1 .. cut + 1 : h = cut + 1 \/ h \in 1 .. cut
        BY <3>2
      <4>2. QED
        BY <4>1, <3>2, <2>1
    <3>4. \A h \in 1 .. cut : ag[h].is = "header" => ag[h].commented
      BY <2>2, <1>3, <3>2
    <3>5. \A h \in 1 .. cut : cut + 1 \in h + 1 .. cut + 1
      BY <3>2
    <3>6. ~ag[cut + 1].commented
      BY <3>2, <2>1
    <3>7. QED
      BY <3>2, <3>3, <3>4, <3>5, <3>6 DEF Closed
  <2>6. QED
    BY <2>3, <2>4, <2>5
<1>8. ag \in Seq(S)
  BY <1>1
<1> HIDE DEF ag
<1>9. Mentions(ag \o e, o)
  BY <1>4, <1>5, <1>7, <1>8, MentionsBehind
<1>10. ag \o e = a \o m
  <2>1. Joining!AllIn(S, a, g, e)
    BY ONLY <1>1, <1>4 DEF Joining!AllIn
  <2>2. (a \o g) \o e = a \o (g \o e)
    BY ONLY <2>1, Joining!EitherWay
  <2>3. QED
    BY ONLY <2>2 DEF ag, m
<1>11. a \o m \in Seq(S)
  BY <1>1
<1> HIDE DEF m
<1>12. Mentions((a \o m) \o b, o)
  BY <1>1, <1>9, <1>10, <1>11, MentionsMore
<1>13. QED
  BY <1>1, <1>12

(* The lines the templates are made of, but for the blank ones. *)
LeadingNames == {"executable", "arguments", "retina_mode", "dpi"}
KeyNames == {"exe"} \cup ToSet(PinOrder) \cup ToSet(ScalarOrder)
              \cup {"dll_overrides", "arguments_override", "arguments", "debug_channels", "env"}
Examples ==
  {Prose, Commented(Header(<<"env">>)), Commented(Header(<<"process", "my-rule">>)),
   Commented(Says(<<EnvExample.name>>, String(EnvExample.value)))}
    \cup {Commented(LeadingLine(name)) : name \in LeadingNames}
    \cup {Commented(Assignment(key)) : key \in KeyNames}

(* Every one is commented out, and the headers have a name.                *)
LEMMA ExamplesAre == \A line \in Examples : IsExample(line)
<1>1. ASSUME NEW path, NEW item
      PROVE  IsExample(Commented(Says(path, item)))
  BY DEF IsExample, Commented, Says, Line
<1>2. ASSUME NEW key
      PROVE  \E path, item : Assignment(key) = Says(path, item)
  BY DEF Assignment
<1>3. \A key : IsExample(Commented(Assignment(key)))
  BY <1>1, <1>2
<1>4. \A name : IsExample(Commented(LeadingLine(name)))
  BY <1>1 DEF LeadingLine
<1>5. IsExample(Prose)
  BY DEF IsExample, Prose, Line
<1>6. ASSUME NEW path, path[1] # NoOption
      PROVE  IsExample(Commented(Header(path)))
  BY <1>6 DEF IsExample, Commented, Header, Line
<1>7. IsExample(Commented(Header(<<"env">>))) /\ IsExample(Commented(Header(<<"process", "my-rule">>)))
  <2>1. <<"env">>[1] # NoOption /\ <<"process", "my-rule">>[1] # NoOption
    BY DEF NoOption
  <2>2. QED
    BY <1>6, <2>1
<1>8. QED
  BY <1>1, <1>3, <1>4, <1>5, <1>7 DEF Examples

(* The names of the keys, in the order the templates show them.            *)
LEMMA KeyOrderType ==
  /\ KeyOrder \in Seq(KeyNames) /\ TopKeys \in Seq(KeyNames)
  /\ Leading \in Seq(LeadingNames) /\ Tail(Leading) \in Seq(LeadingNames)
<1>1. KeyOrder \in Seq(KeyNames)
  <2> DEFINE rest == <<"dll_overrides", "arguments_override", "arguments", "debug_channels", "env">>
             first == <<"exe">>
  <2>1. PinOrder \in Seq(ToSet(PinOrder)) /\ ScalarOrder \in Seq(ToSet(ScalarOrder))
    BY DEF PinOrder, ScalarOrder, ToSet
  <2>2. PinOrder \in Seq(KeyNames) /\ ScalarOrder \in Seq(KeyNames)
    BY <2>1 DEF KeyNames
  <2>3. first \in Seq(KeyNames) /\ rest \in Seq(KeyNames)
    BY DEF KeyNames
  <2>4. KeyOrder = ((first \o PinOrder) \o ScalarOrder) \o rest
    BY DEF KeyOrder
  <2> HIDE DEF first, rest
  <2>5. QED
    BY <2>2, <2>3, <2>4
<1>2. Leading \in Seq(LeadingNames) /\ Tail(Leading) \in Seq(LeadingNames)
  <2>1. Leading \in Seq(LeadingNames) /\ Leading # <<>>
    BY DEF Leading, LeadingNames
  <2>2. QED
    BY <2>1
<1>3. TopKeys \in Seq(KeyNames)
  BY <1>1, SelectedType DEF TopKeys, LaunchWideKeys, Filtered
<1>4. QED
  BY <1>1, <1>2, <1>3

(* A template is blocks of such lines.                                     *)
LEMMA TemplateBlocksType ==
  ASSUME NEW source
  PROVE  TemplateBlocks(source) \in Seq(Seq(Examples)) /\ TemplateBlocks(source) # <<>>
<1> DEFINE leading == IF source = "game" THEN Leading ELSE Tail(Leading)
           one == << <<Prose>> >>
           two == [i \in DOMAIN leading |-> <<Prose, Commented(LeadingLine(leading[i]))>>]
           three == [i \in DOMAIN TopKeys |-> <<Prose, Commented(Assignment(TopKeys[i]))>>]
           envs == <<Prose, Commented(Header(<<"env">>)),
                     Commented(Says(<<EnvExample.name>>, String(EnvExample.value)))>>
           rules == <<Prose, Commented(Header(<<"process", "my-rule">>))>> \o RuleExample
<1>1. leading \in Seq(LeadingNames) /\ TopKeys \in Seq(KeyNames) /\ KeyOrder \in Seq(KeyNames)
  BY KeyOrderType
<1>2. RuleExample \in Seq(Examples)
  <2> DEFINE kind(key) == CASE key \in Matchers -> "matcher" [] key \in Switches -> "switch"
                     [] key \in Scalars -> "word" [] key \in Lists -> "list" [] OTHER -> "env"
             earlier(i) == {j \in 1 .. i - 1 : kind(KeyOrder[j]) = kind(KeyOrder[i])}
             I == {i \in DOMAIN KeyOrder :
                           earlier(i) = {} \/ (kind(KeyOrder[i]) = "matcher" /\ earlier(i) = {1})}
             shown == Selected(KeyOrder, I)
  <2>1. RuleExample = [n \in DOMAIN shown |-> Commented(Assignment(shown[n]))]
    BY DEF RuleExample
  <2> HIDE DEF I
  <2>2. shown \in Seq(KeyNames)
    BY <1>1, SelectedType
  <2> HIDE DEF shown
  <2>3. \A n \in DOMAIN shown : Commented(Assignment(shown[n])) \in Examples
    BY <2>2 DEF Examples
  <2>4. QED
    BY <2>1, <2>2, <2>3
<1> HIDE DEF leading
<1>3. Prose \in Examples
  BY DEF Examples
<1>4. one \in Seq(Seq(Examples)) /\ Len(one) = 1
  BY <1>3
<1>5. two \in Seq(Seq(Examples))
  <2>1. \A i \in DOMAIN leading : Commented(LeadingLine(leading[i])) \in Examples
    BY <1>1 DEF Examples
  <2>2. \A i \in DOMAIN leading : two[i] \in Seq(Examples)
    BY <2>1, <1>3
  <2>3. two = [i \in 1 .. Len(leading) |-> two[i]] /\ Len(leading) \in Nat /\ DOMAIN leading = 1 .. Len(leading)
    BY <1>1
  <2> HIDE DEF two
  <2>4. QED
    BY <2>2, <2>3
<1>6. three \in Seq(Seq(Examples))
  <2>1. \A i \in DOMAIN TopKeys : Commented(Assignment(TopKeys[i])) \in Examples
    BY <1>1 DEF Examples
  <2>2. \A i \in DOMAIN TopKeys : three[i] \in Seq(Examples)
    BY <2>1, <1>3
  <2>3. three = [i \in 1 .. Len(TopKeys) |-> three[i]] /\ Len(TopKeys) \in Nat /\ DOMAIN TopKeys = 1 .. Len(TopKeys)
    BY <1>1
  <2> HIDE DEF three
  <2>4. QED
    BY <2>2, <2>3
<1>7. envs \in Seq(Examples)
  BY <1>3 DEF Examples
<1>8. rules \in Seq(Examples)
  <2>1. <<Prose, Commented(Header(<<"process", "my-rule">>))>> \in Seq(Examples)
    BY <1>3 DEF Examples
  <2>2. QED
    BY <2>1, <1>2
<1>9. TemplateBlocks(source) = ((one \o two) \o three) \o <<envs, rules>>
  BY DEF TemplateBlocks, leading
<1> HIDE DEF one, two, three, envs, rules
<1>10. one \o two \in Seq(Seq(Examples)) /\ Len(one \o two) = 1 + Len(two)
  <2> DEFINE B == Seq(Examples)
  <2>1. one \in Seq(B) /\ two \in Seq(B) /\ Len(one) = 1
    BY <1>4, <1>5
  <2> HIDE DEF B
  <2>2. one \in Seq(B) /\ two \in Seq(B)
    BY ONLY <2>1
  <2>3. one \o two \in Seq(B) /\ Len(one \o two) = Len(one) + Len(two)
    BY ONLY <2>2
  <2>4. QED
    BY <2>1, <2>3 DEF B
<1>11. (one \o two) \o three \in Seq(Seq(Examples)) /\ Len((one \o two) \o three) = 1 + Len(two) + Len(three)
  <2> DEFINE x == one \o two
  <2>1. x \in Seq(Seq(Examples)) /\ Len(x) = 1 + Len(two)
    BY <1>10
  <2> HIDE DEF x
  <2> DEFINE B == Seq(Examples)
  <2>2. x \in Seq(B) /\ three \in Seq(B)
    BY <2>1, <1>6
  <2> HIDE DEF B
  <2>3. x \o three \in Seq(B) /\ Len(x \o three) = Len(x) + Len(three)
    BY ONLY <2>2
  <2>4. QED
    BY <2>1, <2>3 DEF x, B
<1>12. QED
  <2> DEFINE x == (one \o two) \o three
  <2>1. x \in Seq(Seq(Examples))
    BY <1>11
  <2> HIDE DEF x
  <2>2. x \o <<envs, rules>> \in Seq(Seq(Examples)) /\ Len(x \o <<envs, rules>>) = Len(x) + 2 /\ Len(x) \in Nat
    BY <2>1, <1>7, <1>8
  <2>3. QED
    BY <2>2, <1>9 DEF x

(* Taken apart at its blank lines, a template is its blocks (blocks).      *)
LEMMA TemplateIs ==
  ASSUME NEW source
  PROVE  /\ Template(source) \in Seq(Examples \cup {Blank})
         /\ Blocks(Template(source)) \in Seq(Seq(Examples))
<1> DEFINE S == Examples \cup {Blank}
           ts == TemplateBlocks(source)
<1>1. ts \in Seq(Seq(Examples)) /\ ts # <<>>
  BY TemplateBlocksType
<1>2. ts \in Seq(Seq(S)) /\ Blank \in S
  BY <1>1
<1>3. \A line \in Examples : line # Blank
  <2>1. ~IsExample(Blank)
    BY DEF IsExample, Blank, Line
  <2>2. QED
    BY <2>1, ExamplesAre
<1> HIDE DEF ts
<1>4. \A i \in 1 .. Len(ts) : Lacks(ts[i], Blank)
  <2>1. ASSUME NEW i \in 1 .. Len(ts)
        PROVE  Lacks(ts[i], Blank)
    <3>1. ts[i] \in Seq(Examples)
      BY <1>1
    <3>2. \A k \in 1 .. Len(ts[i]) : ts[i][k] \in Examples
      BY <3>1
    <3>3. QED
      BY <3>2, <1>3 DEF Lacks
  <2>2. QED
    BY <2>1
<1> HIDE DEF S
<1>5. Join(ts, Blank) \in Seq(S) /\ Split(Join(ts, Blank), Blank) = ts
  BY <1>1, <1>2, <1>4, SplitOfJoin
<1>6. Blocks(Template(source)) = Selected(ts, {i \in DOMAIN ts : ts[i] # <<>>})
  <2>1. Split(Template(source), Blank) = ts
    BY <1>5 DEF Template, ts
  <2>2. QED
    BY <2>1 DEF Blocks, Filtered
<1>7. QED
  BY <1>1, <1>5, <1>6, SelectedType DEF Template, ts, S

(* The blocks of the options that a text does not mention.                 *)
Missing(text, blocks) ==
  Selected(blocks, {k \in DOMAIN blocks :
                      BlockOption(blocks[k]) # NoOption /\ ~Mentions(text, BlockOption(blocks[k]))})

LEMMA SyncIs ==
  ASSUME NEW text, NEW template
  PROVE  SyncTemplate(text, template) =
           IF Missing(text, Blocks(template)) = <<>> THEN text
           ELSE InsertBlocks(text, Missing(text, Blocks(template)))
BY DEF SyncTemplate, Missing, Filtered

(* Where every option of a template is mentioned nothing is missing.       *)
LEMMA NothingMissing ==
  ASSUME NEW S, NEW bs \in Seq(S), NEW u,
         \A k \in 1 .. Len(bs) : BlockOption(bs[k]) # NoOption => Mentions(u, BlockOption(bs[k]))
  PROVE  Missing(u, bs) = <<>>
<1> DEFINE I == {k \in DOMAIN bs : BlockOption(bs[k]) # NoOption /\ ~Mentions(u, BlockOption(bs[k]))}
<1>1. I = {}
  OBVIOUS
<1>2. Missing(u, bs) = Selected(bs, I)
  BY DEF Missing
<1> HIDE DEF I
<1>3. QED
  BY <1>1, <1>2, SelectedNone

(* sync_template: the text with the missing blocks mentions every option,  *)
(* those it mentioned and those that were missing.                         *)
LEMMA InsertedMentions ==
  ASSUME NEW S, Blank \in S, Examples \subseteq S, NEW t \in Seq(S), NEW bs \in Seq(Seq(Examples)),
         NEW k \in 1 .. Len(bs), BlockOption(bs[k]) # NoOption
  PROVE  Mentions(InsertBlocks(t, Missing(t, bs)), BlockOption(bs[k]))
<1> DEFINE o == BlockOption(bs[k])
           ms == Missing(t, bs)
           I == {j \in DOMAIN bs : BlockOption(bs[j]) # NoOption /\ ~Mentions(t, BlockOption(bs[j]))}
<1>1. ms = Selected(bs, I)
  BY DEF Missing
<1>2. k \in I \/ Mentions(t, o)
  OBVIOUS
<1>2a. o # NoOption /\ bs[k] = bs[k]
  OBVIOUS
<1> HIDE DEF I
<1>3. ms \in Seq(Seq(Examples))
  BY <1>1, SelectedType
<1> HIDE DEF ms
<1>4. ms \in Seq(Seq(S))
  BY <1>3
<1>5. Mentions(WithBlocks(t, ms), o)
  <2>1. CASE Mentions(t, o)
    <3> HIDE DEF o
    <3>1. QED
      BY <1>4, <2>1, StillMentions
  <2>2. CASE k \in I
    <3>1. PICK at : IsPlaced(ms, bs, I, at)
      BY <1>1, SelectedInOrder
    <3>2. PICK j \in 1 .. Len(ms) : at[j] = k
      BY <2>2, <3>1 DEF IsPlaced
    <3>3. ms[j] = bs[k]
      BY <3>1, <3>2 DEF IsPlaced
    <3>4. BlockOption(ms[j]) = o
      BY <3>3
    <3> HIDE DEF o
    <3>5. Mentions(EndedBlocks(ms), o)
      BY ONLY <1>2a, <1>3, <3>2, <3>4, ExamplesAre, EndedMentions
    <3>6. QED
      BY <1>4, <3>5, NowMentions
  <2>3. QED
    BY <1>2, <2>1, <2>2
<1>6. InsertBlocks(t, ms) = Trimmed(WithBlocks(t, ms)) /\ WithBlocks(t, ms) \in Seq(S)
  BY <1>4, InsertBlocksIs
<1> HIDE DEF o
<1>7. Mentions(Trimmed(WithBlocks(t, ms)), o)
  BY <1>5, <1>6, TrimmedMentions
<1>8. QED
  BY <1>6, <1>7 DEF o, ms

(* Nothing that is put in is live.                                         *)
LEMMA EndedQuiet ==
  ASSUME NEW bs \in Seq(Seq(Examples))
  PROVE  \A i \in 1 .. Len(EndedBlocks(bs)) : ~Live(EndedBlocks(bs)[i])
<1> DEFINE S == Examples \cup {Blank}
           e == EndedBlocks(bs)
<1>1. bs \in Seq(Seq(S)) /\ Blank \in S
  OBVIOUS
<1>2. \A line \in S : ~Live(line)
  <2>1. \A line \in Examples : ~Live(line)
    BY ExamplesAre DEF IsExample, Live
  <2>2. ~Live(Blank)
    BY DEF Live, Blank, Line
  <2>3. QED
    BY <2>1, <2>2
<1> HIDE DEF S
<1>3. e \in Seq(S)
  BY <1>1, EndedType
<1> HIDE DEF e
<1>4. \A i \in 1 .. Len(e) : ~Live(e[i])
  BY <1>2, <1>3
<1>5. QED
  BY <1>4 DEF e

(* A text and its template in step (sync_template): no line is lost, what  *)
(* the text says stays, and once more nothing is missing.                  *)
LEMMA SyncKeeps ==
  ASSUME NEW S, Blank \in S, Examples \subseteq S, NEW t \in Seq(S), NEW source
  PROVE  LET u == SyncTemplate(t, Template(source))
         IN /\ u \in Seq(S)
            /\ Grown(Lines(t), Lines(u))
            /\ Document(u) = Document(t)
            /\ SyncTemplate(u, Template(source)) = u
<1> DEFINE template == Template(source)
           bs == Blocks(template)
           ms == Missing(t, bs)
           u == SyncTemplate(t, template)
<1>1. bs \in Seq(Seq(Examples))
  BY TemplateIs
<1>2. u = IF ms = <<>> THEN t ELSE InsertBlocks(t, ms)
  BY SyncIs
<1> HIDE DEF template
<1>3. CASE ms = <<>>
  <2>1. u = t
    BY <1>2, <1>3
  <2>2. Grown(Lines(t), Lines(t))
    <3> DEFINE l == Lines(t)
    <3>1. l \in Seq(S)
      BY LinesType
    <3> HIDE DEF l
    <3>2. Grown(l \o <<>>, (l \o <<>>) \o <<>>)
      BY <3>1, GrownIs, Joining!EmptyInSeq
    <3>3. l \o <<>> = l
      BY <3>1, Joining!Concat, Joining!EmptyInSeq
    <3>4. QED
      BY <3>2, <3>3 DEF l
  <2>3. SyncTemplate(t, template) = t
    BY <2>1
  <2>4. QED
    BY <2>1, <2>2, <2>3 DEF template
<1>4. CASE ms # <<>>
  <2>1. u = InsertBlocks(t, ms)
    BY <1>2, <1>4
  <2> DEFINE I == {j \in DOMAIN bs : BlockOption(bs[j]) # NoOption /\ ~Mentions(t, BlockOption(bs[j]))}
  <2>2. ms = Selected(bs, I)
    BY DEF Missing
  <2> HIDE DEF bs, I
  <2>3. ms \in Seq(Seq(Examples))
    BY <1>1, <2>2, SelectedType
  <2>4. ms \in Seq(Seq(S))
    <3> HIDE DEF ms
    <3>1. QED
      BY <2>3
  <2>5. \A i \in 1 .. Len(EndedBlocks(ms)) : ~Live(EndedBlocks(ms)[i])
    BY <2>3, EndedQuiet
  <2>6. Document(u) = Document(t) /\ u \in Seq(S)
    <3> HIDE DEF ms, u
    <3>1. QED
      BY <2>1, <2>4, <2>5, InsertSays
  <2>7. Grown(Lines(t), Lines(u))
    <3> HIDE DEF ms, u
    <3>1. QED
      BY <2>1, <2>4, InsertGrows
  <2>8. Missing(u, bs) = <<>>
    <3>1. \A k \in 1 .. Len(bs) : BlockOption(bs[k]) # NoOption => Mentions(InsertBlocks(t, ms), BlockOption(bs[k]))
      BY <1>1, InsertedMentions
    <3> HIDE DEF ms, u
    <3>2. \A k \in 1 .. Len(bs) : BlockOption(bs[k]) # NoOption => Mentions(u, BlockOption(bs[k]))
      BY <2>1, <3>1
    <3>3. QED
      BY <1>1, <3>2, NothingMissing
  <2>9. SyncTemplate(u, template) = u
    <3> HIDE DEF ms, u
    <3>1. SyncTemplate(u, template) =
            IF Missing(u, Blocks(template)) = <<>> THEN u ELSE InsertBlocks(u, Missing(u, Blocks(template)))
      BY SyncIs
    <3>2. QED
      BY <3>1, <2>8 DEF bs
  <2>10. QED
    <3> HIDE DEF ms
    <3>1. QED
      BY <2>6, <2>7, <2>9 DEF template
<1>5. QED
  BY <1>3, <1>4

(* A sequence of anything is one of its own elements.                      *)
LEMMA SequenceIs ==
  ASSUME NEW S, NEW s \in Seq(S)
  PROVE  IsSequence(s)
<1>1. \A i \in 1 .. Len(s) : s[i] \in ToSet(s)
  BY DEF ToSet
<1>2. s \in Seq(ToSet(s))
  BY <1>1, SeqIn
<1>3. QED
  BY <1>2 DEF IsSequence

(* set_option makes a text a text.                                         *)
LEMMA SetOptionType ==
  ASSUME NEW S, Blank \in S, NEW t \in Seq(S), NEW option, NEW item,
         Says(<<option>>, item) \in S
  PROVE  SetOption(t, option, item) \in Seq(S)
<1> DEFINE i == SelectInSeq(t, LAMBDA line : IsOption(line, option))
           x == Says(<<option>>, item)
           bs == << <<x>> >>
<1>1. SetOption(t, option, item) = IF i = 0 THEN InsertBlocks(t, bs) ELSE [t EXCEPT ![i] = x]
  BY DEF SetOption
<1>2. x \in S
  OBVIOUS
<1> HIDE DEF i, x
<1>3. InsertBlocks(t, bs) \in Seq(S)
  <2>1. bs \in Seq(Seq(S))
    BY <1>2
  <2> HIDE DEF bs
  <2>2. InsertBlocks(t, bs) = Trimmed(WithBlocks(t, bs)) /\ WithBlocks(t, bs) \in Seq(S)
    BY <2>1, InsertBlocksIs
  <2>3. QED
    BY <2>2, TrimmedDocument
<1>4. [t EXCEPT ![i] = x] \in Seq(S)
  <2> DEFINE n == Len(t)
  <2>1. n \in Nat /\ t \in [1 .. n -> S]
    OBVIOUS
  <2> HIDE DEF n
  <2>2. [t EXCEPT ![i] = x] \in [1 .. n -> S]
    BY <1>2, <2>1
  <2>3. QED
    BY <2>1, <2>2
<1>5. QED
  BY <1>1, <1>3, <1>4

(* A set in order has all of it.                                           *)
LEMMA SetToSeqIs ==
  ASSUME NEW S, IsFiniteSet(S)
  PROVE  LET s == SetToSeq(S)
         IN s \in Seq(S) /\ {s[i] : i \in DOMAIN s} = S
<1> DEFINE n == Cardinality(S)
           F == [1 .. n -> S]
           s == SetToSeq(S)
<1>1. n \in Nat /\ ExistsBijection(1 .. n, S)
  BY FS_CardinalityType
<1>2. \E f \in F : IsInjective(f)
  BY <1>1 DEF ExistsBijection, Bijection, Injection
<1>3. s = CHOOSE f \in F : IsInjective(f)
  BY DEF SetToSeq
<1>4. s \in F /\ IsInjective(s)
  BY <1>2, <1>3
<1> HIDE DEF s
<1>5. s \in Injection(1 .. n, S)
  BY <1>4 DEF Injection
<1>6. IsFiniteSet(1 .. n) /\ Cardinality(1 .. n) = n
  BY <1>1, FS_Interval
<1>7. s \in Surjection(1 .. n, S)
  BY <1>5, <1>6, FS_Injection
<1>8. DOMAIN s = 1 .. n /\ \A y \in S : \E i \in 1 .. n : s[i] = y
  BY <1>4, <1>7 DEF Surjection
<1>9. s \in Seq(S)
  <2> HIDE DEF n
  <2>1. QED
    BY <1>1, <1>4
<1>10. \A i \in 1 .. n : s[i] \in S
  BY <1>4
<1> HIDE DEF n, F
<1>11. {s[i] : i \in DOMAIN s} = S
  BY <1>8, <1>10
<1>12. QED
  BY <1>9, <1>11 DEF s

(* It is a sequence of its elements.                                       *)
LEMMA SetToSeqType ==
  ASSUME NEW S, IsFiniteSet(S)
  PROVE  SetToSeq(S) \in Seq(S)
BY SetToSeqIs

(* The variables typed into the window are finitely many (parse_env_lines).*)
LEMMA EnvIsFinite ==
  ASSUME NEW lines, IsSequence(lines)
  PROVE  IsFiniteSet(DOMAIN EnvLines(lines).env)
<1> DEFINE S == ToSet(lines)
           said == Filtered(lines, LAMBDA line : Trim(line) # <<>>)
           pairs == [i \in DOMAIN said |->
                       [name |-> Trim(Before(said[i])), value |-> Trim(After(said[i]))]]
           N == {pairs[i].name[1] : i \in DOMAIN pairs}
           f == [i \in DOMAIN said |-> pairs[i].name[1]]
<1>1. lines \in Seq(S)
  BY DEF IsSequence
<1>2. said \in Seq(S)
  BY <1>1, SelectedType DEF Filtered
<1>3. EnvLines(lines).env = AsMap(pairs)
  BY DEF EnvLines
<1>4. DOMAIN AsMap(pairs) = N
  BY DEF AsMap
<1> HIDE DEF said
<1>5. DOMAIN pairs = DOMAIN said
  OBVIOUS
<1> HIDE DEF pairs
<1>6. IsFiniteSet(DOMAIN said)
  <2>1. DOMAIN said = 1 .. Len(said) /\ Len(said) \in Int /\ 1 \in Int
    BY <1>2
  <2>2. QED
    BY <2>1, FS_Interval
<1>7. f \in Surjection(DOMAIN said, N)
  BY <1>5 DEF Surjection
<1> HIDE DEF f, N
<1>8. IsFiniteSet(N)
  BY <1>6, <1>7, FS_Surjection
<1>9. QED
  BY <1>3, <1>4, <1>8

(* A file that is made of what was typed is a text (game_text).            *)
LEMMA GameTextType ==
  ASSUME NEW typed, IsFiniteSet(DOMAIN typed.env)
  PROVE  IsSequence(GameText(typed))
<1> DEFINE executable == Says(<<"executable">>, String(typed.executable))
           items == [i \in DOMAIN typed.arguments |-> String(typed.arguments[i])]
           arguments == Says(<<"arguments">>, [array |-> items])
           variable(n) == Says(<<n>>, String(typed.env[n]))
           S == Examples \cup {Blank, Header(<<"env">>), executable, arguments}
                  \cup {variable(n) : n \in DOMAIN typed.env}
           named == SetOption(Template("game"), "executable", String(typed.executable))
           given == IF items = <<>> THEN named ELSE SetOption(named, "arguments", [array |-> items])
           names == SetToSeq(DOMAIN typed.env)
           last == [i \in DOMAIN names |-> variable(names[i])]
<1>1. GameText(typed) = IF typed.env = <<>> THEN given ELSE AppendEnv(given, typed.env)
  BY DEF GameText
<1>2. AppendEnv(given, typed.env) = (Trimmed(given) \o <<Blank, Header(<<"env">>)>>) \o last
  BY DEF AppendEnv
<1>3. /\ Blank \in S /\ Header(<<"env">>) \in S /\ executable \in S /\ arguments \in S
      /\ Examples \cup {Blank} \subseteq S
      /\ \A n \in DOMAIN typed.env : variable(n) \in S
  OBVIOUS
<1> HIDE DEF items, S
<1>4. Template("game") \in Seq(S)
  <2> DEFINE E == Examples \cup {Blank}
             t == Template("game")
  <2>1. t \in Seq(E) /\ E \subseteq S
    BY <1>3, TemplateIs
  <2> HIDE DEF E, t
  <2>2. t \in Seq(S)
    BY <2>1
  <2>3. QED
    BY <2>2 DEF t
<1>5. named \in Seq(S)
  BY <1>3, <1>4, SetOptionType
<1> HIDE DEF named
<1>6. given \in Seq(S)
  BY <1>3, <1>5, SetOptionType
<1>7. names \in Seq(DOMAIN typed.env)
  BY SetToSeqType
<1> HIDE DEF given, names
<1>8. last \in Seq(S)
  <2>1. /\ Len(names) \in Nat /\ DOMAIN names = 1 .. Len(names)
        /\ \A i \in 1 .. Len(names) : names[i] \in DOMAIN typed.env
    BY <1>7
  <2>2. \A i \in 1 .. Len(names) : last[i] \in S
    BY <1>3, <2>1
  <2>3. last = [i \in 1 .. Len(names) |-> last[i]]
    BY <2>1
  <2> HIDE DEF last
  <2>4. QED
    BY <2>1, <2>2, <2>3
<1>9. Trimmed(given) \in Seq(S)
  BY <1>6, TrimmedDocument
<1> DEFINE env == <<Blank, Header(<<"env">>)>>
           head == Trimmed(given)
<1>10. env \in Seq(S)
  BY <1>3
<1> HIDE DEF last, env, head
<1>11. (head \o env) \o last \in Seq(S)
  <2>1. head \in Seq(S)
    BY <1>9 DEF head
  <2>2. head \o env \in Seq(S)
    BY <2>1, <1>10
  <2>3. QED
    BY <2>2, <1>8
<1>12. AppendEnv(given, typed.env) \in Seq(S)
  BY <1>2, <1>11 DEF head, env
<1>13. GameText(typed) \in Seq(S)
  BY <1>1, <1>6, <1>12
<1>14. QED
  BY <1>13, SequenceIs

(* load_file: a text that is refused is left, any other gets what it does  *)
(* not mention.                                                            *)
LEMMA LoadFileIs ==
  ASSUME NEW t, NEW source
  PROVE  \/ LoadFile(t, source).fault # Ok /\ LoadFile(t, source).text = t
         \/ /\ LoadFile(t, source).fault = Ok
            /\ LoadFile(t, source).text = SyncTemplate(t, Template(source))
<1>1. NotLoaded(t).fault # Ok /\ NotLoaded(t).text = t
  BY DEF NotLoaded, Ok
<1>2. ASSUME NEW u, NEW r
      PROVE  ToppedUp(u, r).fault = Ok /\ ToppedUp(u, r).text = u
  BY DEF ToppedUp
<1>3. ASSUME NEW r
      PROVE  \/ Checked(t, source, r) = NotLoaded(t)
             \/ Checked(t, source, r) = ToppedUp(SyncTemplate(t, Template(source)), r)
  BY DEF Checked
<1>4. \/ LoadFile(t, source) = NotLoaded(t)
      \/ LoadFile(t, source) = Checked(t, source, FromDocument(Document(t).table, source))
  BY DEF LoadFile, LoadDocument
<1>5. QED
  BY <1>1, <1>2, <1>3, <1>4

(* A text that is topped up is a text, and kept.                           *)
LEMMA ToppedUpKeeps ==
  ASSUME NEW t, IsSequence(t), NEW source
  PROVE  LET u == SyncTemplate(t, Template(source))
         IN /\ IsSequence(u)
            /\ Grown(Lines(t), Lines(u))
            /\ Document(u) = Document(t)
            /\ SyncTemplate(u, Template(source)) = u
<1> DEFINE T == ToSet(t)
           S == (T \cup Examples) \cup {Blank}
           u == SyncTemplate(t, Template(source))
<1>1. t \in Seq(T)
  BY DEF IsSequence
<1>2. Blank \in S /\ Examples \subseteq S /\ T \subseteq S
  OBVIOUS
<1> HIDE DEF T, S
<1>3. t \in Seq(S)
  BY <1>1, <1>2
<1>4. /\ u \in Seq(S)
      /\ Grown(Lines(t), Lines(u))
      /\ Document(u) = Document(t)
      /\ SyncTemplate(u, Template(source)) = u
  BY <1>2, <1>3, SyncKeeps
<1>5. QED
  BY <1>4, SequenceIs

(* What the files hold are texts, and a game file is there when it is read.*)
TextIn(file) == file # <<>> => file = <<file[1]>> /\ IsSequence(file[1])
FilesAreTexts ==
  /\ TextIn(defaults) /\ TextIn(game)
  /\ pc = "defaults" /\ over.executable = <<>> => game # <<>>
  /\ pc = "game" => game # <<>>
  /\ pc \in {"merge", "resolve", "pick"} => IsSequence(own.text)

(* A file with one text in it.                                             *)
LEMMA TextInOne ==
  ASSUME NEW t, IsSequence(t)
  PROVE  TextIn(<<t>>)
BY DEF TextIn

(* load_file gives a text for a text.                                      *)
LEMMA LoadFileType ==
  ASSUME NEW t, IsSequence(t), NEW source
  PROVE  IsSequence(LoadFile(t, source).text)
BY LoadFileIs, ToppedUpKeeps

(* A template is a text.                                                   *)
LEMMA TemplateType ==
  ASSUME NEW source
  PROVE  IsSequence(Template(source))
BY TemplateIs, SequenceIs

(* The files start as texts. *)
LEMMA InitTexts == Init => FilesAreTexts
<1>1. ASSUME Init
      PROVE  FilesAreTexts
  <2>1. defaults = <<>> \/ \E t \in DefaultsFiles : defaults = <<t>>
    BY <1>1 DEF Init
  <2>2. game = <<>> \/ \E t \in GameTexts : game = <<t>>
    BY <1>1 DEF Init
  <2>3. \A t \in DefaultsFiles \cup GameTexts : TextIn(<<t>>)
    BY LinesAssumption, TextInOne
  <2>4. TextIn(<<>>)
    BY DEF TextIn
  <2>5. TextIn(defaults) /\ TextIn(game)
    BY <2>1, <2>2, <2>3, <2>4
  <2>6. QED
    BY <1>1, <2>5 DEF Init, FilesAreTexts
<1>2. QED
  BY <1>1

(* What is saved from the window is a text (GameSpec::save).               *)
LEMMA TypedIsText ==
  ASSUME NEW form \in Forms, NEW typed, typed = GameSpec(form, there), typed # <<>>
  PROVE  IsSequence(GameText(typed[1]))
<1>1. typed[1].env = EnvLines(form.env).env
  BY DEF GameSpec
<1>2. IsSequence(form.env)
  BY LinesAssumption
<1>3. IsFiniteSet(DOMAIN typed[1].env)
  BY <1>1, <1>2, EnvIsFinite
<1>4. QED
  BY <1>3, GameTextType

(* And every step leaves them texts. *)
LEMMA NextTexts ==
  ASSUME FilesAreTexts, [Next]_vars
  PROVE  FilesAreTexts'
<1>1. TextIn(defaults) /\ TextIn(game)
  BY DEF FilesAreTexts
<1>2. CASE Start
  BY <1>2 DEF Start, FilesAreTexts, files, loaded, TextIn
<1>3. CASE Parse
  BY <1>3 DEF Parse, FilesAreTexts, files, loaded, TextIn
<1>4. CASE Answer
  <2>1. PICK form \in Forms :
          \E typed \in {GameSpec(form, there)} :
            /\ typed # <<>>
            /\ spec' = typed
            /\ \/ args' = OverrideArgs(typed[1]) /\ UNCHANGED game
               \/ args' = <<>> /\ game' = <<GameText(typed[1])>>
    BY <1>4 DEF Answer
  <2>2. game' = game \/ TextIn(game)'
    <3>1. PICK typed \in {GameSpec(form, there)} :
            /\ typed # <<>>
            /\ game' = game \/ game' = <<GameText(typed[1])>>
      BY <2>1
    <3>2. IsSequence(GameText(typed[1]))
      BY <3>1, TypedIsText
    <3>3. TextIn(<<GameText(typed[1])>>)
      BY <3>2, TextInOne
    <3>4. CASE game' = <<GameText(typed[1])>>
      BY <3>3, <3>4 DEF TextIn
    <3>5. QED
      BY <3>1, <3>4
  <2>3. TextIn(game)'
    BY <1>1, <2>2 DEF TextIn
  <2>4. pc' = "parse" /\ defaults' = defaults
    BY <1>4 DEF Answer
  <2>5. TextIn(defaults)'
    BY <1>1, <2>4 DEF TextIn
  <2>6. QED
    BY <2>3, <2>4, <2>5 DEF FilesAreTexts
<1>5. CASE ReadDefaults
  <2>1. \E t : IsSequence(t) /\ defaults' = <<LoadFile(t, "defaults").text>>
    <3>1. IsSequence(IF defaults = <<>> THEN Template("defaults") ELSE defaults[1])
      BY <1>1, TemplateType DEF TextIn
    <3>2. QED
      BY <1>5, <3>1 DEF ReadDefaults
  <2>2. TextIn(defaults)'
    <3>1. PICK t : IsSequence(t) /\ defaults' = <<LoadFile(t, "defaults").text>>
      BY <2>1
    <3>2. TextIn(<<LoadFile(t, "defaults").text>>)
      BY <3>1, LoadFileType, TextInOne
    <3>3. QED
      BY <3>1, <3>2 DEF TextIn
  <2>3. /\ game' = game /\ pc = "defaults"
        /\ pc' \in {"refused", "cli", "game"}
        /\ pc' = "game" => over.executable = <<>>
    BY <1>5 DEF ReadDefaults
  <2>4. TextIn(game)'
    BY <1>1, <2>3 DEF TextIn
  <2>5. QED
    BY <2>2, <2>3, <2>4 DEF FilesAreTexts
<1>6. CASE TakeExecutable
  BY <1>6 DEF TakeExecutable, FilesAreTexts, files, TextIn
<1>7. CASE ReadGame
  <2>1. IsSequence(game[1])
    BY <1>1, <1>7 DEF ReadGame, FilesAreTexts, TextIn
  <2>2. IsSequence(LoadFile(game[1], "game").text)
    BY <2>1, LoadFileType
  <2>3. /\ game' = <<LoadFile(game[1], "game").text>>
        /\ own' = LoadFile(game[1], "game")
        /\ pc' \in {"refused", "merge"} /\ defaults' = defaults
    BY <1>7 DEF ReadGame
  <2>4. TextIn(<<LoadFile(game[1], "game").text>>)
    BY <2>2, TextInOne
  <2>5. TextIn(game)' /\ TextIn(defaults)' /\ IsSequence(own.text)'
    BY <1>1, <2>2, <2>3, <2>4 DEF TextIn, IsSequence
  <2>6. QED
    BY <2>3, <2>5 DEF FilesAreTexts
<1>8. CASE Merge
  BY <1>8 DEF Merge, FilesAreTexts, files, TextIn, IsSequence
<1>9. CASE ResolveFile
  BY <1>9 DEF ResolveFile, FilesAreTexts, files, TextIn, IsSequence
<1>10. CASE Pick
  <2>1. PICK path \in there : game' = <<SetOption(own.text, "executable", String(path))>>
    BY <1>10 DEF Pick
  <2> DEFINE t == own.text
             x == Says(<<"executable">>, String(path))
             T == ToSet(t)
             S == T \cup {Blank, x}
             u == SetOption(t, "executable", String(path))
  <2>2. IsSequence(t)
    BY <1>10 DEF Pick, FilesAreTexts
  <2>3. t \in Seq(T)
    BY <2>2 DEF IsSequence
  <2>4. Blank \in S /\ x \in S /\ T \subseteq S
    OBVIOUS
  <2> HIDE DEF T, S
  <2>5. t \in Seq(S)
    BY <2>3, <2>4
  <2>6. u \in Seq(S)
    BY <2>4, <2>5, SetOptionType
  <2>7. TextIn(<<u>>)
    BY <2>6, SequenceIs, TextInOne
  <2>8. pc' = "overlay" /\ defaults' = defaults /\ game' = <<u>>
    BY <1>10, <2>1 DEF Pick
  <2> HIDE DEF u
  <2>9. TextIn(game)' /\ TextIn(defaults)'
    BY <1>1, <2>7, <2>8 DEF TextIn
  <2>10. QED
    BY <2>8, <2>9 DEF FilesAreTexts
<1>11. CASE Run
  BY <1>11 DEF Run, FilesAreTexts, files, TextIn
<1>12. CASE End
  BY <1>12 DEF End, FilesAreTexts, files, TextIn
<1>13. CASE GameMoves
  BY <1>13 DEF GameMoves, FilesAreTexts, TextIn
<1>14. CASE UNCHANGED vars
  BY <1>14 DEF vars, files, loaded, FilesAreTexts, TextIn, IsSequence
<1>15. QED
  BY <1>2, <1>3, <1>4, <1>5, <1>6, <1>7, <1>8, <1>9, <1>10, <1>11, <1>12, <1>13, <1>14 DEF Next

(* The files of a launch are texts, whoever wrote them.                    *)
THEOREM FilesStayTexts == Spec => []FilesAreTexts
<1>1. QED
  BY InitTexts, NextTexts, PTL DEF Spec

(* A file that load_file leaves or tops up is kept.                        *)
LEMMA LoadKeeps ==
  ASSUME NEW file, NEW new, NEW source, TextIn(file), NEW loaded_,
         file # <<>> => loaded_ = LoadFile(file[1], source),
         new = <<loaded_.text>>, pc' = "refused" <=> loaded_.fault # Ok
  PROVE  Kept(file, new, source)
<1>1. SUFFICES ASSUME file # <<>>
               PROVE  IF pc' = "refused" THEN new = file
                      ELSE /\ Grown(Lines(file[1]), Lines(new[1]))
                           /\ Document(new[1]) = Document(file[1])
                           /\ SyncTemplate(new[1], Template(source)) = new[1]
  BY DEF Kept
<1> DEFINE t == file[1]
<1>2. file = <<t>> /\ IsSequence(t) /\ loaded_ = LoadFile(t, source)
  BY <1>1 DEF TextIn
<1> HIDE DEF t
<1>3. CASE pc' = "refused"
  <2>1. loaded_.text = t
    BY <1>2, <1>3, LoadFileIs
  <2>2. QED
    BY <1>2, <1>3, <2>1
<1>4. CASE pc' # "refused"
  <2>1. loaded_.text = SyncTemplate(t, Template(source))
    BY <1>2, <1>4, LoadFileIs
  <2> DEFINE u == SyncTemplate(t, Template(source))
  <2>2. /\ Grown(Lines(t), Lines(u)) /\ Document(u) = Document(t)
        /\ SyncTemplate(u, Template(source)) = u
    BY <1>2, ToppedUpKeeps
  <2>3. new[1] = u
    BY <2>1
  <2> HIDE DEF u
  <2>4. QED
    BY <1>4, <2>2, <2>3 DEF t
<1>5. QED
  BY <1>3, <1>4

(* Reading a file keeps it, whatever texts there are.                      *)
LEMMA ReadingKeeps ==
  ASSUME FilesAreTexts, Next
  PROVE  /\ pc = "defaults" => Kept(defaults, defaults', "defaults")
         /\ pc = "game" => Kept(game, game', "game")
<1>1. TextIn(defaults) /\ TextIn(game)
  BY DEF FilesAreTexts
<1>2. ASSUME pc = "defaults"
      PROVE  Kept(defaults, defaults', "defaults")
  <2>1. ReadDefaults
    BY <1>2 DEF Next, Start, Parse, Answer, TakeExecutable, ReadGame, Merge, ResolveFile, Pick, Run,
                End, GameMoves
  <2> DEFINE f == LoadFile(IF defaults = <<>> THEN Template("defaults") ELSE defaults[1], "defaults")
  <2>2. /\ defaults' = <<f.text>>
        /\ pc' = IF f.fault # Ok THEN "refused" ELSE IF over.executable # <<>> THEN "cli" ELSE "game"
    BY <2>1 DEF ReadDefaults
  <2>3. defaults # <<>> => f = LoadFile(defaults[1], "defaults")
    OBVIOUS
  <2> HIDE DEF f
  <2>4. pc' = "refused" <=> f.fault # Ok
    <3>1. CASE f.fault # Ok
      <4>1. pc' = "refused"
        BY <2>2, <3>1
      <4>2. QED
        BY <3>1, <4>1
    <3>2. CASE f.fault = Ok
      <4>1. pc' \in {"cli", "game"}
        BY <2>2, <3>2
      <4>2. QED
        BY <3>2, <4>1
    <3>3. QED
      BY <3>1, <3>2
  <2>5. QED
    BY <1>1, <2>2, <2>3, <2>4, LoadKeeps
<1>3. ASSUME pc = "game"
      PROVE  Kept(game, game', "game")
  <2>1. ReadGame
    BY <1>3 DEF Next, Start, Parse, Answer, TakeExecutable, ReadDefaults, Merge, ResolveFile, Pick, Run,
                End, GameMoves
  <2> DEFINE f == LoadFile(game[1], "game")
  <2>2. game' = <<f.text>> /\ pc' = IF f.fault # Ok THEN "refused" ELSE "merge"
    BY <2>1 DEF ReadGame
  <2>3. game # <<>> => f = LoadFile(game[1], "game")
    OBVIOUS
  <2> HIDE DEF f
  <2>4. pc' = "refused" <=> f.fault # Ok
    BY <2>2
  <2>5. QED
    BY <1>1, <2>2, <2>3, <2>4, LoadKeeps
<1>4. QED
  BY <1>2, <1>3

(* Reading a file leaves what it says alone (template.rs:232-293), of any  *)
(* text, with any words, keys and rules.                                   *)
THEOREM TopUpHolds == Spec => TopUpKeepsTheFile
<1>1. FilesAreTexts /\ [Next]_vars =>
        [/\ pc = "defaults" => Kept(defaults, defaults', "defaults")
         /\ pc = "game" => Kept(game, game', "game")]_vars
  BY ReadingKeeps
<1>2. QED
  BY <1>1, FilesStayTexts, PTL DEF Spec, TopUpKeepsTheFile

----------------------------------------------------------------------------
(* Words *)

(* The characters that words and batches are written with.                 *)
Marks == {Space, Single, Double, Backslash, ";"}

(* The marks are five characters.                                          *)
LEMMA MarksDiffer ==
  /\ Space \notin {Single, Double, Backslash, ";"} /\ Single \notin {Double, Backslash, ";"}
  /\ Double \notin {Backslash, ";"} /\ Backslash # ";"
BY DEF Space, Single, Double, Backslash

Begun(w) == IF w = <<>> THEN <<>> ELSE w[1]
Reader(ws, w, q, e) == [words |-> ws, word |-> w, quote |-> q, escaped |-> e]
Pair(ch, next) == [ch |-> ch, next |-> next]

(* What a character does outside of quotes: a space, one without meaning,  *)
(* and a quote.                                                            *)
LEMMA ReadsSpace ==
  ASSUME NEW ws, NEW w, NEW ch, NEW next, ch = Space
  PROVE  ReadCharacter(Reader(ws, w, <<>>, FALSE), Pair(ch, next))
           = Reader(ws \o w, <<>>, <<>>, FALSE)
<1> DEFINE c == Pair(ch, next)
           acc == Reader(ws, w, <<>>, FALSE)
<1>1. /\ acc.words = ws /\ acc.word = w /\ acc.quote = <<>> /\ acc.escaped = FALSE
      /\ acc = [words |-> ws, word |-> w, quote |-> <<>>, escaped |-> FALSE]
      /\ c.ch = ch /\ c.next = next
  BY DEF Reader, Pair
<1>2. \A x : <<x>> # <<>>
  OBVIOUS
<1>3. QED
  BY <1>1, <1>2, MarksDiffer DEF ReadCharacter, Reader, Begun, Marks

(* A character without meaning goes on with the word, or begins one.       *)
LEMMA ReadsUnmarked ==
  ASSUME NEW ws, NEW w, NEW ch, NEW next, ch \notin Marks
  PROVE  ReadCharacter(Reader(ws, w, <<>>, FALSE), Pair(ch, next))
           = Reader(ws, <<Append(Begun(w), ch)>>, <<>>, FALSE)
<1> DEFINE c == Pair(ch, next)
           acc == Reader(ws, w, <<>>, FALSE)
<1>1. /\ acc.words = ws /\ acc.word = w /\ acc.quote = <<>> /\ acc.escaped = FALSE
      /\ acc = [words |-> ws, word |-> w, quote |-> <<>>, escaped |-> FALSE]
      /\ c.ch = ch /\ c.next = next
  BY DEF Reader, Pair
<1>2. \A x : <<x>> # <<>>
  OBVIOUS
<1>3. QED
  BY <1>1, <1>2, MarksDiffer DEF ReadCharacter, Reader, Begun, Marks

(* A quote begins a word, if only an empty one.                            *)
LEMMA ReadsStart ==
  ASSUME NEW ws, NEW w, NEW ch, NEW next, ch = Double
  PROVE  ReadCharacter(Reader(ws, w, <<>>, FALSE), Pair(ch, next))
           = Reader(ws, <<Begun(w)>>, <<Double>>, FALSE)
<1> DEFINE c == Pair(ch, next)
           acc == Reader(ws, w, <<>>, FALSE)
<1>1. /\ acc.words = ws /\ acc.word = w /\ acc.quote = <<>> /\ acc.escaped = FALSE
      /\ acc = [words |-> ws, word |-> w, quote |-> <<>>, escaped |-> FALSE]
      /\ c.ch = ch /\ c.next = next
  BY DEF Reader, Pair
<1>2. \A x : <<x>> # <<>>
  OBVIOUS
<1>3. QED
  BY <1>1, <1>2, MarksDiffer DEF ReadCharacter, Reader, Begun, Marks

(* And inside double quotes: their end, an escape, what is escaped, and   *)
(* any other character.                                                    *)
LEMMA ReadsEnd ==
  ASSUME NEW ws, NEW w, NEW ch, NEW next, ch = Double
  PROVE  ReadCharacter(Reader(ws, w, <<Double>>, FALSE), Pair(ch, next))
           = Reader(ws, <<Begun(w)>>, <<>>, FALSE)
<1> DEFINE c == Pair(ch, next)
           acc == Reader(ws, w, <<Double>>, FALSE)
<1>1. /\ acc.words = ws /\ acc.word = w /\ acc.quote = <<Double>> /\ acc.escaped = FALSE
      /\ acc = [words |-> ws, word |-> w, quote |-> <<Double>>, escaped |-> FALSE]
      /\ c.ch = ch /\ c.next = next
  BY DEF Reader, Pair
<1>2. \A x : <<x>> # <<>> /\ (<<Double>> = <<x>> <=> x = Double)
  OBVIOUS
<1>3. QED
  BY <1>1, <1>2, MarksDiffer DEF ReadCharacter, Reader, Begun

(* A backslash escapes what words::split has it escape.                    *)
LEMMA ReadsBackslash ==
  ASSUME NEW ws, NEW w, NEW ch, NEW next, ch = Backslash,
         next \in {<<Double>>, <<Backslash>>}
  PROVE  ReadCharacter(Reader(ws, w, <<Double>>, FALSE), Pair(ch, next))
           = Reader(ws, <<Begun(w)>>, <<Double>>, TRUE)
<1> DEFINE c == Pair(ch, next)
           acc == Reader(ws, w, <<Double>>, FALSE)
<1>1. /\ acc.words = ws /\ acc.word = w /\ acc.quote = <<Double>> /\ acc.escaped = FALSE
      /\ acc = [words |-> ws, word |-> w, quote |-> <<Double>>, escaped |-> FALSE]
      /\ c.ch = ch /\ c.next = next
  BY DEF Reader, Pair
<1>2. \A x : <<x>> # <<>> /\ (<<Double>> = <<x>> <=> x = Double)
  OBVIOUS
<1>3. QED
  BY <1>1, <1>2, MarksDiffer DEF ReadCharacter, Reader, Begun

(* What is escaped is taken as it is.                                      *)
LEMMA ReadsEscaped ==
  ASSUME NEW ws, NEW w, NEW ch, NEW next
  PROVE  ReadCharacter(Reader(ws, w, <<Double>>, TRUE), Pair(ch, next))
           = Reader(ws, <<Append(Begun(w), ch)>>, <<Double>>, FALSE)
<1> DEFINE c == Pair(ch, next)
           acc == Reader(ws, w, <<Double>>, TRUE)
<1>1. /\ acc.words = ws /\ acc.word = w /\ acc.quote = <<Double>> /\ acc.escaped = TRUE
      /\ acc = [words |-> ws, word |-> w, quote |-> <<Double>>, escaped |-> TRUE]
      /\ c.ch = ch /\ c.next = next
  BY DEF Reader, Pair
<1>2. \A x : <<x>> # <<>> /\ (<<Double>> = <<x>> <=> x = Double)
  OBVIOUS
<1>3. QED
  BY <1>1, <1>2, MarksDiffer DEF ReadCharacter, Reader, Begun

(* Anything else between double quotes is taken as it is, too.             *)
LEMMA ReadsInside ==
  ASSUME NEW ws, NEW w, NEW ch, NEW next, ch \notin {Double, Backslash}
  PROVE  ReadCharacter(Reader(ws, w, <<Double>>, FALSE), Pair(ch, next))
           = Reader(ws, <<Append(Begun(w), ch)>>, <<Double>>, FALSE)
<1> DEFINE c == Pair(ch, next)
           acc == Reader(ws, w, <<Double>>, FALSE)
<1>1. /\ acc.words = ws /\ acc.word = w /\ acc.quote = <<Double>> /\ acc.escaped = FALSE
      /\ acc = [words |-> ws, word |-> w, quote |-> <<Double>>, escaped |-> FALSE]
      /\ c.ch = ch /\ c.next = next
  BY DEF Reader, Pair
<1>2. \A x : <<x>> # <<>> /\ (<<Double>> = <<x>> <=> x = Double)
  OBVIOUS
<1>3. QED
  BY <1>1, <1>2, MarksDiffer DEF ReadCharacter, Reader, Begun

(* A text before a character, or before the end.                           *)
Followed(text, next) ==
  [i \in DOMAIN text |-> Pair(text[i], IF i < Len(text) THEN <<text[i + 1]>> ELSE next)]
Pairs == [ch : Word, next : Seq(Word)]

(* A text before a character is as long, and the whole line comes last.    *)
LEMMA FollowedIs ==
  ASSUME NEW t \in Seq(Word), NEW next \in Seq(Word)
  PROVE  /\ Followed(t, next) \in Seq(Pairs) /\ Len(Followed(t, next)) = Len(t)
         /\ \A i \in 1 .. Len(t) : Followed(t, next)[i] =
              Pair(t[i], IF i < Len(t) THEN <<t[i + 1]>> ELSE next)
         /\ Peekable(t) = Followed(t, <<>>)
<1> DEFINE n == Len(t)
<1>1. n \in Nat /\ DOMAIN t = 1 .. n
  OBVIOUS
<1>2. \A i \in 1 .. n : t[i] \in Word /\ (i < n => t[i + 1] \in Word)
  OBVIOUS
<1>3. ASSUME NEW i \in 1 .. n
      PROVE  Pair(t[i], IF i < n THEN <<t[i + 1]>> ELSE next) \in Pairs
  BY <1>2 DEF Pair, Pairs
<1>4. Followed(t, next) \in [1 .. n -> Pairs]
  BY <1>1, <1>3 DEF Followed
<1>5. Peekable(t) = Followed(t, <<>>)
  BY DEF Peekable, Followed, Pair
<1>6. QED
  BY <1>1, <1>4, <1>5 DEF Followed

(* The elements of two sequences, one after the other.                     *)
LEMMA TwoOf ==
  ASSUME NEW S, NEW g \in Seq(S), NEW h \in Seq(S)
  PROVE  /\ g \o h \in Seq(S) /\ Len(g \o h) = Len(g) + Len(h)
         /\ \A i \in 1 .. Len(g) : (g \o h)[i] = g[i]
         /\ \A i \in 1 .. Len(h) : (g \o h)[Len(g) + i] = h[i]
OBVIOUS

(* And what has their elements is the two of them.                         *)
LEMMA IsTwo ==
  ASSUME NEW S, NEW f \in Seq(S), NEW g \in Seq(S), NEW h \in Seq(S),
         Len(f) = Len(g) + Len(h),
         \A i \in 1 .. Len(g) : f[i] = g[i],
         \A i \in 1 .. Len(h) : f[Len(g) + i] = h[i]
  PROVE  f = g \o h
<1> DEFINE m == Len(g)
           n == Len(h)
           k == g \o h
<1>1. /\ m \in Nat /\ n \in Nat /\ k \in Seq(S) /\ Len(k) = m + n
      /\ \A i \in 1 .. m : k[i] = g[i]
      /\ \A i \in 1 .. n : k[m + i] = h[i]
  BY TwoOf
<1> HIDE DEF k
<1>2. ASSUME NEW i \in 1 .. m + n
      PROVE  f[i] = k[i]
  <2>1. CASE i <= m
    BY <1>1, <2>1
  <2>2. CASE i > m
    <3> DEFINE j == i - m
    <3>1. j \in 1 .. n /\ i = m + j
      BY <1>1, <2>2
    <3> HIDE DEF j
    <3>2. QED
      BY <1>1, <3>1
  <2>3. QED
    BY <1>1, <2>1, <2>2
<1>3. f = k
  BY <1>1, <1>2, Joining!SameSeq
<1>4. QED
  BY <1>3 DEF k

(* Of two texts, the first is before the second.                           *)
LEMMA FollowedOfTwo ==
  ASSUME NEW s \in Seq(Word), NEW t \in Seq(Word), t # <<>>, NEW next \in Seq(Word)
  PROVE  Followed(s \o t, next) = Followed(s, <<t[1]>>) \o Followed(t, next)
<1> DEFINE m == Len(s)
           n == Len(t)
           u == s \o t
           f == Followed(u, next)
           g == Followed(s, <<t[1]>>)
           h == Followed(t, next)
<1>1. /\ m \in Nat /\ n \in Nat /\ u \in Seq(Word) /\ Len(u) = m + n
      /\ \A i \in 1 .. m : u[i] = s[i]
      /\ \A i \in 1 .. n : u[m + i] = t[i]
  BY TwoOf
<1>2. n > 0 /\ <<t[1]>> \in Seq(Word)
  OBVIOUS
<1> HIDE DEF u
<1>3. /\ f \in Seq(Pairs) /\ Len(f) = m + n
      /\ \A i \in 1 .. m + n : f[i] = Pair(u[i], IF i < m + n THEN <<u[i + 1]>> ELSE next)
  BY <1>1, FollowedIs
<1>4. /\ g \in Seq(Pairs) /\ Len(g) = m
      /\ \A i \in 1 .. m : g[i] = Pair(s[i], IF i < m THEN <<s[i + 1]>> ELSE <<t[1]>>)
  BY <1>2, FollowedIs
<1>5. /\ h \in Seq(Pairs) /\ Len(h) = n
      /\ \A i \in 1 .. n : h[i] = Pair(t[i], IF i < n THEN <<t[i + 1]>> ELSE next)
  BY FollowedIs
<1> HIDE DEF f, g, h, m, n
<1>6. ASSUME NEW i \in 1 .. m
      PROVE  f[i] = g[i]
  <2>1. i \in 1 .. m + n /\ i < m + n /\ u[i] = s[i]
    BY <1>1, <1>2
  <2>2. f[i] = Pair(s[i], <<u[i + 1]>>)
    BY <1>3, <2>1
  <2>3. CASE i < m
    <3>1. u[i + 1] = s[i + 1]
      BY <1>1, <2>3
    <3>2. QED
      BY <1>4, <2>2, <2>3, <3>1
  <2>4. CASE i = m
    <3>1. 1 \in 1 .. n
      BY <1>1, <1>2
    <3>2. u[i + 1] = t[1]
      BY <1>1, <2>4, <3>1
    <3>3. ~(i < m)
      BY <1>1, <2>4
    <3>4. g[i] = Pair(s[i], <<t[1]>>)
      BY <1>4, <3>3
    <3>5. QED
      BY <2>2, <3>2, <3>4
  <2>5. QED
    BY <1>1, <2>3, <2>4
<1>7. ASSUME NEW i \in 1 .. n
      PROVE  f[m + i] = h[i]
  <2>1. m + i \in 1 .. m + n /\ (m + i < m + n <=> i < n) /\ u[m + i] = t[i]
    BY <1>1
  <2>2. i < n => u[(m + i) + 1] = t[i + 1]
    <3>1. i < n => i + 1 \in 1 .. n /\ (m + i) + 1 = m + (i + 1)
      BY <1>1
    <3>2. QED
      BY <1>1, <3>1
  <2>3. f[m + i] = Pair(u[m + i], IF m + i < m + n THEN <<u[(m + i) + 1]>> ELSE next)
    BY <1>3, <2>1
  <2>4. QED
    BY <1>5, <2>1, <2>2, <2>3
<1>8. f = g \o h
  BY <1>3, <1>4, <1>5, <1>6, <1>7, IsTwo
<1>9. QED
  BY <1>8 DEF f, g, h, u

(* One and two characters.                                                 *)
LEMMA FollowedOne ==
  ASSUME NEW x \in Word, NEW y \in Word, NEW next \in Seq(Word)
  PROVE  /\ Followed(<<>>, next) = <<>>
         /\ Followed(<<x>>, next) = <<Pair(x, next)>>
         /\ Followed(<<x, y>>, next) = <<Pair(x, <<y>>)>> \o <<Pair(y, next)>>
         /\ Pair(x, next) \in Pairs /\ Pair(x, <<y>>) \in Pairs /\ Pair(y, next) \in Pairs
<1>0. Pair(x, next) \in Pairs /\ Pair(x, <<y>>) \in Pairs /\ Pair(y, next) \in Pairs
  <2>1. <<y>> \in Seq(Word)
    OBVIOUS
  <2>2. QED
    BY <2>1 DEF Pair, Pairs
<1>1. Followed(<<>>, next) = <<>>
  BY DEF Followed
<1>2. Followed(<<x>>, next) = <<Pair(x, next)>>
  BY DEF Followed
<1>3. Followed(<<x, y>>, next) = <<Pair(x, <<y>>), Pair(y, next)>>
  <2> DEFINE t == <<x, y>>
             f == Followed(t, next)
             g == <<Pair(x, <<y>>), Pair(y, next)>>
  <2>1. t \in Seq(Word) /\ Len(t) = 2 /\ t[1] = x /\ t[2] = y
    OBVIOUS
  <2>2. /\ f \in Seq(Pairs) /\ Len(f) = 2
        /\ \A i \in 1 .. 2 : f[i] = Pair(t[i], IF i < 2 THEN <<t[i + 1]>> ELSE next)
    BY <2>1, FollowedIs
  <2>3. f[1] = Pair(x, <<y>>) /\ f[2] = Pair(y, next)
    BY <2>1, <2>2
  <2> HIDE DEF f
  <2>4. \A i \in 1 .. 2 : f[i] = g[i]
    BY <2>3
  <2>5. g \in Seq(Pairs) /\ Len(g) = 2
    BY <1>0
  <2>6. f = g
    BY <2>2, <2>4, <2>5, Joining!SameSeq
  <2>7. QED
    BY <2>6 DEF f
<1>4. <<Pair(x, <<y>>), Pair(y, next)>> = <<Pair(x, <<y>>)>> \o <<Pair(y, next)>>
  OBVIOUS
<1>5. QED
  BY <1>0, <1>1, <1>2, <1>3, <1>4

(* The reader of words, over a text before a character or the end.         *)
ReadFrom(acc, text, next) == Reading!Fold(acc, Followed(text, next))

(* Reading nothing changes nothing.                                        *)
LEMMA ReadsOfNothing ==
  ASSUME NEW acc, NEW next \in Seq(Word)
  PROVE  ReadFrom(acc, <<>>, next) = acc
<1>1. Followed(<<>>, next) = <<>>
  BY DEF Followed
<1>2. QED
  BY <1>1, Reading!FoldOfNothing DEF ReadFrom

(* Reading one character is one round of words::split.                     *)
LEMMA ReadsOne ==
  ASSUME NEW acc, NEW x \in Word, NEW next \in Seq(Word)
  PROVE  ReadFrom(acc, <<x>>, next) = ReadCharacter(acc, Pair(x, next))
<1> DEFINE p == Pair(x, next)
           e == <<>>
<1>1. Followed(<<x>>, next) = <<p>> /\ p \in Pairs
  BY FollowedOne
<1> HIDE DEF p
<1>2. <<p>> = e \o <<p>> /\ e \in Seq(Pairs)
  BY <1>1
<1>3. Reading!Fold(acc, e) = acc
  BY Reading!FoldOfNothing
<1> HIDE DEF e
<1>4. Reading!Fold(acc, e \o <<p>>) = ReadCharacter(Reading!Fold(acc, e), p)
  BY <1>1, <1>2, Reading!FoldOfOneMore
<1>5. QED
  BY <1>1, <1>2, <1>3, <1>4 DEF ReadFrom, p

(* Two texts are read one after the other.                                 *)
LEMMA ReadsOfTwo ==
  ASSUME NEW acc, NEW s \in Seq(Word), NEW t \in Seq(Word), t # <<>>, NEW next \in Seq(Word)
  PROVE  ReadFrom(acc, s \o t, next) = ReadFrom(ReadFrom(acc, s, <<t[1]>>), t, next)
<1>1. Followed(s \o t, next) = Followed(s, <<t[1]>>) \o Followed(t, next)
  BY FollowedOfTwo
<1>2. <<t[1]>> \in Seq(Word)
  OBVIOUS
<1>3. Followed(s, <<t[1]>>) \in Seq(Pairs) /\ Followed(t, next) \in Seq(Pairs)
  BY <1>2, FollowedIs
<1>4. QED
  BY <1>1, <1>3, Reading!FoldOfMore DEF ReadFrom

(* What is between the quotes.                                             *)
Escape(x) == IF x \in {Double, Backslash} THEN <<Backslash, x>> ELSE <<x>>
Between(w) == Flat([i \in DOMAIN w |-> Escape(w[i])])

(* All that the words and batches are written with are words.              *)
MarksAreWords == Marks \subseteq Word

(* One character more is escaped as the others are (words::quote).         *)
LEMMA BetweenOfMore ==
  ASSUME MarksAreWords, NEW w \in Seq(Word), NEW x \in Word
  PROVE  /\ Between(w) \in Seq(Word)
         /\ Between(w \o <<x>>) = Between(w) \o Escape(x)
         /\ Between(<<>>) = <<>>
         /\ Escape(x) \in Seq(Word) /\ Escape(x) # <<>>
<1> DEFINE u == w \o <<x>>
           g == [i \in DOMAIN u |-> Escape(u[i])]
           h == [i \in DOMAIN w |-> Escape(w[i])]
           n == Len(w)
<1>0. Backslash \in Word
  BY DEF MarksAreWords, Marks
<1>1. \A y \in Word : Escape(y) \in Seq(Word) /\ Escape(y) # <<>>
  BY <1>0 DEF Escape
<1>2. /\ n \in Nat /\ DOMAIN w = 1 .. n /\ u \in Seq(Word) /\ DOMAIN u = 1 .. n + 1
      /\ u[n + 1] = x /\ \A i \in 1 .. n : u[i] = w[i] /\ w[i] \in Word
  OBVIOUS
<1>3. h \in [1 .. n -> Seq(Word)] /\ g \in [1 .. n + 1 -> Seq(Word)]
  BY <1>1, <1>2
<1>4. h \in Seq(Seq(Word)) /\ Len(h) = n /\ g \in Seq(Seq(Word)) /\ Len(g) = n + 1
  BY <1>2, <1>3
<1>5. g[n + 1] = Escape(x) /\ \A i \in 1 .. n : g[i] = h[i]
  BY <1>2
<1>6. Escape(x) \in Seq(Word)
  BY <1>1
<1>7. Between(w) = Flat(h) /\ Between(u) = Flat(g)
  BY DEF Between
<1> HIDE DEF g, h, u, n
<1>8. g = h \o <<Escape(x)>>
  <2> DEFINE T == Seq(Word)
             e == Escape(x)
  <2>1. h \in Seq(T) /\ g \in Seq(T) /\ e \in T /\ Len(g) = Len(h) + 1 /\ g[Len(h) + 1] = e
        /\ \A i \in 1 .. Len(h) : g[i] = h[i]
    BY <1>4, <1>5, <1>6
  <2> HIDE DEF T, e
  <2>2. g = h \o <<e>>
    BY ONLY <2>1, Extended
  <2>3. QED
    BY <2>2 DEF e
<1>9. Flat(h \o <<Escape(x)>>) = Flat(h) \o Escape(x) /\ Flat(h) \in Seq(Word)
  <2> DEFINE T == Seq(Word)
             e == Escape(x)
  <2>1. h \in Seq(T) /\ e \in T
    BY <1>4, <1>6
  <2>2. Flat(h) \in Seq(Word)
    BY <1>4, FlatType
  <2> HIDE DEF T, e
  <2>3. Flat(h \o <<e>>) = Flat(h) \o e
    BY ONLY <2>1, FlatOfOneMore
  <2>4. QED
    BY <2>2, <2>3 DEF e
<1>10. Between(<<>>) = <<>>
  <2>1. [i \in DOMAIN <<>> |-> Escape(<<>>[i])] = <<>>
    OBVIOUS
  <2>2. QED
    BY <2>1, FlatOfNothing DEF Between
<1>11. QED
  BY <1>1, <1>7, <1>8, <1>9, <1>10 DEF u

(* One character between the quotes.                                       *)
LEMMA EscapeReads ==
  ASSUME MarksAreWords, NEW ws, NEW v, NEW x \in Word, NEW next \in Seq(Word)
  PROVE  ReadFrom(Reader(ws, <<v>>, <<Double>>, FALSE), Escape(x), next)
           = Reader(ws, <<Append(v, x)>>, <<Double>>, FALSE)
<1> DEFINE a == Reader(ws, <<v>>, <<Double>>, FALSE)
<1>0. Begun(<<v>>) = v
  BY DEF Begun
<1>1. CASE x \in {Double, Backslash}
  <2>1. Backslash \in Word /\ <<x>> \in {<<Double>>, <<Backslash>>}
    BY <1>1 DEF MarksAreWords, Marks
  <2>2. /\ Escape(x) = <<Backslash>> \o <<x>>
        /\ <<Backslash>> \in Seq(Word) /\ <<x>> \in Seq(Word) /\ <<x>> # <<>> /\ <<x>>[1] = x
    BY <1>1, <2>1 DEF Escape
  <2>3. ReadFrom(a, <<Backslash>> \o <<x>>, next) = ReadFrom(ReadFrom(a, <<Backslash>>, <<x>>), <<x>>, next)
    <3> DEFINE b == <<Backslash>>
               o == <<x>>
    <3>1. b \in Seq(Word) /\ o \in Seq(Word) /\ o # <<>> /\ <<o[1]>> = o /\ next \in Seq(Word)
      BY ONLY <2>2, next \in Seq(Word)
    <3> HIDE DEF a, b, o
    <3>2. ReadFrom(a, b \o o, next) = ReadFrom(ReadFrom(a, b, <<o[1]>>), o, next)
      BY ONLY <3>1, ReadsOfTwo
    <3>3. QED
      BY ONLY <3>1, <3>2 DEF b, o
  <2>4. ReadFrom(a, <<Backslash>>, <<x>>) = ReadCharacter(a, Pair(Backslash, <<x>>))
    <3> HIDE DEF a
    <3>1. QED
      BY <2>1, <2>2, ReadsOne
  <2>5. ReadCharacter(a, Pair(Backslash, <<x>>)) = Reader(ws, <<v>>, <<Double>>, TRUE)
    BY ONLY <1>0, <2>1, ReadsBackslash
  <2>6. ReadFrom(Reader(ws, <<v>>, <<Double>>, TRUE), <<x>>, next)
          = ReadCharacter(Reader(ws, <<v>>, <<Double>>, TRUE), Pair(x, next))
    BY ReadsOne
  <2>7. ReadCharacter(Reader(ws, <<v>>, <<Double>>, TRUE), Pair(x, next))
          = Reader(ws, <<Append(v, x)>>, <<Double>>, FALSE)
    BY ONLY <1>0, ReadsEscaped
  <2>8. QED
    BY <2>2, <2>3, <2>4, <2>5, <2>6, <2>7
<1>2. CASE x \notin {Double, Backslash}
  <2>1. Escape(x) = <<x>>
    BY <1>2 DEF Escape
  <2>2. ReadFrom(a, <<x>>, next) = ReadCharacter(a, Pair(x, next))
    BY ReadsOne
  <2>3. ReadCharacter(a, Pair(x, next)) = Reader(ws, <<Append(v, x)>>, <<Double>>, FALSE)
    <3>1. Reader(ws, <<Append(Begun(<<v>>), x)>>, <<Double>>, FALSE)
            = Reader(ws, <<Append(v, x)>>, <<Double>>, FALSE)
      BY <1>0
    <3>2. ReadCharacter(a, Pair(x, next))
            = Reader(ws, <<Append(Begun(<<v>>), x)>>, <<Double>>, FALSE)
      BY <1>2, ReadsInside
    <3>3. QED
      BY <3>1, <3>2
  <2>4. QED
    BY <2>1, <2>2, <2>3
<1>3. QED
  BY <1>1, <1>2

(* What is between the quotes reads as it was.                             *)
LEMMA BetweenReads ==
  ASSUME MarksAreWords, NEW ws
  PROVE  \A w \in Seq(Word) : \A next \in Seq(Word) :
           ReadFrom(Reader(ws, << <<>> >>, <<Double>>, FALSE), Between(w), next)
             = Reader(ws, <<w>>, <<Double>>, FALSE)
<1> DEFINE a == Reader(ws, << <<>> >>, <<Double>>, FALSE)
           b(w) == Reader(ws, <<w>>, <<Double>>, FALSE)
           P == {w \in Seq(Word) : \A next \in Seq(Word) : ReadFrom(a, Between(w), next) = b(w)}
<1>1. <<>> \in P
  <2>1. PICK x : x \in Word
    BY DEF MarksAreWords, Marks
  <2>2. Between(<<>>) = <<>>
    <3>1. <<>> \in Seq(Word)
      OBVIOUS
    <3>2. QED
      BY <2>1, <3>1, BetweenOfMore
  <2>3. \A next \in Seq(Word) : ReadFrom(a, <<>>, next) = a
    BY ReadsOfNothing
  <2>4. QED
    BY <2>2, <2>3, Joining!EmptyInSeq
<1>2. ASSUME NEW w \in Seq(Word), NEW x \in Word, w \in P
      PROVE  w \o <<x>> \in P
  <2>1. SUFFICES ASSUME NEW next \in Seq(Word)
                 PROVE  ReadFrom(a, Between(w \o <<x>>), next) = b(w \o <<x>>)
    <3>1. w \o <<x>> \in Seq(Word)
      OBVIOUS
    <3> HIDE DEF a, b
    <3>2. QED
      BY <3>1
  <2> DEFINE s == Between(w)
             t == Escape(x)
  <2>2. s \in Seq(Word) /\ t \in Seq(Word) /\ t # <<>> /\ Between(w \o <<x>>) = s \o t
    BY BetweenOfMore
  <2>3. <<t[1]>> \in Seq(Word)
    BY <2>2
  <2>4. ReadFrom(a, s, <<t[1]>>) = b(w)
    BY <1>2, <2>3
  <2>5. ReadFrom(a, s \o t, next) = ReadFrom(ReadFrom(a, s, <<t[1]>>), t, next)
    <3> HIDE DEF a, s, t
    <3>1. QED
      BY <2>2, ReadsOfTwo
  <2>6. ReadFrom(b(w), t, next) = Reader(ws, <<Append(w, x)>>, <<Double>>, FALSE)
    BY EscapeReads
  <2>7. Append(w, x) = w \o <<x>>
    OBVIOUS
  <2>8. QED
    BY <2>2, <2>4, <2>5, <2>6, <2>7
<1> HIDE DEF P
<1>3. \A w \in Seq(Word) : w \in P
  BY <1>1, <1>2, Joining!SeqInduction
<1>4. QED
  BY <1>3 DEF P

(* A word without marks reads as it is.                                    *)
Unmarked(w) == \A i \in 1 .. Len(w) : w[i] \notin Marks

(* A word without marks and one character more.                            *)
LEMMA UnmarkedMore ==
  ASSUME NEW w \in Seq(Word), NEW x \in Word
  PROVE  /\ w \o <<x>> \in Seq(Word) /\ w \o <<x>> # <<>>
         /\ Unmarked(w \o <<x>>) <=> Unmarked(w) /\ x \notin Marks
<1> DEFINE u == w \o <<x>>
           n == Len(w)
<1>1. /\ n \in Nat /\ u \in Seq(Word) /\ Len(u) = n + 1 /\ u # <<>> /\ u[n + 1] = x
      /\ \A i \in 1 .. n : u[i] = w[i]
  OBVIOUS
<1> HIDE DEF u
<1>2. \A i \in 1 .. n + 1 : i \in 1 .. n \/ i = n + 1
  BY <1>1
<1>3. \A i \in 1 .. n : i \in 1 .. n + 1
  BY <1>1
<1>4. n + 1 \in 1 .. n + 1
  BY <1>1
<1>5. Unmarked(u) <=> Unmarked(w) /\ x \notin Marks
  BY <1>1, <1>2, <1>3, <1>4 DEF Unmarked
<1>6. QED
  BY <1>1, <1>5 DEF u

(* Such a word is read whole.                                              *)
LEMMA UnmarkedReads ==
  ASSUME NEW ws
  PROVE  \A w \in Seq(Word) : Unmarked(w) => \A next \in Seq(Word) :
           ReadFrom(Reader(ws, <<>>, <<>>, FALSE), w, next)
             = Reader(ws, IF w = <<>> THEN <<>> ELSE <<w>>, <<>>, FALSE)
<1> DEFINE a == Reader(ws, <<>>, <<>>, FALSE)
           b(w) == Reader(ws, IF w = <<>> THEN <<>> ELSE <<w>>, <<>>, FALSE)
           P == {w \in Seq(Word) : Unmarked(w) => \A next \in Seq(Word) : ReadFrom(a, w, next) = b(w)}
<1>1. <<>> \in P
  <2>1. \A next \in Seq(Word) : ReadFrom(a, <<>>, next) = a
    BY ReadsOfNothing
  <2>2. QED
    BY <2>1, Joining!EmptyInSeq
<1>2. ASSUME NEW w \in Seq(Word), NEW x \in Word, w \in P
      PROVE  w \o <<x>> \in P
  <2>1. w \o <<x>> \in Seq(Word) /\ w \o <<x>> # <<>>
    BY UnmarkedMore
  <2>2. SUFFICES ASSUME Unmarked(w \o <<x>>), NEW next \in Seq(Word)
                 PROVE  ReadFrom(a, w \o <<x>>, next) = b(w \o <<x>>)
    <3> HIDE DEF a, b
    <3>1. QED
      BY <2>1
  <2>3. Unmarked(w) /\ x \notin Marks
    BY <2>2, UnmarkedMore
  <2> DEFINE t == <<x>>
  <2>4. t \in Seq(Word) /\ t # <<>> /\ t[1] = x
    OBVIOUS
  <2>5. ReadFrom(a, w, <<x>>) = b(w)
    BY <1>2, <2>3, <2>4
  <2>6. ReadFrom(a, w \o t, next) = ReadFrom(ReadFrom(a, w, <<t[1]>>), t, next)
    <3> HIDE DEF a, t
    <3>1. QED
      BY <2>4, ReadsOfTwo
  <2>7. ReadFrom(b(w), <<x>>, next) = ReadCharacter(b(w), Pair(x, next))
    <3> HIDE DEF b
    <3>1. QED
      BY ReadsOne
  <2> DEFINE o == IF w = <<>> THEN <<>> ELSE <<w>>
  <2>9. ReadCharacter(Reader(ws, o, <<>>, FALSE), Pair(x, next))
          = Reader(ws, <<Append(Begun(o), x)>>, <<>>, FALSE)
    <3> HIDE DEF o
    <3>1. QED
      BY <2>3, ReadsUnmarked
  <2>10. Append(Begun(o), x) = w \o <<x>>
    <3>1. Begun(o) = w
      BY DEF Begun
    <3> HIDE DEF o
    <3>2. Append(w, x) = w \o <<x>>
      OBVIOUS
    <3>3. QED
      BY <3>1, <3>2
  <2>11. b(w \o <<x>>) = Reader(ws, <<w \o <<x>>>>, <<>>, FALSE)
    BY <2>1
  <2>12. QED
    BY <2>4, <2>5, <2>6, <2>7, <2>9, <2>10, <2>11
<1> HIDE DEF P
<1>3. \A w \in Seq(Word) : w \in P
  BY <1>1, <1>2, Joining!SeqInduction
<1>4. QED
  BY <1>3 DEF P

(* What a word is quoted as.                                               *)
LEMMA QuoteIs ==
  ASSUME MarksAreWords, NEW w \in Seq(Word)
  PROVE  /\ QuoteWord(w) = IF w # <<>> /\ Unmarked(w) THEN w
                           ELSE (<<Double>> \o Between(w)) \o <<Double>>
         /\ Between(w) \in Seq(Word)
         /\ <<Double>> \in Seq(Word)
         /\ QuoteWord(w) \in Seq(Word)
         /\ QuoteWord(w) # <<>>
<1>0. Double \in Word
  BY DEF MarksAreWords, Marks
<1>1. <<Double>> \in Seq(Word) /\ Double \in Word
  BY <1>0
<1>2. Between(w) \in Seq(Word)
  BY <1>1, BetweenOfMore
<1>3. ToSet(w) \cap {Space, Single, Double, Backslash, ";"} = {} <=> Unmarked(w)
  <2>1. DOMAIN w = 1 .. Len(w)
    OBVIOUS
  <2>2. QED
    BY <2>1 DEF ToSet, Unmarked, Marks
<1>4. InQuotes(w) = (<<Double>> \o Between(w)) \o <<Double>>
  BY DEF InQuotes, Between, Escape
<1>5. QuoteWord(w) = IF w # <<>> /\ Unmarked(w) THEN w
                     ELSE (<<Double>> \o Between(w)) \o <<Double>>
  BY <1>3, <1>4 DEF QuoteWord
<1>6. \A s \in Seq(Word) : LET q == (<<Double>> \o s) \o <<Double>> IN q \in Seq(Word) /\ q # <<>>
  BY <1>1
<1>7. QED
  BY <1>1, <1>2, <1>5, <1>6

(* words::split undoes words::quote.                                       *)
LEMMA QuotedReads ==
  ASSUME MarksAreWords, NEW ws, NEW w \in Seq(Word), NEW next \in Seq(Word)
  PROVE  ReadFrom(Reader(ws, <<>>, <<>>, FALSE), QuoteWord(w), next) = Reader(ws, <<w>>, <<>>, FALSE)
<1> DEFINE a == Reader(ws, <<>>, <<>>, FALSE)
           b == Reader(ws, << <<>> >>, <<Double>>, FALSE)
           c == Reader(ws, <<w>>, <<Double>>, FALSE)
           d == Reader(ws, <<w>>, <<>>, FALSE)
<1>0. Double \in Word
  BY DEF MarksAreWords, Marks
<1>1. CASE w # <<>> /\ Unmarked(w)
  <2>1. QuoteWord(w) = w
    BY <1>1, QuoteIs
  <2>2. ReadFrom(a, w, next) = Reader(ws, IF w = <<>> THEN <<>> ELSE <<w>>, <<>>, FALSE)
    BY <1>1, UnmarkedReads
  <2>3. QED
    BY <1>1, <2>1, <2>2
<1>2. CASE ~(w # <<>> /\ Unmarked(w))
  <2> DEFINE q == <<Double>>
             s == Between(w)
  <2>1. QuoteWord(w) = (q \o s) \o q /\ s \in Seq(Word) /\ q \in Seq(Word)
    BY <1>2, QuoteIs
  <2>2. q # <<>> /\ q[1] = Double
    OBVIOUS
  <2>3. \A n \in Seq(Word) : ReadFrom(a, q, n) = b
    <3>1. SUFFICES ASSUME NEW n \in Seq(Word)
                   PROVE  ReadFrom(a, <<Double>>, n) = b
      OBVIOUS
    <3>2. ReadFrom(a, <<Double>>, n) = ReadCharacter(a, Pair(Double, n))
      <4> HIDE DEF a
      <4>1. QED
        BY <1>0, ReadsOne
    <3>3. Begun(<<>>) = <<>>
      BY DEF Begun
    <3>4. ReadCharacter(a, Pair(Double, n)) = Reader(ws, <<Begun(<<>>)>>, <<Double>>, FALSE)
      BY ReadsStart
    <3>5. QED
      BY <3>2, <3>3, <3>4
  <2>4. ReadFrom(b, s, q) = c
    BY <2>1, BetweenReads
  <2>5. ReadFrom(c, q, next) = d
    <3>1. ReadFrom(c, <<Double>>, next) = ReadCharacter(c, Pair(Double, next))
      <4> HIDE DEF c
      <4>1. QED
        BY <1>0, ReadsOne
    <3>2. Begun(<<w>>) = w
      BY DEF Begun
    <3>3. ReadCharacter(c, Pair(Double, next)) = Reader(ws, <<Begun(<<w>>)>>, <<>>, FALSE)
      BY ReadsEnd
    <3>4. QED
      BY <3>1, <3>2, <3>3
  <2> HIDE DEF a, b, c, d, q, s
  <2> DEFINE z == s \o q
  <2>6. (q \o s) \o q = q \o z /\ z \in Seq(Word)
    BY <2>1, Joining!Concat
  <2>7. z # <<>>
    BY <2>1, <2>2
  <2>8. ReadFrom(b, z, next) = ReadFrom(ReadFrom(b, s, <<q[1]>>), q, next)
    BY <2>1, <2>2, ReadsOfTwo
  <2> HIDE DEF z
  <2>9. ReadFrom(a, q \o z, next) = ReadFrom(ReadFrom(a, q, <<z[1]>>), z, next)
    BY <2>1, <2>6, <2>7, ReadsOfTwo
  <2>10. <<z[1]>> \in Seq(Word)
    BY <2>6, <2>7
  <2>11. <<q[1]>> = q
    BY <2>2 DEF q
  <2>12. ReadFrom(a, q \o z, next) = d
    BY <2>3, <2>4, <2>5, <2>8, <2>9, <2>10, <2>11
  <2>13. QED
    BY <2>1, <2>6, <2>12 DEF a, d
<1>3. QED
  BY <1>1, <1>2

(* Words as override_args quotes them.                                     *)
Quoted(as) == [i \in DOMAIN as |-> QuoteWord(as[i])]
Texts == Seq(Word)

(* The elements of a sequence and one more.                                *)
LEMMA ElementsOfMore ==
  ASSUME NEW S, NEW s \in Seq(S), NEW x \in S
  PROVE  /\ s \o <<x>> \in Seq(S) /\ Len(s \o <<x>>) = Len(s) + 1
         /\ (s \o <<x>>)[Len(s) + 1] = x
         /\ \A i \in 1 .. Len(s) : (s \o <<x>>)[i] = s[i] /\ s[i] \in S
OBVIOUS

Mapped(f, s) == [i \in DOMAIN s |-> f[s[i]]]

(* A function of each element: the type of the result,                     *)
LEMMA MapType ==
  ASSUME NEW S, NEW T, NEW f \in [S -> T], NEW s \in Seq(S)
  PROVE  Mapped(f, s) \in Seq(T)
<1>1. DOMAIN s = 1 .. Len(s) /\ Len(s) \in Nat /\ \A i \in 1 .. Len(s) : s[i] \in S
  OBVIOUS
<1> DEFINE h == [i \in 1 .. Len(s) |-> f[s[i]]]
<1>2. h \in [1 .. Len(s) -> T]
  BY <1>1
<1> HIDE DEF h
<1>3. h \in Seq(T)
  BY <1>1, <1>2
<1>4. QED
  BY <1>1, <1>3 DEF Mapped, h

(* its length,                                                             *)
LEMMA MapLength ==
  ASSUME NEW S, NEW f, NEW s \in Seq(S)
  PROVE  Len(Mapped(f, s)) = Len(s)
<1>1. DOMAIN s = 1 .. Len(s) /\ Len(s) \in Nat
  OBVIOUS
<1> DEFINE n == Len(s)
           h == [i \in 1 .. n |-> f[s[i]]]
           V == {f[s[i]] : i \in 1 .. n}
<1>2. h \in [1 .. n -> V]
  OBVIOUS
<1>3. Mapped(f, s) = h
  BY <1>1 DEF Mapped
<1> HIDE DEF h, n, V
<1>4. Len(h) = n
  BY <1>1, <1>2 DEF n
<1>5. QED
  BY <1>3, <1>4 DEF n

(* and what one element more adds.                                         *)
LEMMA MapOfMore ==
  ASSUME NEW S, NEW T, NEW f \in [S -> T], NEW s \in Seq(S), NEW x \in S
  PROVE  Mapped(f, s \o <<x>>) = Mapped(f, s) \o <<f[x]>>
<1> DEFINE n == Len(s)
           us == s \o <<x>>
           h == [i \in DOMAIN s |-> f[s[i]]]
           g == [i \in DOMAIN us |-> f[us[i]]]
           q == f[x]
<1>1. /\ n \in Nat /\ DOMAIN s = 1 .. n /\ us \in Seq(S) /\ DOMAIN us = 1 .. n + 1
      /\ us[n + 1] = x /\ \A i \in 1 .. n : us[i] = s[i] /\ s[i] \in S
  <2>1. us \in Seq(S) /\ Len(us) = n + 1 /\ n \in Nat
    BY ElementsOfMore
  <2>2. us[n + 1] = x /\ \A i \in 1 .. n : us[i] = s[i] /\ s[i] \in S
    BY ElementsOfMore
  <2> HIDE DEF us
  <2>3. DOMAIN s = 1 .. n /\ DOMAIN us = 1 .. n + 1
    BY <2>1
  <2>4. QED
    BY <2>1, <2>2, <2>3
<1> HIDE DEF us
<1>2. n + 1 \in 1 .. n + 1 /\ \A i \in 1 .. n : i \in 1 .. n + 1
  BY <1>1
<1>3. \A i \in 1 .. n + 1 : us[i] \in S
  BY <1>1
<1>4. h \in [1 .. n -> T] /\ g \in [1 .. n + 1 -> T] /\ q \in T
  BY <1>1, <1>3
<1>5. g[n + 1] = q /\ \A i \in 1 .. n : g[i] = h[i]
  BY <1>1, <1>2
<1> HIDE DEF g, h, q, n
<1>6. h \in Seq(T) /\ Len(h) = n /\ g \in Seq(T) /\ Len(g) = n + 1
  BY <1>1, <1>4
<1>7. g = h \o <<q>>
  BY <1>4, <1>5, <1>6, Extended
<1>8. QED
  BY <1>6, <1>7 DEF g, h, q, n, us, Mapped

(* One word more is one quoted word more.                                  *)
LEMMA QuotedOfMore ==
  ASSUME MarksAreWords, NEW as \in Seq(Texts), NEW x \in Texts
  PROVE  /\ Quoted(as) \in Seq(Texts) /\ Len(Quoted(as)) = Len(as)
         /\ Quoted(as \o <<x>>) = Quoted(as) \o <<QuoteWord(x)>>
         /\ QuoteWord(x) \in Texts /\ QuoteWord(x) # <<>>
<1> DEFINE f == [w \in Texts |-> QuoteWord(w)]
           us == as \o <<x>>
<1>1. \A y \in Texts : QuoteWord(y) \in Texts /\ QuoteWord(y) # <<>>
  BY QuoteIs DEF Texts
<1>2. f \in [Texts -> Texts] /\ f[x] = QuoteWord(x)
  BY <1>1
<1>3. us \in Seq(Texts)
  BY ElementsOfMore
<1>4. \A s \in Seq(Texts) : Mapped(f, s) = Quoted(s)
  <2>1. \A s \in Seq(Texts) : \A i \in DOMAIN s : s[i] \in Texts
    OBVIOUS
  <2>2. QED
    BY <2>1 DEF Quoted, Mapped
<1> HIDE DEF f
<1> DEFINE m == Mapped(f, as)
<1>4a. as \in Seq(Texts) /\ x \in Texts
  OBVIOUS
<1>5. m \in Seq(Texts) /\ Len(m) = Len(as) /\ Mapped(f, us) = m \o <<f[x]>>
  <2>1. f \in [Texts -> Texts]
    BY <1>2
  <2>2. m \in Seq(Texts)
    BY ONLY <2>1, <1>4a, MapType
  <2>3. Len(m) = Len(as)
    BY ONLY <1>4a, MapLength
  <2>4. Mapped(f, us) = m \o <<f[x]>>
    BY ONLY <2>1, <1>4a, MapOfMore
  <2>5. QED
    BY <2>2, <2>3, <2>4
<1> HIDE DEF us
<1>6. Quoted(as) \in Seq(Texts) /\ Len(Quoted(as)) = Len(as)
  BY <1>4, <1>5
<1>7. Quoted(us) = Quoted(as) \o <<QuoteWord(x)>>
  BY <1>2, <1>3, <1>4, <1>5
<1>8. QED
  BY <1>1, <1>6, <1>7 DEF us

(* No words, nothing quoted.                                               *)
LEMMA QuotedOfNothing == Quoted(<<>>) = <<>>
BY DEF Quoted

(* As they are on the command line.                                        *)
OnOneLine(as) == Join(Quoted(as), Space)

(* One word more is put behind a space (override_args).                    *)
LEMMA LineOfMore ==
  ASSUME MarksAreWords, NEW as \in Seq(Texts), NEW x \in Texts, OnOneLine(as) \in Texts
  PROVE  /\ OnOneLine(as \o <<x>>) =
              IF as = <<>> THEN QuoteWord(x) ELSE (OnOneLine(as) \o <<Space>>) \o QuoteWord(x)
         /\ OnOneLine(as \o <<x>>) \in Texts
<1> DEFINE h == Quoted(as)
           q == QuoteWord(x)
<1>1. h \in Seq(Texts) /\ Len(h) = Len(as) /\ Quoted(as \o <<x>>) = h \o <<q>> /\ q \in Texts
  BY QuotedOfMore
<1>2. Space \in Word
  BY DEF MarksAreWords, Marks
<1> HIDE DEF h, q
<1>3. Join(h \o <<q>>, Space) =
        IF h = <<>> THEN q ELSE (Join(h, Space) \o <<Space>>) \o q
  <2>1. h \in Seq(Seq(Word)) /\ q \in Seq(Word)
    BY <1>1 DEF Texts
  <2>2. QED
    BY ONLY <2>1, <1>2, JoinOfMore
<1>4. h = <<>> <=> as = <<>>
  <2>1. \A T : \A s \in Seq(T) : s = <<>> <=> Len(s) = 0
    OBVIOUS
  <2>2. QED
    BY <1>1, <2>1
<1>5. OnOneLine(as \o <<x>>) = IF as = <<>> THEN q ELSE (OnOneLine(as) \o <<Space>>) \o q
  BY <1>1, <1>3, <1>4 DEF OnOneLine, h
<1>6. (OnOneLine(as) \o <<Space>>) \o q \in Texts
  <2> DEFINE l == OnOneLine(as)
             s == <<Space>>
  <2>1. l \in Seq(Word) /\ q \in Seq(Word)
    BY <1>1 DEF Texts
  <2>4. s \in Seq(Word)
    BY ONLY <1>2
  <2> HIDE DEF l, s
  <2>2. (l \o s) \o q \in Seq(Word)
    BY ONLY <2>1, <2>4
  <2>3. QED
    BY <2>2 DEF l, s, Texts
<1>7. QED
  BY <1>1, <1>5, <1>6 DEF q

(* Reading them gives the words back, the last one still open.             *)
Open(r, as) == \E a, b : r = Reader(a, b, <<>>, FALSE) /\ a \o b = as

(* Three texts are read one after the other.                               *)
LEMMA ReadsOfThree ==
  ASSUME NEW acc, NEW r \in Seq(Word), NEW s \in Seq(Word), NEW t \in Seq(Word),
         s # <<>>, t # <<>>, NEW next \in Seq(Word)
  PROVE  ReadFrom(acc, (r \o s) \o t, next) = ReadFrom(ReadFrom(ReadFrom(acc, r, <<s[1]>>), s, <<t[1]>>), t, next)
<1> DEFINE u == r \o s
           e == <<t[1]>>
<1>1. u \in Seq(Word) /\ e \in Seq(Word)
  OBVIOUS
<1>3. ReadFrom(acc, u \o t, next) = ReadFrom(ReadFrom(acc, u, e), t, next)
  <2> HIDE DEF u
  <2>1. QED
    BY <1>1, ReadsOfTwo
<1>2. ReadFrom(acc, u, e) = ReadFrom(ReadFrom(acc, r, <<s[1]>>), s, e)
  <2> HIDE DEF e
  <2>1. QED
    BY <1>1, ReadsOfTwo
<1>4. QED
  BY <1>2, <1>3

(* The line of any words is read to those words.                           *)
LEMMA LineReads ==
  ASSUME MarksAreWords
  PROVE  \A as \in Seq(Texts) :
           /\ OnOneLine(as) \in Texts
           /\ \A next \in Texts : Open(ReadFrom(NoWords, OnOneLine(as), next), as)
<1> DEFINE P == {as \in Seq(Texts) : /\ OnOneLine(as) \in Texts
                                     /\ \A next \in Texts : Open(ReadFrom(NoWords, OnOneLine(as), next), as)}
<1>0. NoWords = Reader(<<>>, <<>>, <<>>, FALSE)
  BY DEF NoWords, Reader
<1>1. <<>> \in P
  <2>1. OnOneLine(<<>>) = <<>>
    BY QuotedOfNothing, FlatOfNothing DEF OnOneLine, Join
  <2>2. \A next \in Texts : ReadFrom(NoWords, <<>>, next) = NoWords
    BY ReadsOfNothing DEF Texts
  <2>3. Open(NoWords, <<>>)
    <3>1. <<>> \o <<>> = <<>>
      OBVIOUS
    <3>2. QED
      BY <1>0, <3>1 DEF Open
  <2>4. <<>> \in Texts /\ <<>> \in Seq(Texts)
    BY Joining!EmptyInSeq DEF Texts
  <2>5. QED
    BY <2>1, <2>2, <2>3, <2>4
<1>2. ASSUME NEW as \in Seq(Texts), NEW x \in Texts, as \in P
      PROVE  as \o <<x>> \in P
  <2> DEFINE l == OnOneLine(as)
             q == QuoteWord(x)
             m == OnOneLine(as \o <<x>>)
             us == as \o <<x>>
  <2>1. l \in Texts /\ \A next \in Texts : Open(ReadFrom(NoWords, l, next), as)
    BY <1>2
  <2>2. m = (IF as = <<>> THEN q ELSE (l \o <<Space>>) \o q) /\ m \in Texts
    BY <2>1, LineOfMore
  <2>3. q \in Texts /\ q # <<>> /\ <<q[1]>> \in Texts
    BY QuoteIs DEF Texts
  <2>4. \A ws : \A next \in Texts :
          ReadFrom(Reader(ws, <<>>, <<>>, FALSE), q, next) = Reader(ws, <<x>>, <<>>, FALSE)
    BY QuotedReads DEF Texts
  <2>5. us \in Seq(Texts)
    BY ElementsOfMore
  <2>6. Open(Reader(as, <<x>>, <<>>, FALSE), us)
    BY DEF Open
  <2> HIDE DEF l, q, m, us
  <2>7. ASSUME NEW next \in Texts
        PROVE  Open(ReadFrom(NoWords, m, next), us)
    <3>1. CASE as = <<>>
      <4>1. ReadFrom(NoWords, q, next) = Reader(<<>>, <<x>>, <<>>, FALSE)
        BY <1>0, <2>4
      <4>2. QED
        BY <2>2, <2>6, <3>1, <4>1
    <3>2. CASE as # <<>>
      <4> DEFINE s == <<Space>>
      <4>0. Space \in Word /\ s \in Texts /\ s # <<>> /\ s[1] = Space
        <5>1. Space \in Word
          BY DEF MarksAreWords, Marks
        <5>2. \A y \in Word : <<y>> \in Seq(Word) /\ <<y>> # <<>> /\ <<y>>[1] = y
          OBVIOUS
        <5>3. QED
          BY <5>1, <5>2 DEF Texts
      <4> HIDE DEF s
      <4>1. s \in Seq(Word) /\ <<q[1]>> \in Seq(Word) /\ l \in Seq(Word) /\ q \in Seq(Word) /\ l \o s \in Seq(Word)
            /\ next \in Seq(Word)
        <5>1. s \in Seq(Word) /\ <<q[1]>> \in Seq(Word) /\ l \in Seq(Word)
              /\ q \in Seq(Word) /\ next \in Seq(Word)
          BY <2>1, <2>3, <4>0 DEF Texts
        <5>2. l \o s \in Seq(Word)
          BY ONLY <5>1
        <5>3. QED
          BY <5>1, <5>2
      <4>2. ReadFrom(NoWords, (l \o s) \o q, next)
              = ReadFrom(ReadFrom(ReadFrom(NoWords, l, <<s[1]>>), s, <<q[1]>>), q, next)
        BY <2>3, <4>0, <4>1, ReadsOfThree
      <4>4. <<s[1]>> \in Texts
        BY <4>0 DEF Texts
      <4>5. PICK a, b : ReadFrom(NoWords, l, <<s[1]>>) = Reader(a, b, <<>>, FALSE) /\ a \o b = as
        BY <2>1, <4>4 DEF Open
      <4>6. ReadFrom(Reader(a, b, <<>>, FALSE), s, <<q[1]>>)
              = ReadCharacter(Reader(a, b, <<>>, FALSE), Pair(Space, <<q[1]>>))
        <5>1. \A acc : ReadFrom(acc, <<Space>>, <<q[1]>>) = ReadCharacter(acc, Pair(Space, <<q[1]>>))
          BY <2>3, <4>0, ReadsOne DEF Texts
        <5>2. QED
          BY <5>1 DEF s
      <4>7. ReadCharacter(Reader(a, b, <<>>, FALSE), Pair(Space, <<q[1]>>))
              = Reader(a \o b, <<>>, <<>>, FALSE)
        BY ReadsSpace
      <4>8. ReadFrom(Reader(as, <<>>, <<>>, FALSE), q, next) = Reader(as, <<x>>, <<>>, FALSE)
        BY <2>4
      <4>9. ReadFrom(NoWords, m, next) = Reader(as, <<x>>, <<>>, FALSE)
        BY <2>2, <3>2, <4>2, <4>5, <4>6, <4>7, <4>8 DEF s
      <4>10. QED
        BY <2>6, <4>9
    <3>3. QED
      BY <3>1, <3>2
  <2>8. QED
    BY <2>2, <2>5, <2>7 DEF l, m, us
<1> HIDE DEF P
<1>3. \A as \in Seq(Texts) : as \in P
  BY <1>1, <1>2, Joining!SeqInduction
<1>4. QED
  BY <1>3 DEF P

(* The words of a command line are those it was written from               *)
(* (words::quote, words::split).                                           *)
THEOREM WordsReadBack ==
  ASSUME MarksAreWords, NEW as \in Seq(Texts)
  PROVE  SplitWords(OnOneLine(as)) = <<as>>
<1> DEFINE l == OnOneLine(as)
<1>1. l \in Texts /\ \A next \in Texts : Open(ReadFrom(NoWords, l, next), as)
  BY LineReads
<1> HIDE DEF l
<1>2. Peekable(l) = Followed(l, <<>>) /\ <<>> \in Texts
  BY <1>1, FollowedIs, Joining!EmptyInSeq DEF Texts
<1>3. PICK a, b : Reading!Fold(NoWords, Peekable(l)) = Reader(a, b, <<>>, FALSE) /\ a \o b = as
  BY <1>1, <1>2 DEF ReadFrom, Open
<1>4. LET r == Reader(a, b, <<>>, FALSE)
      IN r.escaped = FALSE /\ r.quote = <<>> /\ r.words = a /\ r.word = b
  BY DEF Reader
<1>5. SplitWords(l) = <<as>>
  BY <1>3, <1>4 DEF SplitWords
<1>6. QED
  BY <1>5 DEF l

(* A batch, split at none of its characters so far.                        *)
Batch(p, q, e) == [parts |-> <<>>, part |-> p, quote |-> q, escaped |-> e]

(* What a character of a batch does outside of quotes and inside double    *)
(* ones.                                                                   *)
LEMMA BatchOther ==
  ASSUME NEW p, NEW ch, ch \notin {Single, Double, Backslash, ";"}
  PROVE  ReadBatch(Batch(p, <<>>, FALSE), ch) = Batch(Append(p, ch), <<>>, FALSE)
<1> DEFINE acc == Batch(p, <<>>, FALSE)
<1>1. /\ acc.parts = <<>> /\ acc.part = p /\ acc.quote = <<>> /\ acc.escaped = FALSE
      /\ acc = [parts |-> <<>>, part |-> p, quote |-> <<>>, escaped |-> FALSE]
  BY DEF Batch
<1>2. \A x : <<x>> # <<>>
  OBVIOUS
<1>3. QED
  BY <1>1, <1>2 DEF ReadBatch, Batch

(* A double quote opens,                                                   *)
LEMMA BatchStart ==
  ASSUME NEW p
  PROVE  ReadBatch(Batch(p, <<>>, FALSE), Double) = Batch(Append(p, Double), <<Double>>, FALSE)
<1> DEFINE acc == Batch(p, <<>>, FALSE)
<1>1. /\ acc.parts = <<>> /\ acc.part = p /\ acc.quote = <<>> /\ acc.escaped = FALSE
      /\ acc = [parts |-> <<>>, part |-> p, quote |-> <<>>, escaped |-> FALSE]
  BY DEF Batch
<1>2. \A x : <<x>> # <<>>
  OBVIOUS
<1>3. QED
  BY <1>1, <1>2, MarksDiffer DEF ReadBatch, Batch

(* and closes.                                                             *)
LEMMA BatchEnd ==
  ASSUME NEW p
  PROVE  ReadBatch(Batch(p, <<Double>>, FALSE), Double) = Batch(Append(p, Double), <<>>, FALSE)
<1> DEFINE acc == Batch(p, <<Double>>, FALSE)
<1>1. /\ acc.parts = <<>> /\ acc.part = p /\ acc.quote = <<Double>> /\ acc.escaped = FALSE
      /\ acc = [parts |-> <<>>, part |-> p, quote |-> <<Double>>, escaped |-> FALSE]
  BY DEF Batch
<1>2. QED
  BY <1>1, MarksDiffer DEF ReadBatch, Batch

(* A backslash takes the next character with it,                           *)
LEMMA BatchBackslash ==
  ASSUME NEW p
  PROVE  ReadBatch(Batch(p, <<Double>>, FALSE), Backslash) = Batch(Append(p, Backslash), <<Double>>, TRUE)
<1> DEFINE acc == Batch(p, <<Double>>, FALSE)
<1>1. /\ acc.parts = <<>> /\ acc.part = p /\ acc.quote = <<Double>> /\ acc.escaped = FALSE
      /\ acc = [parts |-> <<>>, part |-> p, quote |-> <<Double>>, escaped |-> FALSE]
  BY DEF Batch
<1>2. \A x : <<x>> # <<>> /\ (<<Double>> = <<x>> <=> x = Double)
  OBVIOUS
<1>3. QED
  BY <1>1, <1>2, MarksDiffer DEF ReadBatch, Batch

(* whatever that is.                                                       *)
LEMMA BatchEscaped ==
  ASSUME NEW p, NEW ch
  PROVE  ReadBatch(Batch(p, <<Double>>, TRUE), ch) = Batch(Append(p, ch), <<Double>>, FALSE)
<1> DEFINE acc == Batch(p, <<Double>>, TRUE)
<1>1. /\ acc.parts = <<>> /\ acc.part = p /\ acc.quote = <<Double>> /\ acc.escaped = TRUE
      /\ acc = [parts |-> <<>>, part |-> p, quote |-> <<Double>>, escaped |-> TRUE]
  BY DEF Batch
<1>2. QED
  BY <1>1 DEF ReadBatch, Batch

(* Anything else between double quotes is part of the value.               *)
LEMMA BatchInside ==
  ASSUME NEW p, NEW ch, ch \notin {Double, Backslash}
  PROVE  ReadBatch(Batch(p, <<Double>>, FALSE), ch) = Batch(Append(p, ch), <<Double>>, FALSE)
<1> DEFINE acc == Batch(p, <<Double>>, FALSE)
<1>1. /\ acc.parts = <<>> /\ acc.part = p /\ acc.quote = <<Double>> /\ acc.escaped = FALSE
      /\ acc = [parts |-> <<>>, part |-> p, quote |-> <<Double>>, escaped |-> FALSE]
  BY DEF Batch
<1>2. \A x : <<x>> # <<>> /\ (<<Double>> = <<x>> <=> x = Double)
  OBVIOUS
<1>3. QED
  BY <1>1, <1>2, MarksDiffer DEF ReadBatch, Batch

(* A text that a batch is not split in, read from inside these quotes to   *)
(* inside those.                                                           *)
Passes(q1, t, q2) ==
  \A p \in Seq(Word) : Batching!Fold(Batch(p, q1, FALSE), t) = Batch(p \o t, q2, FALSE)

(* Nothing, and two texts in a row.                                        *)
LEMMA PassesNothing ==
  ASSUME NEW q
  PROVE  Passes(q, <<>>, q)
<1> SUFFICES ASSUME NEW p \in Seq(Word)
             PROVE  Batching!Fold(Batch(p, q, FALSE), <<>>) = Batch(p \o <<>>, q, FALSE)
  BY DEF Passes
<1>1. p \o <<>> = p
  OBVIOUS
<1>2. QED
  BY <1>1, Batching!FoldOfNothing

(* Two texts pass one after the other.                                     *)
LEMMA PassesTwo ==
  ASSUME NEW q1, NEW q2, NEW q3, NEW s \in Seq(Word), NEW t \in Seq(Word),
         Passes(q1, s, q2), Passes(q2, t, q3)
  PROVE  Passes(q1, s \o t, q3)
<1> SUFFICES ASSUME NEW p \in Seq(Word)
             PROVE  Batching!Fold(Batch(p, q1, FALSE), s \o t) = Batch(p \o (s \o t), q3, FALSE)
  BY DEF Passes
<1> DEFINE a == Batch(p, q1, FALSE)
           r == p \o s
<1>1. r \in Seq(Word) /\ p \o (s \o t) = r \o t
  BY Joining!Concat
<1>2. Batching!Fold(a, s) = Batch(r, q2, FALSE)
  BY DEF Passes
<1> HIDE DEF a, r
<1>3. Batching!Fold(a, s \o t) = Batching!Fold(Batching!Fold(a, s), t)
  BY Batching!FoldOfMore
<1>4. Batching!Fold(Batch(r, q2, FALSE), t) = Batch(r \o t, q3, FALSE)
  BY <1>1 DEF Passes
<1>5. QED
  BY <1>1, <1>2, <1>3, <1>4 DEF a

(* One character.                                                          *)
LEMMA PassesOne ==
  ASSUME NEW q1, NEW x \in Word, NEW q2,
         \A p : ReadBatch(Batch(p, q1, FALSE), x) = Batch(Append(p, x), q2, FALSE)
  PROVE  Passes(q1, <<x>>, q2)
<1> SUFFICES ASSUME NEW p \in Seq(Word)
             PROVE  Batching!Fold(Batch(p, q1, FALSE), <<x>>) = Batch(p \o <<x>>, q2, FALSE)
  BY DEF Passes
<1> DEFINE a == Batch(p, q1, FALSE)
           e == <<>>
<1>1. e \in Seq(Word) /\ e \o <<x>> = <<x>> /\ Append(p, x) = p \o <<x>>
  OBVIOUS
<1>2. Batching!Fold(a, e) = a
  BY Batching!FoldOfNothing
<1> HIDE DEF a, e
<1>3. Batching!Fold(a, e \o <<x>>) = ReadBatch(Batching!Fold(a, e), x)
  BY <1>1, Batching!FoldOfOneMore
<1>4. QED
  BY <1>1, <1>2, <1>3 DEF a

(* A character as it is between the quotes.                                *)
LEMMA PassesEscape ==
  ASSUME MarksAreWords, NEW x \in Word
  PROVE  Passes(<<Double>>, Escape(x), <<Double>>)
<1>1. CASE x \in {Double, Backslash}
  <2> DEFINE b == <<Backslash>>
             t == <<x>>
  <2>1. Backslash \in Word
    BY DEF MarksAreWords, Marks
  <2>2. b \in Seq(Word) /\ t \in Seq(Word) /\ b \o t = Escape(x)
    <3>1. Escape(x) = <<Backslash>> \o <<x>>
      BY <1>1, <2>1 DEF Escape
    <3>2. <<Backslash>> \in Seq(Word) /\ <<x>> \in Seq(Word)
      BY <2>1
    <3>3. QED
      BY <3>1, <3>2
  <2>3. \A p \in Seq(Word) : Batching!Fold(Batch(p, <<Double>>, FALSE), b \o t)
                               = Batch(p \o (b \o t), <<Double>>, FALSE)
    <3>1. SUFFICES ASSUME NEW p \in Seq(Word)
                   PROVE  Batching!Fold(Batch(p, <<Double>>, FALSE), b \o t)
                            = Batch(p \o (b \o t), <<Double>>, FALSE)
      OBVIOUS
    <3> DEFINE a0 == Batch(p, <<Double>>, FALSE)
               a1 == Batch(p \o b, <<Double>>, TRUE)
               a2 == Batch((p \o b) \o t, <<Double>>, FALSE)
               e == <<>>
    <3>2. /\ e \in Seq(Word) /\ e \o b = b /\ p \o b \in Seq(Word)
          /\ Append(p, Backslash) = p \o b /\ Append(p \o b, x) = (p \o b) \o t
          /\ (p \o b) \o t = p \o (b \o t)
      BY <2>1, <2>2, Joining!Concat
    <3>3. ReadBatch(a0, Backslash) = a1 /\ ReadBatch(a1, x) = a2
      <4>1. ReadBatch(a0, Backslash) = a1
        BY <3>2, BatchBackslash
      <4> DEFINE r == p \o b
      <4>2. ReadBatch(Batch(r, <<Double>>, TRUE), x) = Batch(Append(r, x), <<Double>>, FALSE)
        BY BatchEscaped
      <4>3. QED
        BY <3>2, <4>1, <4>2
    <3>4. Batching!Fold(a0, e) = a0
      BY Batching!FoldOfNothing
    <3>4a. b = <<Backslash>> /\ t = <<x>>
      OBVIOUS
    <3> HIDE DEF a0, a1, a2, e, b, t
    <3>5. Batching!Fold(a0, e \o <<Backslash>>) = ReadBatch(Batching!Fold(a0, e), Backslash)
      BY <2>1, <3>2, Batching!FoldOfOneMore
    <3>6. Batching!Fold(a0, b) = a1
      BY <3>2, <3>3, <3>4, <3>4a, <3>5
    <3>7. Batching!Fold(a0, b \o <<x>>) = ReadBatch(Batching!Fold(a0, b), x)
      BY <2>2, Batching!FoldOfOneMore
    <3>8. QED
      BY <3>2, <3>3, <3>4a, <3>6, <3>7 DEF a0, a2
  <2>4. QED
    BY <2>2, <2>3 DEF Passes
<1>2. CASE x \notin {Double, Backslash}
  <2>1. \A p : ReadBatch(Batch(p, <<Double>>, FALSE), x) = Batch(Append(p, x), <<Double>>, FALSE)
    BY <1>2, BatchInside
  <2>2. Passes(<<Double>>, <<x>>, <<Double>>)
    BY <2>1, PassesOne
  <2>3. QED
    BY <1>2, <2>2 DEF Escape
<1>3. QED
  BY <1>1, <1>2

(* All that is between them.                                               *)
LEMMA PassesBetween ==
  ASSUME MarksAreWords
  PROVE  \A w \in Seq(Word) : Passes(<<Double>>, Between(w), <<Double>>)
<1> DEFINE P == {w \in Seq(Word) : Passes(<<Double>>, Between(w), <<Double>>)}
<1>1. <<>> \in P
  <2>1. PICK x : x \in Word
    BY DEF MarksAreWords, Marks
  <2>2. Between(<<>>) = <<>>
    BY <2>1, BetweenOfMore, Joining!EmptyInSeq
  <2>3. QED
    BY <2>2, PassesNothing, Joining!EmptyInSeq
<1>2. ASSUME NEW w \in Seq(Word), NEW x \in Word, w \in P
      PROVE  w \o <<x>> \in P
  <2> DEFINE s == Between(w)
             t == Escape(x)
             q == <<Double>>
  <2>1. s \in Seq(Word) /\ t \in Seq(Word) /\ Between(w \o <<x>>) = s \o t
    BY BetweenOfMore
  <2>2. Passes(q, s, q) /\ Passes(q, t, q)
    BY <1>2, PassesEscape
  <2>3. w \o <<x>> \in Seq(Word)
    OBVIOUS
  <2> HIDE DEF s, t, q
  <2>4. Passes(q, s \o t, q)
    BY <2>1, <2>2, PassesTwo
  <2>5. QED
    BY <2>1, <2>3, <2>4 DEF q
<1> HIDE DEF P
<1>3. \A w \in Seq(Word) : w \in P
  BY <1>1, <1>2, Joining!SeqInduction
<1>4. QED
  BY <1>3 DEF P

(* A text of characters that mean nothing to a batch.                      *)
Through(t) == Passes(<<>>, t, <<>>)

(* One character without meaning goes through a batch,                     *)
LEMMA OneThrough ==
  ASSUME NEW x \in Word, x \notin {Single, Double, Backslash, ";"}
  PROVE  Through(<<x>>)
<1>1. \A p : ReadBatch(Batch(p, <<>>, FALSE), x) = Batch(Append(p, x), <<>>, FALSE)
  BY BatchOther
<1>2. QED
  BY <1>1, PassesOne DEF Through

(* two texts that do go through together,                                  *)
LEMMA TwoThrough ==
  ASSUME NEW s \in Seq(Word), NEW t \in Seq(Word), Through(s), Through(t)
  PROVE  Through(s \o t)
BY PassesTwo DEF Through

(* and so does a word without marks.                                       *)
LEMMA UnmarkedThrough ==
  \A w \in Seq(Word) : Unmarked(w) => Through(w)
<1> DEFINE P == {w \in Seq(Word) : Unmarked(w) => Through(w)}
<1>1. <<>> \in P
  BY PassesNothing, Joining!EmptyInSeq DEF Through
<1>2. ASSUME NEW w \in Seq(Word), NEW x \in Word, w \in P
      PROVE  w \o <<x>> \in P
  <2>1. w \o <<x>> \in Seq(Word) /\ (Unmarked(w \o <<x>>) <=> Unmarked(w) /\ x \notin Marks)
    BY UnmarkedMore
  <2>2. ASSUME Unmarked(w), x \notin Marks
        PROVE  Through(w \o <<x>>)
    <3> DEFINE t == <<x>>
    <3>0. Through(<<x>>)
      BY <2>2, OneThrough DEF Marks
    <3>1. t \in Seq(Word) /\ Through(t)
      BY <3>0
    <3>2. Through(w)
      BY <1>2, <2>2
    <3> HIDE DEF t
    <3>3. Through(w \o t)
      BY <3>1, <3>2, TwoThrough
    <3>4. QED
      BY <3>3 DEF t
  <2>3. QED
    BY <2>1, <2>2
<1> HIDE DEF P
<1>3. \A w \in Seq(Word) : w \in P
  BY <1>1, <1>2, Joining!SeqInduction
<1>4. QED
  BY <1>3 DEF P

(* A quoted word.                                                          *)
LEMMA QuotedThrough ==
  ASSUME MarksAreWords, NEW w \in Seq(Word)
  PROVE  Through(QuoteWord(w))
<1>1. CASE w # <<>> /\ Unmarked(w)
  BY <1>1, QuoteIs, UnmarkedThrough
<1>2. CASE ~ (w # <<>> /\ Unmarked(w))
  <2> DEFINE q == <<Double>>
             s == Between(w)
             n == <<>>
  <2>1. Double \in Word
    BY DEF MarksAreWords, Marks
  <2>2. q \in Seq(Word) /\ s \in Seq(Word) /\ QuoteWord(w) = (q \o s) \o q
    BY <1>2, QuoteIs
  <2>3. Passes(n, q, q)
    BY <2>1, BatchStart, PassesOne
  <2>4. Passes(q, q, n)
    BY <2>1, BatchEnd, PassesOne
  <2>5. Passes(q, s, q)
    BY PassesBetween
  <2> HIDE DEF q, s, n
  <2>6. Passes(n, q \o s, q) /\ q \o s \in Seq(Word)
    BY <2>2, <2>3, <2>5, PassesTwo
  <2>7. Passes(n, (q \o s) \o q, n)
    BY <2>2, <2>4, <2>6, PassesTwo
  <2>8. QED
    BY <2>2, <2>7 DEF Through, n
<1>3. QED
  BY <1>1, <1>2

(* A text that starts and ends with something.                             *)
Solid(t) == t # <<>> /\ t[1] # Space /\ t[Len(t)] # Space

(* trim() leaves it as it is.                                              *)
LEMMA SolidTrim ==
  ASSUME NEW t \in Seq(Word), Solid(t)
  PROVE  Trim(t) = t
<1> DEFINE n == Len(t)
           kept == {i \in DOMAIN t : t[i] # Space}
           first == CHOOSE i \in kept : \A j \in kept : i <= j
           last == CHOOSE i \in kept : \A j \in kept : j <= i
<1>1. n \in Nat /\ n >= 1 /\ DOMAIN t = 1 .. n
  BY DEF Solid
<1>2. 1 \in kept /\ n \in kept /\ \A j \in kept : 1 <= j /\ j <= n /\ j \in Nat
  BY <1>1 DEF Solid
<1>3. Trim(t) = IF kept = {} THEN <<>> ELSE SubSeq(t, first, last)
  BY DEF Trim
<1>4. first = 1 /\ last = n
  <2> HIDE DEF kept, n
  <2>1. first \in kept /\ \A j \in kept : first <= j
    BY <1>2
  <2>2. last \in kept /\ \A j \in kept : j <= last
    BY <1>2
  <2> HIDE DEF first, last
  <2>3. first \in Nat /\ last \in Nat /\ n \in Nat
    BY <1>2, <2>1, <2>2
  <2>4. first <= 1 /\ 1 <= first /\ n <= last /\ last <= n
    BY <1>2, <2>1, <2>2
  <2>5. QED
    BY <2>3, <2>4
<1>5. SubSeq(t, 1, n) = t
  BY <1>1
<1> HIDE DEF kept, first, last, n
<1>6. QED
  BY <1>2, <1>3, <1>4, <1>5

(* The ends of two texts in a row, with anything between them.             *)
LEMMA SolidTwo ==
  ASSUME NEW s \in Seq(Word), NEW t \in Seq(Word), s # <<>>, t # <<>>,
         s[1] # Space, t[Len(t)] # Space
  PROVE  Solid(s \o t)
<1> DEFINE r == s \o t
<1>1. Len(s) \in Nat /\ Len(t) \in Nat /\ Len(s) >= 1 /\ Len(t) >= 1
  OBVIOUS
<1>2. /\ r \in Seq(Word) /\ Len(r) = Len(s) + Len(t)
      /\ r[1] = s[1] /\ r[Len(s) + Len(t)] = t[Len(t)]
  BY <1>1, TwoOf
<1> HIDE DEF r
<1>3. r # <<>>
  BY <1>1, <1>2
<1>4. QED
  BY <1>2, <1>3 DEF Solid, r

(* A quoted word starts and ends with a quote or with what is no space.    *)
LEMMA QuotedSolid ==
  ASSUME MarksAreWords, NEW w \in Seq(Word)
  PROVE  Solid(QuoteWord(w))
<1>1. CASE w # <<>> /\ Unmarked(w)
  <2>1. Len(w) \in Nat /\ Len(w) >= 1
    BY <1>1
  <2>2. 1 \in 1 .. Len(w) /\ Len(w) \in 1 .. Len(w)
    BY <2>1
  <2>3. w[1] \notin Marks /\ w[Len(w)] \notin Marks
    BY <1>1, <2>2 DEF Unmarked
  <2>4. Solid(w)
    BY <1>1, <2>3 DEF Solid, Marks
  <2>5. QED
    BY <1>1, <2>4, QuoteIs
<1>2. CASE ~ (w # <<>> /\ Unmarked(w))
  <2> DEFINE q == <<Double>>
             s == Between(w)
             r == q \o s
  <2>1. Double \in Word
    BY DEF MarksAreWords, Marks
  <2>2. q \in Seq(Word) /\ q # <<>> /\ q[1] = Double /\ q[Len(q)] = Double
    BY <2>1
  <2>3. s \in Seq(Word) /\ QuoteWord(w) = (q \o s) \o q
    BY <1>2, QuoteIs
  <2> HIDE DEF q, s
  <2>4. r \in Seq(Word) /\ r # <<>> /\ r[1] = Double
    BY <2>2, <2>3
  <2> HIDE DEF r
  <2>5. Double # Space
    BY MarksDiffer
  <2>6. Solid(r \o q)
    BY <2>2, <2>4, <2>5, SolidTwo
  <2>7. QED
    BY <2>3, <2>6 DEF r
<1>3. QED
  BY <1>1, <1>2

(* Words on one line: the line goes through a batch, and it starts and     *)
(* ends with something.                                                    *)
LEMMA LineWhole ==
  ASSUME MarksAreWords
  PROVE  \A as \in Seq(Texts) : Through(OnOneLine(as)) /\ (as # <<>> => Solid(OnOneLine(as)))
<1> DEFINE P == {as \in Seq(Texts) : Through(OnOneLine(as)) /\ (as # <<>> => Solid(OnOneLine(as)))}
<1>1. <<>> \in P
  <2>1. OnOneLine(<<>>) = <<>>
    BY QuotedOfNothing, FlatOfNothing DEF OnOneLine, Join
  <2>2. <<>> \in Seq(Texts)
    BY Joining!EmptyInSeq
  <2>3. Through(<<>>)
    BY PassesNothing DEF Through
  <2>4. QED
    BY <2>1, <2>2, <2>3
<1>2. ASSUME NEW as \in Seq(Texts), NEW x \in Texts, as \in P
      PROVE  as \o <<x>> \in P
  <2> DEFINE l == OnOneLine(as)
             q == QuoteWord(x)
             m == OnOneLine(as \o <<x>>)
             us == as \o <<x>>
             s == <<Space>>
  <2>1. l \in Texts
    BY LineReads
  <2>2. m = (IF as = <<>> THEN q ELSE (l \o s) \o q) /\ m \in Texts
    BY <2>1, LineOfMore
  <2>3. q \in Texts /\ q # <<>> /\ Through(q) /\ Solid(q)
    BY QuoteIs, QuotedThrough, QuotedSolid DEF Texts
  <2>4. us \in Seq(Texts)
    BY ElementsOfMore
  <2>5. Space \in Word /\ Space \notin {Single, Double, Backslash, ";"}
    BY MarksDiffer DEF MarksAreWords, Marks
  <2>6. Through(<<Space>>)
    BY <2>5, OneThrough
  <2>7. s \in Seq(Word) /\ Through(s)
    <3>1. \A y \in Word : <<y>> \in Seq(Word)
      OBVIOUS
    <3>2. <<Space>> \in Seq(Word)
      BY <2>5, <3>1
    <3>3. QED
      BY <2>6, <3>2
  <2>8. Through(l) /\ (as # <<>> => Solid(l))
    BY <1>2
  <2> HIDE DEF l, q, m, us, s
  <2>9. l \in Seq(Word) /\ q \in Seq(Word)
    BY <2>1, <2>3 DEF Texts
  <2> DEFINE b == l \o s
  <2>10. b \in Seq(Word) /\ Through(b) /\ (as # <<>> => b # <<>> /\ b[1] # Space)
    <3>1. b \in Seq(Word)
      BY <2>7, <2>9
    <3>2. Through(b)
      BY <2>7, <2>8, <2>9, TwoThrough
    <3>3. ASSUME as # <<>>
          PROVE  b # <<>> /\ b[1] # Space
      <4>1. l # <<>> /\ l[1] # Space
        BY <2>8, <3>3 DEF Solid
      <4>2. Len(l) \in Nat /\ Len(l) >= 1
        BY <2>9, <4>1
      <4>3. b[1] = l[1] /\ Len(b) >= 1
        BY <2>7, <2>9, <4>2
      <4> HIDE DEF b
      <4>4. b # <<>>
        BY <3>1, <4>3
      <4>5. QED
        BY <4>1, <4>3, <4>4
    <3>4. QED
      BY <3>1, <3>2, <3>3
  <2> HIDE DEF b
  <2>11. Through(b \o q)
    BY <2>3, <2>9, <2>10, TwoThrough
  <2>12. as # <<>> => Solid(b \o q)
    BY <2>3, <2>9, <2>10, SolidTwo DEF Solid
  <2>13. Through(m) /\ Solid(m)
    BY <2>2, <2>3, <2>11, <2>12 DEF b
  <2>14. QED
    BY <2>4, <2>13 DEF m, us
<1> HIDE DEF P
<1>3. \A as \in Seq(Texts) : as \in P
  BY <1>1, <1>2, Joining!SeqInduction
<1>4. QED
  BY <1>3 DEF P

(* The marks are words, as CommandLine assumes.                            *)
LEMMA MarksWords == MarksAreWords
BY CommandLineAssumption DEF MarksAreWords, Marks

(* A batch that goes through is one assignment (split_assignments).        *)
LEMMA OnePart ==
  ASSUME NEW whole \in Seq(Word), Through(whole)
  PROVE  SplitAssignments(whole) = <<whole>>
<1>1. NoParts = Batch(<<>>, <<>>, FALSE)
  BY DEF NoParts, Batch
<1>2. <<>> \in Seq(Word) /\ <<>> \o whole = whole
  OBVIOUS
<1>3. Batching!Fold(NoParts, whole) = Batch(whole, <<>>, FALSE)
  BY <1>1, <1>2 DEF Through, Passes
<1>4. Batch(whole, <<>>, FALSE).parts = <<>> /\ Batch(whole, <<>>, FALSE).part = whole
  BY DEF Batch
<1>5. Append(<<>>, whole) = <<whole>>
  OBVIOUS
<1>6. QED
  BY <1>3, <1>4, <1>5 DEF SplitAssignments

(* A key, = and a value.                                                   *)
Assigned(k, v) == (k \o <<Equals>>) \o v

(* And it assigns the value it was written with to the key (from_str).     *)
LEMMA OneAssignment ==
  ASSUME NEW k \in Seq(Word), NEW v \in Seq(Word), Solid(k), Solid(v),
         Through(k), Through(v), Lacks(k, Equals)
  PROVE  BatchSettings(Assigned(k, v)) = Assign(NoSettings, k, v)
<1> DEFINE whole == Assigned(k, v)
           e == <<Equals>>
           acc == [fault |-> Ok, settings |-> NoSettings]
<1>1. Equals \in Word /\ Equals \notin {Single, Double, Backslash, ";"}
  BY CommandLineAssumption DEF Equals, Single, Double, Backslash
<1>2. Through(<<Equals>>)
  BY <1>1, OneThrough
<1>3. e \in Seq(Word) /\ Through(e)
  <2>1. \A y \in Word : <<y>> \in Seq(Word)
    OBVIOUS
  <2>2. <<Equals>> \in Seq(Word)
    BY <1>1, <2>1
  <2>3. QED
    BY <1>2, <2>2
<1>4. whole \in Seq(Word) /\ whole # <<>> /\ Contains(whole, "=") /\ Before(whole) = k /\ After(whole) = v
  BY FirstEquals DEF Assigned, Equals
<1>5. Through(whole)
  <2> HIDE DEF e
  <2>1. k \o e \in Seq(Word) /\ Through(k \o e)
    BY <1>3, TwoThrough
  <2> DEFINE ke == k \o e
  <2> HIDE DEF ke
  <2>2. Through(ke \o v)
    BY <2>1, TwoThrough DEF ke
  <2>3. QED
    BY <2>2 DEF ke, e, Assigned
<1> HIDE DEF whole
<1>6. SplitAssignments(whole) = <<whole>>
  BY <1>4, <1>5, OnePart
<1>7. BatchSettings(whole) = Assigning!Fold(acc, <<whole>>)
  BY <1>4, <1>6 DEF BatchSettings
<1>8. Trim(k) = k /\ Trim(v) = v
  BY SolidTrim
<1>9. ReadPart(acc, whole) = Assign(NoSettings, k, v)
  <2>1. acc.fault = Ok /\ acc.settings = NoSettings
    OBVIOUS
  <2>2. QED
    BY <1>4, <1>8, <2>1 DEF ReadPart
<1> HIDE DEF acc
<1>10. Assigning!Fold(acc, <<whole>>) = ReadPart(acc, whole)
  <2> DEFINE T == Seq(Word)
             n == <<>>
  <2>1. whole \in T /\ n \in Seq(T) /\ n \o <<whole>> = <<whole>>
    BY <1>4
  <2>2. Assigning!Fold(acc, n) = acc
    BY Assigning!FoldOfNothing
  <2> HIDE DEF T, n
  <2>3. Assigning!Fold(acc, n \o <<whole>>) = ReadPart(Assigning!Fold(acc, n), whole)
    BY <2>1, Assigning!FoldOfOneMore
  <2>4. QED
    BY <2>1, <2>2, <2>3
<1>11. QED
  BY <1>7, <1>9, <1>10 DEF whole

(* One quoted word is that word (one_word).                                *)
LEMMA OneWordReads ==
  ASSUME NEW w \in Seq(Word)
  PROVE  OneWord(QuoteWord(w)) = [fault |-> Ok, word |-> w]
<1> DEFINE as == <<w>>
           n == <<>>
<1>1. w \in Texts
  BY DEF Texts
<1>2. as \in Seq(Texts) /\ n \in Seq(Texts) /\ n \o <<w>> = as
  BY <1>1
<1>3. OnOneLine(as) = QuoteWord(w)
  <2>1. n = <<>> /\ OnOneLine(n) \in Texts
    BY <1>2, LineReads, MarksWords
  <2> HIDE DEF n, as
  <2>2. OnOneLine(n \o <<w>>) = QuoteWord(w)
    BY <1>1, <1>2, <2>1, LineOfMore, MarksWords
  <2>3. QED
    BY <1>2, <2>2
<1>4. SplitWords(QuoteWord(w)) = <<as>>
  <2> HIDE DEF as
  <2>1. SplitWords(OnOneLine(as)) = <<as>>
    BY <1>2, WordsReadBack, MarksWords
  <2>2. QED
    BY <1>3, <2>1
<1>5. <<as>> # <<>> /\ <<as>>[1] = as /\ Len(as) = 1 /\ as # <<>> /\ as[1] = w
  OBVIOUS
<1>6. QED
  BY <1>4, <1>5 DEF OneWord

(* Settings of an executable, arguments and variables alone.               *)
Setting(executable, arguments, env) ==
  [executable |-> executable, arguments |-> arguments, game |-> <<>>, retina_mode |-> <<>>,
   dpi |-> <<>>, rule |-> <<>>, env |-> env]
Accepted(settings) == [fault |-> Ok, settings |-> settings]

(* Nothing set but one field.                                              *)
LEMMA SettingIs ==
  ASSUME NEW x
  PROVE  /\ [NoSettings EXCEPT !.executable = x] = Setting(x, <<>>, <<>>)
         /\ [NoSettings EXCEPT !.arguments = x] = Setting(<<>>, x, <<>>)
         /\ [NoSettings EXCEPT !.env = x] = Setting(<<>>, <<>>, x)
<1> DEFINE e == <<>>
           r == [executable |-> e, arguments |-> e, game |-> e, retina_mode |-> e, dpi |-> e,
                 rule |-> e, env |-> e]
<1>1. NoSettings = r
  BY DEF NoSettings
<1> HIDE DEF e
<1>2. [r EXCEPT !.executable = x] = [executable |-> x, arguments |-> e, game |-> e,
         retina_mode |-> e, dpi |-> e, rule |-> e, env |-> e]
  OBVIOUS
<1>3. [r EXCEPT !.arguments = x] = [executable |-> e, arguments |-> x, game |-> e,
         retina_mode |-> e, dpi |-> e, rule |-> e, env |-> e]
  OBVIOUS
<1>4. [r EXCEPT !.env = x] = [executable |-> e, arguments |-> e, game |-> e,
         retina_mode |-> e, dpi |-> e, rule |-> e, env |-> x]
  OBVIOUS
<1> HIDE DEF r
<1>5. QED
  BY <1>1, <1>2, <1>3, <1>4 DEF Setting, e

(* A character is a text.                                                  *)
LEMMA WordIsText == \A y \in Word : <<y>> \in Seq(Word)
OBVIOUS

(* A key of one word is solid, goes through a batch and has no = in it.    *)
LEMMA KeyIs ==
  ASSUME NEW x \in Word, x \notin {Space, Single, Double, Backslash, ";", "="}
  PROVE  /\ <<x>> \in Seq(Word) /\ Solid(<<x>>) /\ Through(<<x>>) /\ Lacks(<<x>>, Equals)
<1> DEFINE t == <<x>>
<1>1. t \in Seq(Word)
  BY WordIsText
<1>2. t # <<>> /\ Len(t) = 1 /\ t[1] = x
  OBVIOUS
<1>3. Through(<<x>>)
  BY OneThrough
<1>4. x # Space /\ x # Equals
  BY DEF Equals
<1>5. Through(t)
  BY <1>3
<1> HIDE DEF t
<1>6. Solid(t) /\ Lacks(t, Equals)
  BY ONLY <1>2, <1>4 DEF Solid, Lacks
<1>7. QED
  BY <1>1, <1>5, <1>6 DEF t

(* executable= takes one word that is not empty (assign).                  *)
LEMMA AssignExecutable ==
  ASSUME NEW e \in Seq(Word), e # <<>>
  PROVE  Assign(NoSettings, <<"executable">>, QuoteWord(e)) = Accepted(Setting(<<e>>, <<>>, <<>>))
<1> DEFINE k == <<"executable">>
           v == QuoteWord(e)
<1>1. k # <<>> /\ k[1] = "executable" /\ Len(k) = 1
  OBVIOUS
<1>2. Lower("executable") = "executable"
  BY CommandLineAssumption
<1>3. OneWord(v) = [fault |-> Ok, word |-> e]
  BY OneWordReads
<1>4. WordsFor("executable", v) = [fault |-> Ok, values |-> <<e>>]
  BY <1>2, <1>3 DEF WordsFor, Lists
<1>5. ValueFault("executable", <<e>>) = Ok
  BY DEF ValueFault
<1>6. "executable" # "env."
  OBVIOUS
<1> HIDE DEF k, v
<1>7. AssignFault(k, v) = Ok
  BY <1>1, <1>4, <1>5, <1>6 DEF AssignFault
<1>8. Recorded(NoSettings, "executable", <<e>>) = [NoSettings EXCEPT !.executable = <<e>>]
  BY DEF Recorded
<1>9. Assign(NoSettings, k, v)
        = [fault |-> Ok, settings |-> [NoSettings EXCEPT !.executable = <<e>>]]
  BY <1>1, <1>4, <1>6, <1>7, <1>8 DEF Assign
<1>10. [NoSettings EXCEPT !.executable = <<e>>] = Setting(<<e>>, <<>>, <<>>)
  BY SettingIs
<1>11. QED
  BY <1>9, <1>10 DEF Accepted, k, v

(* arguments= takes the words of the line.                                 *)
LEMMA AssignArguments ==
  ASSUME NEW as \in Seq(Texts)
  PROVE  Assign(NoSettings, <<"arguments">>, OnOneLine(as)) = Accepted(Setting(<<>>, <<as>>, <<>>))
<1> DEFINE k == <<"arguments">>
           v == OnOneLine(as)
<1>1. k # <<>> /\ k[1] = "arguments" /\ Len(k) = 1
  OBVIOUS
<1>3. SplitWords(v) = <<as>>
  BY WordsReadBack, MarksWords
<1>4. WordsFor("arguments", v) = [fault |-> Ok, values |-> as]
  <2>1. <<as>> # <<>> /\ <<as>>[1] = as
    OBVIOUS
  <2> HIDE DEF v
  <2>2. QED
    BY <1>3, <2>1 DEF WordsFor, Values
<1>5. ValueFault("arguments", as) = Ok
  BY DEF ValueFault
<1>6. k[1] # "env."
  BY <1>1
<1>6a. WordsFor("arguments", v).fault = Ok /\ WordsFor("arguments", v).values = as
  <2> DEFINE r == WordsFor("arguments", v)
  <2>1. r = [fault |-> Ok, values |-> as]
    BY <1>4
  <2> HIDE DEF r
  <2>2. r.fault = Ok /\ r.values = as
    BY ONLY <2>1
  <2>3. QED
    BY <2>2 DEF r
<1> HIDE DEF k, v
<1>7. AssignFault(k, v) = Ok
  <2> DEFINE r == WordsFor(k[1], v)
  <2>1. r.fault = Ok /\ ValueFault(k[1], r.values) = Ok
    BY <1>1, <1>5, <1>6a
  <2> HIDE DEF r
  <2>2. QED
    BY <1>1, <1>6, <2>1 DEF AssignFault, r
<1>8. Recorded(NoSettings, "arguments", as) = [NoSettings EXCEPT !.arguments = <<as>>]
  BY DEF Recorded
<1>9. Assign(NoSettings, k, v)
        = [fault |-> Ok, settings |-> [NoSettings EXCEPT !.arguments = <<as>>]]
  BY <1>1, <1>6, <1>6a, <1>7, <1>8 DEF Assign
<1>10. [NoSettings EXCEPT !.arguments = <<as>>] = Setting(<<>>, <<as>>, <<>>)
  BY SettingIs
<1>11. QED
  BY <1>9, <1>10 DEF Accepted, k, v

(* env.NAME= takes one word, for a name that is no retired one.            *)
LEMMA AssignVariable ==
  ASSUME NEW n, EnvNameFault(<<n>>) = Ok, NEW w \in Seq(Word)
  PROVE  Assign(NoSettings, <<"env.", n>>, QuoteWord(w)) = Accepted(Setting(<<>>, <<>>, Put(<<>>, n, w)))
<1> DEFINE k == <<"env.", n>>
           v == QuoteWord(w)
<1>1. k # <<>> /\ k[1] = "env." /\ k[2] = n /\ Tail(k) = <<n>>
  OBVIOUS
<1>3. OneWord(v) = [fault |-> Ok, word |-> w]
  BY OneWordReads
<1> HIDE DEF k, v
<1>7. AssignFault(k, v) = Ok
  <2>1. EnvNameFault(Tail(k)) = Ok
    BY <1>1
  <2>2. OneWord(v).fault = Ok
    BY <1>3
  <2>3. QED
    BY <1>1, <2>1, <2>2 DEF AssignFault
<1> DEFINE env == Put(<<>>, n, w)
<1>9. Assign(NoSettings, k, v) = [fault |-> Ok, settings |-> [NoSettings EXCEPT !.env = env]]
  <2>1. NoSettings.env = <<>>
    BY DEF NoSettings
  <2>2. QED
    BY <1>1, <1>3, <1>7, <2>1 DEF Assign
<1> HIDE DEF env
<1>10. [NoSettings EXCEPT !.env = env] = Setting(<<>>, <<>>, env)
  BY SettingIs
<1>11. QED
  BY <1>9, <1>10 DEF Accepted, k, v, env

(* No variables over no variables.                                         *)
LEMMA NothingOverNothing == Atop(<<>>, <<>>) = <<>>
BY DEF Atop

(* One layer of these over another (Settings::overlay).                    *)
LEMMA OverlayIs ==
  ASSUME NEW a, NEW b, NEW c, NEW d, NEW e, NEW f
  PROVE  Overlay(Setting(a, b, c), Setting(d, e, f)) = Setting(Either(d, a), Either(e, b), Atop(f, c))
<1> DEFINE n == <<>>
           u == [executable |-> a, arguments |-> b, game |-> n, retina_mode |-> n, dpi |-> n,
                 rule |-> n, env |-> c]
           o == [executable |-> d, arguments |-> e, game |-> n, retina_mode |-> n, dpi |-> n,
                 rule |-> n, env |-> f]
           g == [field \in DOMAIN u |-> Either(o[field], u[field])]
           h == Atop(f, c)
           x == Either(d, a)
           y == Either(e, b)
<1>1. Setting(a, b, c) = u /\ Setting(d, e, f) = o
  BY DEF Setting
<1>2. Atop(o.rule, u.rule) = n /\ Atop(o.env, u.env) = h
  BY NothingOverNothing
<1>3. Either(n, n) = n
  BY DEF Either
<1>4. Overlay(u, o) = [[g EXCEPT !.rule = Atop(o.rule, u.rule)] EXCEPT !.env = Atop(o.env, u.env)]
  BY DEF Overlay
<1> HIDE DEF n, h
<1>5. g = [executable |-> x, arguments |-> y, game |-> n, retina_mode |-> n, dpi |-> n,
           rule |-> n, env |-> Either(f, c)]
  <2> HIDE DEF x, y
  <2>1. DOMAIN u = {"executable", "arguments", "game", "retina_mode", "dpi", "rule", "env"}
    OBVIOUS
  <2>2. Either(o.executable, u.executable) = x /\ Either(o.arguments, u.arguments) = y
    BY DEF x, y
  <2>3. QED
    BY <1>3, <2>1, <2>2
<1>6. QED
  <2> HIDE DEF g, x, y
  <2>1. Overlay(u, o) = [executable |-> x, arguments |-> y, game |-> n, retina_mode |-> n,
                         dpi |-> n, rule |-> n, env |-> h]
    BY <1>2, <1>4, <1>5
  <2>2. QED
    BY <1>1, <2>1 DEF Setting, n, x, y, h

(* The variables of these names.                                           *)
Vars(env, ns) == [n \in {ns[i] : i \in DOMAIN ns} |-> env[n]]

(* One name more is one variable more on top.                              *)
LEMMA VarsOfMore ==
  ASSUME NEW env, NEW S, NEW ns \in Seq(S), NEW x \in S
  PROVE  Vars(env, ns \o <<x>>) = Atop(Put(<<>>, x, env[x]), Vars(env, ns))
<1> DEFINE us == ns \o <<x>>
           N == {ns[i] : i \in DOMAIN ns}
           U == {us[i] : i \in DOMAIN us}
           k == Len(ns)
           v == Vars(env, ns)
           g == Put(<<>>, x, env[x])
<1>1. us \in Seq(S) /\ Len(us) = k + 1 /\ us[k + 1] = x /\ \A i \in 1 .. k : us[i] = ns[i]
  BY ElementsOfMore
<1>2. DOMAIN ns = 1 .. k /\ k \in Nat
  OBVIOUS
<1> HIDE DEF us, k
<1>3. DOMAIN us = 1 .. k + 1
  BY <1>1, <1>2
<1>4. U = N \cup {x}
  <2>1. \A y \in U : y \in N \cup {x}
    BY <1>1, <1>2, <1>3
  <2>2. \A y \in N : y \in U
    <3>1. \A i \in 1 .. k : i \in 1 .. k + 1
      BY <1>2
    <3>2. QED
      BY <1>1, <1>2, <1>3, <3>1
  <2>3. k + 1 \in 1 .. k + 1
    BY <1>2
  <2>4. x \in U
    BY <1>1, <1>3, <2>3
  <2>5. QED
    BY <2>1, <2>2, <2>4
<1>5. Vars(env, us) = [n \in U |-> env[n]] /\ v = [n \in N |-> env[n]]
  BY DEF Vars
<1>6. DOMAIN g = {x} /\ g[x] = env[x]
  BY DEF Put
<1> HIDE DEF U, N, g, v
<1>7. Atop(g, v) = [n \in N \cup {x} |-> env[n]]
  BY <1>5, <1>6 DEF Atop
<1>8. QED
  BY <1>4, <1>5, <1>7 DEF us, g, v

(* Variables over whatever is under them, one name at a time.              *)
VariablesOf(env, ns) == [i \in DOMAIN ns |-> Setting(<<>>, <<>>, Put(<<>>, ns[i], env[ns[i]]))]

(* One name more is one layer more,                                        *)
LEMMA VariablesOfMore ==
  ASSUME NEW env, NEW S, NEW ns \in Seq(S), NEW x \in S
  PROVE  VariablesOf(env, ns \o <<x>>)
           = VariablesOf(env, ns) \o <<Setting(<<>>, <<>>, Put(<<>>, x, env[x]))>>
<1> DEFINE g(n) == Setting(<<>>, <<>>, Put(<<>>, n, env[n]))
           f == [n \in S |-> g(n)]
           T == {g(n) : n \in S}
           us == ns \o <<x>>
<1>1. f \in [S -> T] /\ f[x] = g(x)
  OBVIOUS
<1>2. us \in Seq(S)
  BY ElementsOfMore
<1>3. \A s \in Seq(S) : VariablesOf(env, s) = Mapped(f, s)
  <2>1. \A s \in Seq(S) : \A i \in DOMAIN s : s[i] \in S
    OBVIOUS
  <2>2. QED
    BY <2>1 DEF VariablesOf, Mapped
<1> HIDE DEF f, T, g
<1>4. Mapped(f, ns \o <<x>>) = Mapped(f, ns) \o <<f[x]>>
  BY <1>1, MapOfMore
<1> HIDE DEF us
<1>5. VariablesOf(env, us) = Mapped(f, us) /\ VariablesOf(env, ns) = Mapped(f, ns)
  BY <1>2, <1>3
<1>6. QED
  BY <1>1, <1>4, <1>5 DEF us, g

(* no name none,                                                           *)
LEMMA VariablesOfNothing ==
  ASSUME NEW env
  PROVE  VariablesOf(env, <<>>) = <<>>
BY DEF VariablesOf

(* and each is one of these.                                               *)
LEMMA VariablesType ==
  ASSUME NEW env, NEW S, NEW ns \in Seq(S)
  PROVE  VariablesOf(env, ns) \in Seq({Setting(<<>>, <<>>, Put(<<>>, n, env[n])) : n \in S})
<1> DEFINE g(n) == Setting(<<>>, <<>>, Put(<<>>, n, env[n]))
           f == [n \in S |-> g(n)]
           T == {g(n) : n \in S}
<1>1. f \in [S -> T]
  OBVIOUS
<1>2. \A i \in DOMAIN ns : ns[i] \in S
  OBVIOUS
<1>3. VariablesOf(env, ns) = Mapped(f, ns)
  BY <1>2 DEF VariablesOf, Mapped
<1> HIDE DEF f, T
<1>4. Mapped(f, ns) \in Seq(T)
  BY <1>1, MapType
<1>5. QED
  BY <1>3, <1>4 DEF T

(* Layer by layer the variables come together.                             *)
LEMMA VariablesFold ==
  ASSUME NEW env, NEW S, NEW x, NEW y
  PROVE  \A ns \in Seq(S) : Overlaying!Fold(Setting(x, y, <<>>), VariablesOf(env, ns))
                              = Setting(x, y, Vars(env, ns))
<1> DEFINE first == Setting(x, y, <<>>)
           g(n) == Setting(<<>>, <<>>, Put(<<>>, n, env[n]))
           T == {g(n) : n \in S}
           P == {ns \in Seq(S) : Overlaying!Fold(first, VariablesOf(env, ns)) = Setting(x, y, Vars(env, ns))}
<1>1. <<>> \in P
  <2>1. VariablesOf(env, <<>>) = <<>>
    BY VariablesOfNothing
  <2>2. Vars(env, <<>>) = <<>>
    BY DEF Vars
  <2>3. Overlaying!Fold(first, <<>>) = first
    BY Overlaying!FoldOfNothing
  <2>4. QED
    BY <2>1, <2>2, <2>3, Joining!EmptyInSeq
<1>2. ASSUME NEW ns \in Seq(S), NEW n \in S, ns \in P
      PROVE  ns \o <<n>> \in P
  <2> DEFINE us == ns \o <<n>>
             vs == VariablesOf(env, ns)
             v == g(n)
  <2>1. us \in Seq(S)
    BY ElementsOfMore
  <2>2. VariablesOf(env, us) = vs \o <<v>>
    BY VariablesOfMore
  <2>3. Vars(env, us) = Atop(Put(<<>>, n, env[n]), Vars(env, ns))
    BY VarsOfMore
  <2>4. vs \in Seq(T) /\ v \in T
    BY VariablesType
  <2>5. Overlaying!Fold(first, vs) = Setting(x, y, Vars(env, ns))
    BY <1>2
  <2>6. Overlay(Setting(x, y, Vars(env, ns)), v)
          = Setting(x, y, Atop(Put(<<>>, n, env[n]), Vars(env, ns)))
    <3>1. Either(<<>>, x) = x /\ Either(<<>>, y) = y
      BY DEF Either
    <3>2. QED
      BY <3>1, OverlayIs
  <2> HIDE DEF us, vs, v, T, first
  <2>7. Overlaying!Fold(first, vs \o <<v>>) = Overlay(Overlaying!Fold(first, vs), v)
    BY <2>4, Overlaying!FoldOfOneMore
  <2>8. Overlaying!Fold(first, VariablesOf(env, us)) = Setting(x, y, Vars(env, us))
    BY <2>2, <2>3, <2>5, <2>6, <2>7
  <2>9. QED
    BY <2>1, <2>8 DEF us
<1> HIDE DEF P
<1>3. \A ns \in Seq(S) : ns \in P
  BY <1>1, <1>2, Joining!SeqInduction
<1>4. QED
  BY <1>3 DEF P

(* Batches that are read as these settings.                                *)
ReadAs(bs, ss) ==
  Len(bs) = Len(ss) /\ \A i \in 1 .. Len(bs) : BatchSettings(bs[i]) = Accepted(ss[i])

(* The batches before and those behind.                                    *)
LEMMA ReadAsTwo ==
  ASSUME NEW B, NEW C, NEW b1 \in Seq(B), NEW b2 \in Seq(B), NEW s1 \in Seq(C), NEW s2 \in Seq(C),
         ReadAs(b1, s1), ReadAs(b2, s2)
  PROVE  ReadAs(b1 \o b2, s1 \o s2)
<1> DEFINE n == Len(b1)
           m == Len(b2)
           b == b1 \o b2
           s == s1 \o s2
<1>1. /\ Len(b) = n + m /\ n \in Nat /\ m \in Nat
      /\ \A i \in 1 .. n : b[i] = b1[i]
      /\ \A i \in 1 .. m : b[n + i] = b2[i]
  BY TwoOf
<1>2. Len(s1) = n /\ Len(s2) = m
  BY DEF ReadAs
<1>3. /\ Len(s) = n + m
      /\ \A i \in 1 .. n : s[i] = s1[i]
      /\ \A i \in 1 .. m : s[n + i] = s2[i]
  <2>1. /\ Len(s) = Len(s1) + Len(s2)
        /\ \A i \in 1 .. Len(s1) : s[i] = s1[i]
        /\ \A i \in 1 .. Len(s2) : s[Len(s1) + i] = s2[i]
    BY TwoOf
  <2> HIDE DEF s, n, m
  <2>2. QED
    BY <1>2, <2>1
<1>4. /\ \A i \in 1 .. n : BatchSettings(b1[i]) = Accepted(s1[i])
      /\ \A i \in 1 .. m : BatchSettings(b2[i]) = Accepted(s2[i])
  BY DEF ReadAs
<1> HIDE DEF b, s, n, m
<1>5. ASSUME NEW i \in 1 .. n + m
      PROVE  BatchSettings(b[i]) = Accepted(s[i])
  <2>1. CASE i <= n
    <3>1. i \in 1 .. n
      BY <1>1, <2>1
    <3>2. QED
      BY <1>1, <1>3, <1>4, <3>1
  <2>2. CASE i > n
    <3>1. PICK j \in 1 .. m : i = n + j
      <4>1. i - n \in 1 .. m /\ i = n + (i - n)
        BY <1>1, <2>2
      <4>2. QED
        BY <4>1
    <3>2. b[i] = b2[j] /\ s[i] = s2[j]
      BY <1>1, <1>3, <3>1
    <3>3. QED
      BY <1>4, <3>2
  <2>3. QED
    BY <1>1, <2>1, <2>2
<1>6. ReadAs(b, s)
  BY <1>1, <1>3, <1>5 DEF ReadAs
<1>7. QED
  BY <1>6 DEF b, s

(* And what they are together.                                             *)
LEMMA IntoArgsIs ==
  ASSUME NEW B, NEW C, NEW bs \in Seq(B), NEW ss \in Seq(C), ReadAs(bs, ss),
         NEW x, NEW y, NEW env, Overlaying!Fold(NoSettings, ss) = Setting(x, y, env)
  PROVE  IntoArgs(bs).settings = Setting(x, y, env) /\ IntoArgs(bs).fault = Ok
<1> DEFINE read == [i \in DOMAIN bs |-> BatchSettings(bs[i])]
           n == Len(bs)
           sts == [i \in DOMAIN read |-> read[i].settings]
           o == Setting(x, y, env)
<1>1. n \in Nat /\ DOMAIN bs = 1 .. n /\ Len(ss) = n /\ ss = [i \in 1 .. n |-> ss[i]]
  BY DEF ReadAs
<1>2. \A i \in 1 .. n : BatchSettings(bs[i]) = Accepted(ss[i])
  BY DEF ReadAs
<1>3. \A s : Accepted(s).settings = s /\ Accepted(s).fault = Ok
  BY DEF Accepted
<1>4. DOMAIN read = 1 .. n /\ \A i \in 1 .. n : read[i].settings = ss[i] /\ read[i].fault = Ok
  BY <1>1, <1>2, <1>3
<1>5. IntoArgs(bs) = Overrides(read)
  BY DEF IntoArgs
<1> HIDE DEF read, n
<1>6. sts = ss
  BY <1>1, <1>4
<1>7. o.game = <<>>
  BY DEF Setting
<1> HIDE DEF o
<1>8. Overlaying!Fold(NoSettings, sts) = o
  BY <1>6 DEF o
<1> HIDE DEF sts
<1>9. Overrides(read) = [settings |-> o, fault |-> Ok]
  <2>1. ~ \E i \in DOMAIN read : read[i].fault # Ok
    BY <1>4
  <2>2. QED
    BY <1>7, <1>8, <2>1 DEF Overrides, sts
<1>10. QED
  BY <1>5, <1>9 DEF o

(* A batch of one assignment.                                              *)
LEMMA OneBatch ==
  ASSUME NEW b, NEW s, BatchSettings(b) = Accepted(s)
  PROVE  ReadAs(<<b>>, <<s>>)
BY DEF ReadAs

(* A batch of one assignment reads as what the assignment sets.            *)
LEMMA BatchIs ==
  ASSUME NEW k \in Seq(Word), NEW v \in Seq(Word), Solid(k), Solid(v),
         Through(k), Through(v), Lacks(k, Equals), NEW s, Assign(NoSettings, k, v) = Accepted(s)
  PROVE  BatchSettings(Assigned(k, v)) = Accepted(s) /\ Assigned(k, v) \in Texts
<1>1. BatchSettings(Assigned(k, v)) = Assign(NoSettings, k, v)
  BY OneAssignment
<1>2. Assigned(k, v) \in Seq(Word)
  BY FirstEquals DEF Assigned
<1>3. QED
  BY <1>1, <1>2 DEF Texts

(* What is typed: an executable, words, and variables with names that are  *)
(* not retired and have no meaning of their own on a command line.         *)
IsVariable(n) ==
  n \in Word /\ n \notin {Space, Single, Double, Backslash, ";", "="} /\ EnvNameFault(<<n>>) = Ok

IsTyped(t) ==
  /\ t.executable \in Texts /\ t.executable # <<>>
  /\ t.arguments \in Seq(Texts)
  /\ IsFiniteSet(DOMAIN t.env) /\ t.env = [n \in DOMAIN t.env |-> t.env[n]]
  /\ \A n \in DOMAIN t.env : IsVariable(n) /\ t.env[n] \in Texts

(* The batch of the executable (override_args),                            *)
LEMMA ExecutableBatch ==
  ASSUME NEW e \in Texts, e # <<>>
  PROVE  LET b == <<"executable", "=">> \o QuoteWord(e)
         IN BatchSettings(b) = Accepted(Setting(<<e>>, <<>>, <<>>)) /\ b \in Texts
<1> DEFINE k == <<"executable">>
           v == QuoteWord(e)
           b == <<"executable", "=">> \o v
<1>1. "executable" \in Word /\ "executable" \notin {Space, Single, Double, Backslash, ";", "="}
  BY CommandLineAssumption DEF Space, Single, Double, Backslash
<1>2. k \in Seq(Word) /\ Solid(k) /\ Through(k) /\ Lacks(k, Equals)
  BY <1>1, KeyIs
<1>3. e \in Seq(Word)
  BY DEF Texts
<1>4. v \in Seq(Word) /\ Solid(v) /\ Through(v)
  BY <1>3, QuoteIs, QuotedSolid, QuotedThrough, MarksWords
<1>5. Assign(NoSettings, k, v) = Accepted(Setting(<<e>>, <<>>, <<>>))
  BY <1>3, AssignExecutable
<1>6. b = Assigned(k, v)
  <2>1. <<"executable", "=">> = <<"executable">> \o <<"=">>
    OBVIOUS
  <2>2. QED
    BY <2>1 DEF Assigned, Equals
<1> HIDE DEF k, v, b
<1>7. BatchSettings(Assigned(k, v)) = Accepted(Setting(<<e>>, <<>>, <<>>)) /\ Assigned(k, v) \in Texts
  BY <1>2, <1>4, <1>5, BatchIs
<1>8. QED
  BY <1>6, <1>7 DEF b, v

(* and that of the arguments.                                              *)
LEMMA ArgumentsBatch ==
  ASSUME NEW as \in Seq(Texts), as # <<>>
  PROVE  LET b == <<"arguments", "=">> \o OnOneLine(as)
         IN BatchSettings(b) = Accepted(Setting(<<>>, <<as>>, <<>>)) /\ b \in Texts
<1> DEFINE k == <<"arguments">>
           v == OnOneLine(as)
           b == <<"arguments", "=">> \o v
<1>1. "arguments" \in Word /\ "arguments" \notin {Space, Single, Double, Backslash, ";", "="}
  BY CommandLineAssumption DEF Space, Single, Double, Backslash
<1>2. k \in Seq(Word) /\ Solid(k) /\ Through(k) /\ Lacks(k, Equals)
  BY <1>1, KeyIs
<1>4. v \in Seq(Word) /\ Solid(v) /\ Through(v)
  <2>1. v \in Texts
    BY LineReads, MarksWords
  <2>2. QED
    BY <2>1, LineWhole, MarksWords DEF Texts
<1>5. Assign(NoSettings, k, v) = Accepted(Setting(<<>>, <<as>>, <<>>))
  BY AssignArguments
<1>6. b = Assigned(k, v)
  <2>1. <<"arguments", "=">> = <<"arguments">> \o <<"=">>
    OBVIOUS
  <2>2. QED
    BY <2>1 DEF Assigned, Equals
<1> HIDE DEF k, v, b
<1>7. BatchSettings(Assigned(k, v)) = Accepted(Setting(<<>>, <<as>>, <<>>)) /\ Assigned(k, v) \in Texts
  BY <1>2, <1>4, <1>5, BatchIs
<1>8. QED
  BY <1>6, <1>7 DEF b, v

(* A sequence of one.                                                      *)
LEMMA OneIsSeq ==
  ASSUME NEW S, NEW z \in S
  PROVE  <<z>> \in Seq(S)
OBVIOUS

(* The batch of a variable,                                                *)
LEMMA VariableBatch ==
  ASSUME NEW n, IsVariable(n), NEW w \in Texts
  PROVE  LET b == <<"env.", n, "=">> \o QuoteWord(w)
         IN BatchSettings(b) = Accepted(Setting(<<>>, <<>>, Put(<<>>, n, w))) /\ b \in Texts
<1> DEFINE p == <<"env.">>
           q == <<n>>
           k == <<"env.", n>>
           v == QuoteWord(w)
           b == <<"env.", n, "=">> \o v
<1>1. "env." \in Word /\ "env." \notin {Space, Single, Double, Backslash, ";", "="}
  BY CommandLineAssumption DEF Space, Single, Double, Backslash
<1>2. p \in Seq(Word) /\ Solid(p) /\ Through(p) /\ Lacks(p, Equals)
  BY <1>1, KeyIs
<1>3. n \in Word /\ n \notin {Space, Single, Double, Backslash, ";", "="}
  BY DEF IsVariable
<1>4. q \in Seq(Word) /\ Solid(q) /\ Through(q) /\ Lacks(q, Equals)
  BY <1>3, KeyIs
<1>5. k = p \o q
  OBVIOUS
<1>6. w \in Seq(Word)
  BY DEF Texts
<1>7. v \in Seq(Word) /\ Solid(v) /\ Through(v)
  BY <1>6, QuoteIs, QuotedSolid, QuotedThrough, MarksWords
<1>8. Assign(NoSettings, k, v) = Accepted(Setting(<<>>, <<>>, Put(<<>>, n, w)))
  BY <1>6, AssignVariable DEF IsVariable
<1>9. b = Assigned(k, v)
  <2>1. <<"env.", n, "=">> = <<"env.", n>> \o <<"=">>
    OBVIOUS
  <2>2. QED
    BY <2>1 DEF Assigned, Equals
<1> HIDE DEF p, q, k, v, b
<1>10. k \in Seq(Word) /\ Solid(k) /\ Through(k) /\ Lacks(k, Equals)
  <2> DEFINE r == p \o q
  <2>1. r \in Seq(Word)
    BY <1>2, <1>4
  <2>2. Solid(r)
    BY <1>2, <1>4, SolidTwo DEF Solid
  <2>3. Through(r)
    BY <1>2, <1>4, TwoThrough
  <2>4. Lacks(r, Equals)
    BY <1>2, <1>4, LacksOfTwo
  <2> HIDE DEF r
  <2>5. QED
    BY <1>5, <2>1, <2>2, <2>3, <2>4 DEF r
<1>11. BatchSettings(Assigned(k, v)) = Accepted(Setting(<<>>, <<>>, Put(<<>>, n, w)))
       /\ Assigned(k, v) \in Texts
  BY <1>7, <1>8, <1>10, BatchIs
<1>12. QED
  BY <1>9, <1>11 DEF b, v

(* The batches of the variables, in whatever order.                        *)
VariableBatches(env, ns) == [i \in DOMAIN ns |-> <<"env.", ns[i], "=">> \o QuoteWord(env[ns[i]])]

(* and those of all of them, in any order.                                 *)
LEMMA VariableBatchesRead ==
  ASSUME NEW env, \A n \in DOMAIN env : IsVariable(n) /\ env[n] \in Texts,
         NEW ns \in Seq(DOMAIN env)
  PROVE  VariableBatches(env, ns) \in Seq(Texts) /\ ReadAs(VariableBatches(env, ns), VariablesOf(env, ns))
<1> DEFINE k == Len(ns)
           b(n) == <<"env.", n, "=">> \o QuoteWord(env[n])
           s(n) == Setting(<<>>, <<>>, Put(<<>>, n, env[n]))
           bs == [i \in 1 .. k |-> b(ns[i])]
           ss == [i \in 1 .. k |-> s(ns[i])]
           T == {s(n) : n \in DOMAIN env}
<1>1. k \in Nat /\ DOMAIN ns = 1 .. k /\ \A i \in 1 .. k : ns[i] \in DOMAIN env
  OBVIOUS
<1>2. \A n \in DOMAIN env : BatchSettings(b(n)) = Accepted(s(n)) /\ b(n) \in Texts
  BY VariableBatch
<1>3. VariableBatches(env, ns) = bs /\ VariablesOf(env, ns) = ss
  BY <1>1 DEF VariableBatches, VariablesOf
<1> HIDE DEF b, s
<1>4. bs \in [1 .. k -> Texts] /\ ss \in [1 .. k -> T]
  BY <1>1, <1>2
<1>5. \A i \in 1 .. k : BatchSettings(bs[i]) = Accepted(ss[i])
  BY <1>1, <1>2
<1> HIDE DEF bs, ss, k, T
<1>6. bs \in Seq(Texts) /\ Len(bs) = k /\ Len(ss) = k
  BY <1>1, <1>4
<1>7. QED
  BY <1>3, <1>5, <1>6 DEF ReadAs

(* The command line says what was typed, and nothing else.                 *)
THEOREM TypedReadsBack ==
  ASSUME NEW t, IsTyped(t)
  PROVE  /\ IntoArgs(OverrideArgs(t)).fault = Ok
         /\ IntoArgs(OverrideArgs(t)).settings =
              Setting(<<t.executable>>, IF t.arguments = <<>> THEN <<>> ELSE <<t.arguments>>, t.env)
<1> DEFINE e == t.executable
           as == t.arguments
           env == t.env
           names == SetToSeq(DOMAIN env)
           a == <<"executable", "=">> \o QuoteWord(e)
           g == <<"arguments", "=">> \o OnOneLine(as)
           mid == IF as = <<>> THEN <<>> ELSE <<g>>
           vb == VariableBatches(env, names)
           x == <<e>>
           y == IF as = <<>> THEN <<>> ELSE <<as>>
           sa == Setting(x, <<>>, <<>>)
           sg == Setting(<<>>, <<as>>, <<>>)
           sm == IF as = <<>> THEN <<>> ELSE <<sg>>
           sv == VariablesOf(env, names)
<1>1. /\ e \in Texts /\ e # <<>> /\ as \in Seq(Texts)
      /\ IsFiniteSet(DOMAIN env) /\ env = [n \in DOMAIN env |-> env[n]]
      /\ \A n \in DOMAIN env : IsVariable(n) /\ env[n] \in Texts
  BY DEF IsTyped
<1>2. names \in Seq(DOMAIN env) /\ {names[i] : i \in DOMAIN names} = DOMAIN env
  BY <1>1, SetToSeqIs
<1>3. OverrideArgs(t) = (<<a>> \o mid) \o vb
  <2>1. Quoted(as) = <<>> <=> as = <<>>
    BY <1>1 DEF Quoted
  <2>2. [i \in DOMAIN as |-> QuoteWord(as[i])] = Quoted(as)
    BY DEF Quoted
  <2> HIDE DEF vb, names
  <2>3. QED
    BY <2>1, <2>2 DEF OverrideArgs, OnOneLine, VariableBatches, vb, names
<1>4. BatchSettings(a) = Accepted(sa) /\ a \in Texts
  BY <1>1, ExecutableBatch
<1>5. as # <<>> => BatchSettings(g) = Accepted(sg) /\ g \in Texts
  BY <1>1, ArgumentsBatch
<1>6. vb \in Seq(Texts) /\ ReadAs(vb, sv)
  BY <1>1, <1>2, VariableBatchesRead
<1>7. Vars(env, names) = env
  BY <1>1, <1>2 DEF Vars
<1> DEFINE V == {Setting(<<>>, <<>>, Put(<<>>, n, env[n])) : n \in DOMAIN env}
           C == V \cup {sa, sg}
<1>8. sv \in Seq(C)
  <2>1. sv \in Seq(V) /\ V \subseteq C
    BY <1>2, VariablesType
  <2> HIDE DEF V, C, sv
  <2>2. QED
    BY <2>1
<1>9. sa \in C /\ sg \in C
  OBVIOUS
<1>10. Overlaying!Fold(Setting(x, y, <<>>), sv) = Setting(x, y, env)
  BY <1>2, <1>7, VariablesFold
<1>11. sa = Overlay(NoSettings, sa) /\ Setting(x, <<as>>, <<>>) = Overlay(sa, sg)
  <2>1. NoSettings = Setting(<<>>, <<>>, <<>>)
    BY DEF NoSettings, Setting
  <2>2. x # <<>> /\ <<as>> # <<>>
    OBVIOUS
  <2> HIDE DEF x, as
  <2>3. Either(x, <<>>) = x /\ Either(<<>>, <<>>) = <<>> /\ Either(<<>>, x) = x /\ Either(<<as>>, <<>>) = <<as>>
    BY <2>2 DEF Either
  <2>4. Overlay(Setting(<<>>, <<>>, <<>>), Setting(x, <<>>, <<>>))
          = Setting(Either(x, <<>>), Either(<<>>, <<>>), Atop(<<>>, <<>>))
    BY OverlayIs
  <2>5. Overlay(Setting(x, <<>>, <<>>), Setting(<<>>, <<as>>, <<>>))
          = Setting(Either(<<>>, x), Either(<<as>>, <<>>), Atop(<<>>, <<>>))
    BY OverlayIs
  <2>6. QED
    BY <2>1, <2>3, <2>4, <2>5, NothingOverNothing
<1> HIDE DEF e, as, env, names, a, g, vb, x, sa, sg, sv, C, V
<1>12. <<a>> \in Seq(Texts) /\ mid \in Seq(Texts) /\ <<sa>> \in Seq(C) /\ sm \in Seq(C)
  <2>1. <<a>> \in Seq(Texts) /\ <<sa>> \in Seq(C)
    BY <1>4, <1>9, OneIsSeq
  <2>2. as # <<>> => <<g>> \in Seq(Texts)
    BY <1>5, OneIsSeq
  <2>3. <<sg>> \in Seq(C)
    BY <1>9, OneIsSeq
  <2>4. <<>> \in Seq(Texts) /\ <<>> \in Seq(C)
    BY Joining!EmptyInSeq
  <2>5. QED
    BY <2>1, <2>2, <2>3, <2>4
<1>13. ReadAs(<<a>>, <<sa>>) /\ ReadAs(mid, sm)
  <2>1. ReadAs(<<>>, <<>>)
    BY DEF ReadAs
  <2>2. QED
    BY <1>4, <1>5, <2>1, OneBatch
<1> DEFINE ba == <<a>>
           ca == <<sa>>
           bm == ba \o mid
           cm == ca \o sm
<1>14. Overlaying!Fold(NoSettings, cm) = Setting(x, y, <<>>)
  <2> DEFINE n == <<>>
             z == NoSettings
  <2>1. n \in Seq(C) /\ n \o <<sa>> = <<sa>> /\ <<sa>> \in Seq(C) /\ n = <<>>
    BY <1>9, <1>12
  <2>2. Overlaying!Fold(z, n) = z
    BY Overlaying!FoldOfNothing
  <2>2a. n \in Seq(C)
    BY <2>1
  <2> HIDE DEF n, z
  <2>3. Overlaying!Fold(z, n \o <<sa>>) = Overlay(Overlaying!Fold(z, n), sa)
    BY ONLY <1>9, <2>2a, Overlaying!FoldOfOneMore
  <2>4. Overlaying!Fold(z, ca) = sa
    BY <1>11, <2>1, <2>2, <2>3 DEF z
  <2>5. CASE as = <<>>
    <3>1. ca \in Seq(C) /\ cm = ca \o <<>> /\ ca \o <<>> = ca
      BY <1>12, <2>5
    <3>2. QED
      BY <2>4, <2>5, <3>1 DEF z, sa
  <2>6. CASE as # <<>>
    <3>1. ca \in Seq(C) /\ cm = ca \o <<sg>>
      BY <1>12, <2>6
    <3> HIDE DEF ca, cm
    <3>2. Overlaying!Fold(z, ca \o <<sg>>) = Overlay(Overlaying!Fold(z, ca), sg)
      BY <1>9, <3>1, Overlaying!FoldOfOneMore
    <3>3. QED
      BY <1>11, <2>4, <2>6, <3>1, <3>2 DEF z
  <2>7. QED
    BY <2>5, <2>6
<1> HIDE DEF y, mid, sm
<1>15. bm \in Seq(Texts) /\ cm \in Seq(C)
  BY <1>12, TwoOf
<1>16. ReadAs(bm, cm)
  <2> HIDE DEF ba, ca
  <2>1. ba \in Seq(Texts) /\ ca \in Seq(C) /\ ReadAs(ba, ca)
    BY <1>12, <1>13 DEF ba, ca
  <2>2. QED
    BY <1>12, <1>13, <2>1, ReadAsTwo
<1> HIDE DEF bm, cm
<1>17. ReadAs(bm \o vb, cm \o sv)
  BY <1>6, <1>8, <1>15, <1>16, ReadAsTwo
<1>18. Overlaying!Fold(NoSettings, cm \o sv) = Setting(x, y, env)
  <2>1. Overlaying!Fold(NoSettings, cm \o sv) = Overlaying!Fold(Overlaying!Fold(NoSettings, cm), sv)
    BY <1>8, <1>15, Overlaying!FoldOfMore
  <2>2. QED
    BY <1>10, <1>14, <2>1
<1>19. bm \o vb \in Seq(Texts) /\ cm \o sv \in Seq(C)
  BY <1>6, <1>8, <1>15, TwoOf
<1>20. IntoArgs(bm \o vb).settings = Setting(x, y, env) /\ IntoArgs(bm \o vb).fault = Ok
  <2> DEFINE bb == bm \o vb
             cc == cm \o sv
  <2>1. bb \in Seq(Texts) /\ cc \in Seq(C) /\ ReadAs(bb, cc)
        /\ Overlaying!Fold(NoSettings, cc) = Setting(x, y, env)
    BY <1>17, <1>18, <1>19
  <2> HIDE DEF bb, cc
  <2>2. IntoArgs(bb).settings = Setting(x, y, env)
    BY ONLY <2>1, IntoArgsIs
  <2>3. IntoArgs(bb).fault = Ok
    BY ONLY <2>1, IntoArgsIs
  <2>4. QED
    BY <2>2, <2>3 DEF bb
<1>21. QED
  BY <1>3, <1>20 DEF bm, ba, x, y, e, as, env

(* What is trimmed is a text.                                              *)
LEMMA TrimType ==
  ASSUME NEW t \in Seq(Word)
  PROVE  Trim(t) \in Seq(Word)
<1> DEFINE n == Len(t)
           kept == {i \in DOMAIN t : t[i] # Space}
           first == CHOOSE i \in kept : \A j \in kept : i <= j
           last == CHOOSE i \in kept : \A j \in kept : j <= i
<1>1. n \in Nat /\ DOMAIN t = 1 .. n /\ kept \subseteq 1 .. n
  OBVIOUS
<1>2. Trim(t) = IF kept = {} THEN <<>> ELSE SubSeq(t, first, last)
  BY DEF Trim
<1> HIDE DEF kept, n
<1>3. ASSUME kept # {}
      PROVE  first \in 1 .. n /\ last \in first .. n
  <2>1. kept \subseteq Nat
    BY <1>1
  <2>2. Min(kept) \in kept /\ \A j \in kept : Min(kept) <= j
    BY <1>3, <2>1, SmallestIn
  <2>3. first \in kept /\ \A j \in kept : first <= j
    BY <2>2
  <2>4. LastOf(kept) \in kept /\ \A j \in kept : j <= LastOf(kept)
    BY <1>1, <1>3, LargestIn
  <2>5. last \in kept /\ \A j \in kept : j <= last
    BY <2>4
  <2> HIDE DEF first, last
  <2>6. first \in 1 .. n /\ last \in 1 .. n /\ first <= last
    BY <1>1, <2>3, <2>5
  <2>7. QED
    BY <1>1, <2>6
<1> HIDE DEF first, last
<1>4. CASE kept = {}
  BY <1>2, <1>4, Joining!EmptyInSeq
<1>5. CASE kept # {}
  <2>1. first \in 1 .. Len(t) + 1 /\ last \in first - 1 .. Len(t)
    BY <1>1, <1>3, <1>5 DEF n
  <2>2. SubSeq(t, first, last) \in Seq(Word)
    BY <2>1, PartIs
  <2>3. QED
    BY <1>2, <1>5, <2>2
<1>6. QED
  BY <1>4, <1>5

(* The reader of words has words.                                          *)
Readers == [words : Seq(Texts), word : Seq(Texts), quote : Seq(Word), escaped : BOOLEAN]

(* A reader with two of its fields set.                                    *)
LEMMA WithWords ==
  ASSUME NEW r, NEW x, NEW y, NEW z, r = Reader(r.words, r.word, r.quote, r.escaped),
         z = [r EXCEPT !.words = x, !.word = y]
  PROVE  z = Reader(x, y, r.quote, r.escaped)
BY DEF Reader

(* Its word and its quote,                                                 *)
LEMMA WithQuote ==
  ASSUME NEW r, NEW x, NEW y, NEW z, r = Reader(r.words, r.word, r.quote, r.escaped),
         z = [r EXCEPT !.word = x, !.quote = y]
  PROVE  z = Reader(r.words, x, y, r.escaped)
BY DEF Reader

(* its word and whether the next character is escaped.                     *)
LEMMA WithEscaped ==
  ASSUME NEW r, NEW x, NEW y, NEW z, r = Reader(r.words, r.word, r.quote, r.escaped),
         z = [r EXCEPT !.word = x, !.escaped = y]
  PROVE  z = Reader(r.words, x, r.quote, y)
BY DEF Reader

(* A round of words::split leaves it a reader.                             *)
LEMMA ReadsType ==
  ASSUME NEW acc \in Readers, NEW c \in Pairs
  PROVE  ReadCharacter(acc, c) \in Readers
<1> DEFINE word == IF acc.word = <<>> THEN <<>> ELSE acc.word[1]
<1>1. /\ acc.words \in Seq(Texts) /\ acc.word \in Seq(Texts) /\ acc.quote \in Seq(Word)
      /\ acc.escaped \in BOOLEAN /\ c.ch \in Word
      /\ acc = [words |-> acc.words, word |-> acc.word, quote |-> acc.quote, escaped |-> acc.escaped]
  BY DEF Readers, Pairs
<1>2. word \in Texts
  <2>1. <<>> \in Texts
    BY Joining!EmptyInSeq DEF Texts
  <2>2. acc.word # <<>> => acc.word[1] \in Texts
    <3> HIDE DEF word
    <3>1. QED
      BY ONLY <1>1
  <2>3. QED
    BY <2>1, <2>2
<1> HIDE DEF word
<1>3. Append(word, c.ch) \in Texts
  BY <1>1, <1>2 DEF Texts
<1>4. <<word>> \in Seq(Texts) /\ <<Append(word, c.ch)>> \in Seq(Texts) /\ <<>> \in Seq(Texts)
  BY ONLY <1>2, <1>3, OneIsSeq, Joining!EmptyInSeq
<1>5. <<c.ch>> \in Seq(Word) /\ <<>> \in Seq(Word)
  BY ONLY <1>1, OneIsSeq, Joining!EmptyInSeq
<1>6. acc.words \o acc.word \in Seq(Texts)
  BY ONLY <1>1, TwoOf
<1>7. SUFFICES ASSUME NEW z, z = ReadCharacter(acc, c)
               PROVE  z \in Readers
  OBVIOUS
<1>8. acc = Reader(acc.words, acc.word, acc.quote, acc.escaped)
  BY ONLY <1>1 DEF Reader
<1>9. \A a, b \in Seq(Texts), d \in Seq(Word), f \in BOOLEAN : Reader(a, b, d, f) \in Readers
  BY DEF Reader, Readers
<1> DEFINE ap == Append(word, c.ch)
           ws == acc.words \o acc.word
           o == <<word>>
           p == <<ap>>
           q == <<c.ch>>
           e == <<>>
<1>10. /\ o \in Seq(Texts) /\ p \in Seq(Texts) /\ ws \in Seq(Texts) /\ e \in Seq(Texts)
       /\ q \in Seq(Word) /\ e \in Seq(Word)
  BY ONLY <1>4, <1>5, <1>6 DEF ap, ws, o, p, q, e
<1>11. \/ z = [acc EXCEPT !.words = ws, !.word = e]
       \/ z = [acc EXCEPT !.word = o, !.quote = e]
       \/ z = [acc EXCEPT !.word = o, !.quote = q]
       \/ z = [acc EXCEPT !.word = o, !.escaped = TRUE]
       \/ z = [acc EXCEPT !.word = p, !.escaped = FALSE]
  BY <1>7 DEF ReadCharacter, word
<1> HIDE DEF ws, o, p, q, e
<1>12. CASE z = [acc EXCEPT !.words = ws, !.word = e]
  <2>1. z = Reader(ws, e, acc.quote, acc.escaped)
    BY ONLY <1>8, <1>12, WithWords
  <2>2. QED
    BY ONLY <1>1, <1>9, <1>10, <2>1
<1>13. CASE z = [acc EXCEPT !.word = o, !.quote = e]
  <2>1. z = Reader(acc.words, o, e, acc.escaped)
    BY ONLY <1>8, <1>13, WithQuote
  <2>2. QED
    BY ONLY <1>1, <1>9, <1>10, <2>1
<1>14. CASE z = [acc EXCEPT !.word = o, !.quote = q]
  <2>1. z = Reader(acc.words, o, q, acc.escaped)
    BY ONLY <1>8, <1>14, WithQuote
  <2>2. QED
    BY ONLY <1>1, <1>9, <1>10, <2>1
<1>15. CASE z = [acc EXCEPT !.word = o, !.escaped = TRUE]
  <2>1. z = Reader(acc.words, o, acc.quote, TRUE)
    BY ONLY <1>8, <1>15, WithEscaped
  <2>2. QED
    BY ONLY <1>1, <1>9, <1>10, <2>1
<1>16. CASE z = [acc EXCEPT !.word = p, !.escaped = FALSE]
  <2>1. z = Reader(acc.words, p, acc.quote, FALSE)
    BY ONLY <1>8, <1>16, WithEscaped
  <2>2. QED
    BY ONLY <1>1, <1>9, <1>10, <2>1
<1>17. QED
  BY <1>11, <1>12, <1>13, <1>14, <1>15, <1>16

(* The words of a text are texts (words::split).                           *)
LEMMA WordsType ==
  ASSUME NEW line \in Seq(Word), SplitWords(line) # <<>>
  PROVE  SplitWords(line)[1] \in Seq(Texts)
<1> DEFINE acc == Reading!Fold(NoWords, Peekable(line))
           e == <<>>
<1>1. e \in Seq(Texts) /\ e \in Seq(Word)
  BY Joining!EmptyInSeq
<1>2. NoWords \in Readers
  <2>1. NoWords = Reader(e, e, e, FALSE)
    BY DEF NoWords, Reader
  <2> HIDE DEF e
  <2>2. Reader(e, e, e, FALSE) \in Readers
    BY ONLY <1>1 DEF Reader, Readers
  <2>3. QED
    BY <2>1, <2>2
<1>3. Peekable(line) \in Seq(Pairs)
  <2>1. e \in Seq(Word)
    BY <1>1
  <2>2. Followed(line, e) \in Seq(Pairs) /\ Peekable(line) = Followed(line, e)
    BY <2>1, FollowedIs
  <2>3. QED
    BY <2>2
<1>4. acc \in Readers
  <2>1. \A r \in Readers, x \in Pairs : ReadCharacter(r, x) \in Readers
    BY ReadsType
  <2> HIDE DEF e
  <2>2. \A first \in Readers, s \in Seq(Pairs) : Reading!Fold(first, s) \in Readers
    BY ONLY <2>1, Reading!FoldType
  <2>3. QED
    BY <1>2, <1>3, <2>2
<1>5. acc.words \in Seq(Texts) /\ acc.word \in Seq(Texts)
  <2> HIDE DEF acc
  <2>1. QED
    BY <1>4 DEF Readers
<1>6. acc.words \o acc.word \in Seq(Texts)
  BY ONLY <1>5, TwoOf
<1>7. SplitWords(line) = IF acc.escaped \/ acc.quote # <<>> THEN <<>> ELSE <<acc.words \o acc.word>>
  BY DEF SplitWords
<1> DEFINE both == acc.words \o acc.word
<1>8. both \in Seq(Texts) /\ SplitWords(line) = <<both>>
  BY <1>6, <1>7
<1> HIDE DEF acc, both
<1>9. QED
  BY ONLY <1>8

(* A sequence of length one.                                               *)
LEMMA OnlyOne ==
  ASSUME NEW S, NEW s \in Seq(S), Len(s) = 1
  PROVE  s = <<s[1]>> /\ s[1] \in S
<1> DEFINE x == s[1]
           t == <<x>>
<1>1. x \in S
  OBVIOUS
<1>2. t \in Seq(S)
  BY ONLY <1>1, OneIsSeq
<1>3. Len(t) = 1 /\ t[1] = x /\ \A i \in 1 .. Len(s) : i = 1
  OBVIOUS
<1> HIDE DEF t
<1>4. \A i \in 1 .. Len(s) : s[i] = t[i]
  BY <1>3 DEF x
<1>5. s = t
  BY ONLY <1>2, <1>3, <1>4, s \in Seq(S), Len(s) = 1, Joining!SameSeq
<1>6. QED
  BY <1>1, <1>5 DEF t

(* A name that is given a value in the window is one that --config takes.  *)
LEMMA LineTyped ==
  ASSUME NEW line \in Seq(Word), EnvLineFault(line) = Ok
  PROVE  /\ Len(Trim(Before(line))) = 1
         /\ IsVariable(Trim(Before(line))[1])
         /\ Trim(After(line)) \in Texts
<1> DEFINE n == Trim(Before(line))
<1>1. Before(line) \in Seq(Word) /\ After(line) \in Seq(Word)
  BY SidesType DEF AnyText
<1>2. n \in Seq(Word) /\ Trim(After(line)) \in Texts
  BY <1>1, TrimType DEF Texts
<1>3. EnvLineFault(line) = IF Contains(line, "=") /\ Len(n) = 1 /\ n[1] \notin {Space, ";", Single, Double, Backslash}
                           THEN EnvNameFault(n) ELSE "BadLine"
  BY DEF EnvLineFault
<1> HIDE DEF n
<1>4. Len(n) = 1 /\ n[1] \notin {Space, ";", Single, Double, Backslash} /\ EnvNameFault(n) = Ok
  <2>1. "BadLine" # Ok
    BY DEF Ok
  <2>2. QED
    BY <1>3, <2>1
<1>5. n = <<n[1]>> /\ n[1] \in Word
  BY ONLY <1>2, <1>4, OnlyOne
<1>6. n[1] # "="
  <2>1. SUFFICES ASSUME n[1] = "="
                 PROVE  FALSE
    OBVIOUS
  <2>2. Contains(n, "=")
    BY ONLY <1>4, <2>1 DEF Contains
  <2>3. EnvNameFault(n) \in {"RetiredEnv", "InvalidEnvName", "Nul"}
    BY <2>2 DEF EnvNameFault
  <2>4. QED
    BY <1>4, <2>3 DEF Ok
<1>7. IsVariable(n[1])
  BY <1>4, <1>5, <1>6 DEF IsVariable
<1>8. QED
  BY <1>2, <1>4, <1>7 DEF n

(* The variables that parse_env_lines accepts.                             *)
LEMMA EnvTyped ==
  ASSUME NEW lines, IsSequence(lines), \A i \in DOMAIN lines : lines[i] \in Seq(Word),
         ~EnvLines(lines).fault
  PROVE  LET env == EnvLines(lines).env
         IN /\ IsFiniteSet(DOMAIN env) /\ env = [n \in DOMAIN env |-> env[n]]
            /\ \A n \in DOMAIN env : IsVariable(n) /\ env[n] \in Texts
<1> DEFINE S == Seq(Word)
           said == Filtered(lines, LAMBDA line : Trim(line) # <<>>)
           pairs == [i \in DOMAIN said |->
                       [name |-> Trim(Before(said[i])), value |-> Trim(After(said[i]))]]
           N == {pairs[i].name[1] : i \in DOMAIN pairs}
           env == EnvLines(lines).env
<1>1. lines \in Seq(S)
  <2>1. lines \in Seq(ToSet(lines))
    BY DEF IsSequence
  <2>2. Len(lines) \in Nat /\ DOMAIN lines = 1 .. Len(lines)
    BY <2>1
  <2> HIDE DEF S
  <2>3. \A i \in 1 .. Len(lines) : lines[i] \in S
    BY <2>2 DEF S
  <2>4. QED
    BY ONLY <2>1, <2>3, SeqIn
<1>2. said \in Seq(S)
  <2> HIDE DEF S
  <2>1. QED
    BY <1>1, SelectedType DEF Filtered
<1>3. env = AsMap(pairs)
  BY DEF EnvLines
<1>4. \A i \in DOMAIN said : EnvLineFault(said[i]) = Ok
  <2>1. EnvLines(lines).fault = (\E i \in DOMAIN said : EnvLineFault(said[i]) # Ok)
    BY DEF EnvLines
  <2> HIDE DEF said
  <2>2. QED
    BY <2>1
<1> HIDE DEF said
<1>5. ASSUME NEW i \in DOMAIN said
      PROVE  /\ IsVariable(Trim(Before(said[i]))[1])
             /\ Trim(After(said[i])) \in Texts
  <2>1. said[i] \in Seq(Word)
    <3> HIDE DEF S
    <3>1. said[i] \in S
      BY <1>2
    <3>2. QED
      BY <3>1 DEF S
  <2>2. EnvLineFault(said[i]) = Ok
    BY <1>4
  <2>3. QED
    BY <2>1, <2>2, LineTyped
<1>6. /\ DOMAIN pairs = DOMAIN said
      /\ \A i \in DOMAIN said : IsVariable(pairs[i].name[1]) /\ pairs[i].value \in Texts
  BY <1>5
<1>7. DOMAIN said = 1 .. Len(said) /\ Len(said) \in Nat
  BY <1>2
<1> HIDE DEF pairs
<1> DEFINE Of(n) == {i \in DOMAIN pairs : pairs[i].name[1] = n}
           m == [n \in N |-> pairs[Max(Of(n))].value]
<1>8. env = m
  BY <1>3 DEF AsMap
<1>9. DOMAIN env = N /\ env = [n \in DOMAIN env |-> env[n]]
  BY <1>8
<1>10. ASSUME NEW n \in N
       PROVE  IsVariable(n) /\ env[n] \in Texts
  <2>1. PICK i \in DOMAIN pairs : pairs[i].name[1] = n
    OBVIOUS
  <2>2. Of(n) \subseteq 1 .. Len(said) /\ Of(n) # {}
    BY <1>6, <1>7, <2>1
  <2>3. env[n] = pairs[Max(Of(n))].value
    BY <1>8
  <2> DEFINE I == Of(n)
  <2>4. \A j \in I : j \in DOMAIN pairs
    OBVIOUS
  <2> HIDE DEF I
  <2>5. LastOf(I) \in I /\ LastOf(I) = Max(I)
    BY <1>7, <2>2, LargestIn DEF LastOf, I
  <2>6. pairs[Max(I)].value \in Texts
    BY <1>6, <2>4, <2>5
  <2>7. env[n] \in Texts
    BY <2>3, <2>6 DEF I
  <2>8. IsVariable(n)
    BY <1>6, <2>1
  <2>9. QED
    BY <2>7, <2>8
<1>11. IsFiniteSet(DOMAIN env)
  BY EnvIsFinite
<1> HIDE DEF env, N, m
<1>12. QED
  BY <1>9, <1>10, <1>11 DEF env

(* What the window makes of a form is typed, and it is there (parse).      *)
LEMMA GameSpecTyped ==
  ASSUME NEW form \in Forms, NEW here \in Places, GameSpec(form, here) # <<>>
  PROVE  LET typed == GameSpec(form, here)
         IN /\ typed = <<typed[1]>> /\ IsTyped(typed[1])
            /\ ResolveExe(typed[1].executable) = <<typed[1].executable>>
            /\ typed[1].executable \in here
<1> DEFINE executable == Configured(<<Trim(form.executable)>>, here)
           words == SplitWords(form.arguments)
           env == EnvLines(form.env)
           x == executable[1]
           as == words[1]
           t == [executable |-> x, arguments |-> as, env |-> env.env]
<1>1. GameSpec(form, here) = IF executable = <<>> \/ words = <<>> \/ env.fault THEN <<>> ELSE <<t>>
  BY DEF GameSpec
<1>2. executable # <<>> /\ words # <<>> /\ ~env.fault
  <2> HIDE DEF executable, words, env, t
  <2>1. QED
    BY <1>1
<1>3. GameSpec(form, here) = <<t>>
  BY <1>1, <1>2
<1>4. form.arguments \in Seq(Word) /\ here \subseteq Texts
      /\ IsSequence(form.env) /\ \A i \in DOMAIN form.env : form.env[i] \in Seq(Word)
  BY TypedAssumption, LinesAssumption DEF Texts
<1>5. as \in Seq(Texts)
  BY <1>2, <1>4, WordsType
<1>6. /\ IsFiniteSet(DOMAIN env.env) /\ env.env = [n \in DOMAIN env.env |-> env.env[n]]
      /\ \A n \in DOMAIN env.env : IsVariable(n) /\ env.env[n] \in Texts
  BY <1>2, <1>4, EnvTyped
<1>7. x \in here
  <2>1. \A option : Configured(option, here) # <<>> =>
          Configured(option, here) = ResolveExe(option[1]) /\ ResolveExe(option[1])[1] \in here
    BY DEF Configured
  <2>2. QED
    BY <1>2, <2>1
<1> HIDE DEF executable, words, env
<1>8. ResolveExe(x) = <<x>>
  BY <1>7, LoadAssumption
<1>9. x # <<>>
  <2>1. SUFFICES ASSUME x = <<>>
                 PROVE  FALSE
    OBVIOUS
  <2>2. ExpandTilde(x) = <<>>
    BY <2>1 DEF ExpandTilde
  <2>3. ResolveExe(x) = <<>>
    BY <2>2 DEF ResolveExe
  <2>4. QED
    BY <1>8, <2>3
<1> HIDE DEF x, as
<1>10. t.executable = x /\ t.arguments = as /\ t.env = env.env
  OBVIOUS
<1> HIDE DEF t
<1>11. IsTyped(t)
  BY <1>4, <1>5, <1>6, <1>7, <1>9, <1>10 DEF IsTyped
<1> DEFINE g == GameSpec(form, here)
<1>12. g = <<t>>
  BY <1>3
<1> HIDE DEF g
<1>13. g[1] = t
  BY <1>12
<1>14. QED
  BY <1>7, <1>8, <1>10, <1>11, <1>12, <1>13 DEF g

(* What was typed is what runs when it is run once (run_once): nothing but *)
(* the file of the defaults can refuse it, and its executable, its words   *)
(* and its variables are those Wine is started with.                       *)
RunsAsTyped(typed) ==
  /\ pc \in {"parse", "defaults", "cli", "overlay", "running", "refused"}
  /\ pc = "refused" => base # <<>> /\ base.fault # Ok
  /\ pc = "running" =>
       /\ config[1].executable = typed.executable
       /\ config[1].arguments = IF typed.arguments # <<>> THEN typed.arguments
                                ELSE OrElse(base.raw.settings.arguments, <<>>)
       /\ \A n \in DOMAIN typed.env : config[1].env[n] = typed.env[n]

TypedOnceRuns == spec # <<>> /\ args # <<>> => RunsAsTyped(spec[1])

(* The settings of its command line.                                       *)
SettingsOf(typed) ==
  Setting(<<typed.executable>>, IF typed.arguments = <<>> THEN <<>> ELSE <<typed.arguments>>, typed.env)

IsThere(typed) ==
  /\ IsTyped(typed) /\ typed.executable \in there
  /\ ResolveExe(typed.executable) = <<typed.executable>>

OnceInv ==
  /\ there \in Places
  /\ pc = "idle" => spec = <<>>
  /\ spec # <<>> /\ args # <<>> =>
       /\ args = OverrideArgs(spec[1])
       /\ IsThere(spec[1])
       /\ pc # "parse" => over = SettingsOf(spec[1])
       /\ pc = "overlay" => exe = <<spec[1].executable>> /\ raw = base.raw
       /\ RunsAsTyped(spec[1])

(* What a step from the parsing on does to a launch of what was typed.     *)
LEMMA ParseRuns ==
  ASSUME OnceInv, Parse
  PROVE  OnceInv'
<1>1. /\ over' = IntoArgs(args).settings
      /\ pc' = IF IntoArgs(args).fault # Ok THEN "refused"
               ELSE IF game # <<>> \/ over'.executable # <<>> THEN "defaults"
               ELSE IF over'.game # <<>> THEN "refused" ELSE "form"
      /\ pc' # "idle"
  BY DEF Parse
<1>2. there' = there /\ args' = args /\ spec' = spec /\ base' = base /\ config' = config
  BY DEF Parse, files, loaded
<1>3. ASSUME spec # <<>>, args # <<>>
      PROVE  pc' = "defaults" /\ over' = SettingsOf(spec[1]) /\ IsThere(spec[1]) /\ args = OverrideArgs(spec[1])
  <2> DEFINE t == spec[1]
             e == <<t.executable>>
             a == IF t.arguments = <<>> THEN <<>> ELSE <<t.arguments>>
  <2>1. args = OverrideArgs(t) /\ IsThere(t) /\ IsTyped(t)
    BY <1>3 DEF OnceInv, IsThere
  <2> HIDE DEF t
  <2>2. IntoArgs(OverrideArgs(t)).fault = Ok /\ IntoArgs(OverrideArgs(t)).settings = Setting(e, a, t.env)
    BY <2>1, TypedReadsBack
  <2>3. e # <<>>
    OBVIOUS
  <2> HIDE DEF e, a
  <2>4. Setting(e, a, t.env).executable = e
    BY DEF Setting
  <2>5. over' = Setting(e, a, t.env)
    BY <1>1, <2>1, <2>2
  <2>6. over'.executable # <<>>
    BY <2>3, <2>4, <2>5
  <2>7. pc' = "defaults"
    BY <1>1, <2>1, <2>2, <2>6
  <2>8. over' = SettingsOf(t)
    BY <2>5 DEF SettingsOf, e, a
  <2>9. QED
    BY <2>1, <2>7, <2>8 DEF t
<1>4. there \in Places
  BY DEF OnceInv
<1>5. QED
  BY <1>1, <1>2, <1>3, <1>4 DEF OnceInv, RunsAsTyped, IsThere

(* A form that is answered.                                                *)
LEMMA AnswerRuns ==
  ASSUME OnceInv, Answer
  PROVE  OnceInv'
<1>1. there \in Places /\ there' = there /\ pc' = "parse"
  BY DEF OnceInv, Answer
<1>2. PICK form \in Forms : \E typed \in {GameSpec(form, there)} :
            /\ typed # <<>>
            /\ spec' = typed
            /\ \/ args' = OverrideArgs(typed[1]) /\ UNCHANGED game
               \/ args' = <<>> /\ game' = <<GameText(typed[1])>>
  BY DEF Answer
<1> DEFINE t == spec'[1]
<1>3. spec' = GameSpec(form, there) /\ spec' # <<>> /\ (args' = OverrideArgs(t) \/ args' = <<>>)
  BY <1>2
<1>4. IsTyped(t) /\ ResolveExe(t.executable) = <<t.executable>> /\ t.executable \in there'
  BY <1>1, <1>3, GameSpecTyped
<1>5. IsThere(spec[1])'
  BY <1>4 DEF IsThere
<1>6. args' # <<>> => (args = OverrideArgs(spec[1]))'
  BY <1>3
<1> HIDE DEF t
<1>7. QED
  BY <1>1, <1>5, <1>6 DEF OnceInv, RunsAsTyped

(* The defaults are read: theirs is the one fault that stops it.           *)
LEMMA DefaultsRuns ==
  ASSUME OnceInv, ReadDefaults
  PROVE  OnceInv'
<1> DEFINE text == IF defaults = <<>> THEN Template("defaults") ELSE defaults[1]
           file == LoadFile(text, "defaults")
<1>1. /\ base' = file /\ pc = "defaults"
      /\ pc' = IF file.fault # Ok THEN "refused" ELSE IF over.executable # <<>> THEN "cli" ELSE "game"
  BY DEF ReadDefaults
<1>2. there' = there /\ args' = args /\ spec' = spec /\ over' = over
  BY DEF ReadDefaults
<1>3. file # <<>>
  <2>1. \A a, b, c, d : [fault |-> a, text |-> b, document |-> c, raw |-> d] # <<>>
    OBVIOUS
  <2>2. \E a, b, c, d : file = [fault |-> a, text |-> b, document |-> c, raw |-> d]
    <3>1. \/ file = NotLoaded(text)
          \/ \E u, r : file = ToppedUp(u, r)
      BY DEF LoadFile, LoadDocument, Checked
    <3>2. QED
      BY <3>1 DEF NotLoaded, ToppedUp
  <2>3. QED
    BY <2>1, <2>2
<1> HIDE DEF file
<1>4. ASSUME spec # <<>>, args # <<>>
      PROVE  /\ pc' \in {"refused", "cli"} /\ (pc' = "refused" => file.fault # Ok)
  <2> DEFINE e == <<spec[1].executable>>
  <2>1. over = SettingsOf(spec[1])
    BY <1>1, <1>4 DEF OnceInv
  <2>2. over.executable = e
    BY <2>1 DEF SettingsOf, Setting
  <2>3. e # <<>>
    OBVIOUS
  <2> HIDE DEF e
  <2>4. QED
    BY <1>1, <2>2, <2>3
<1>5. pc' # "idle"
  BY <1>1
<1>6. QED
  BY <1>1, <1>2, <1>3, <1>4, <1>5 DEF OnceInv, RunsAsTyped, IsThere

(* The executable is the one that was there when the form was checked.     *)
LEMMA TakeRuns ==
  ASSUME OnceInv, TakeExecutable
  PROVE  OnceInv'
<1>1. /\ exe' = Configured(over.executable, there) /\ raw' = base.raw /\ pc = "cli"
      /\ pc' = IF exe' = <<>> THEN "refused" ELSE "overlay"
      /\ there' = there /\ args' = args /\ spec' = spec /\ over' = over /\ base' = base
  BY DEF TakeExecutable, files
<1>2. ASSUME spec # <<>>, args # <<>>
      PROVE  pc' = "overlay" /\ exe' = <<spec[1].executable>>
  <2> DEFINE x == spec[1].executable
             e == <<x>>
  <2>1. over = SettingsOf(spec[1]) /\ ResolveExe(x) = e /\ x \in there
    BY <1>1, <1>2 DEF OnceInv, IsThere
  <2>2. over.executable = e
    BY <2>1 DEF SettingsOf, Setting
  <2>3. e # <<>> /\ e[1] = x
    OBVIOUS
  <2> HIDE DEF e
  <2>4. Configured(e, there) = e
    BY <2>1, <2>3 DEF Configured
  <2>5. QED
    BY <1>1, <2>2, <2>3, <2>4 DEF e
<1>3. pc' # "idle"
  BY <1>1
<1>4. QED
  BY <1>1, <1>2, <1>3 DEF OnceInv, RunsAsTyped, IsThere

(* What the settings of a command line do to those under them.             *)
LEMMA OverSettings ==
  ASSUME NEW under, NEW a, NEW b, NEW env
  PROVE  LET s == Overlay(under, Setting(a, b, env))
         IN s.arguments = Either(b, under.arguments) /\ s.env = Atop(env, under.env)
<1> DEFINE upper == Setting(a, b, env)
           g == [field \in DOMAIN upper |-> Either(upper[field], under[field])]
           s == [[g EXCEPT !.rule = Atop(upper.rule, under.rule)] EXCEPT !.env = Atop(upper.env, under.env)]
<1>1. Overlay(under, upper) = s
  BY DEF Overlay
<1>2. /\ DOMAIN upper = {"executable", "arguments", "game", "retina_mode", "dpi", "rule", "env"}
      /\ upper.arguments = b /\ upper.env = env
  BY DEF Setting
<1> HIDE DEF upper
<1>3. g.arguments = Either(b, under.arguments) /\ DOMAIN g = DOMAIN upper
  BY <1>2
<1> HIDE DEF g
<1>4. s.arguments = g.arguments /\ s.env = Atop(upper.env, under.env)
  BY <1>2, <1>3
<1>5. QED
  BY <1>1, <1>2, <1>3, <1>4 DEF upper

(* And Wine is started with it.                                            *)
LEMMA RunRuns ==
  ASSUME OnceInv, Run
  PROVE  OnceInv'
<1>1. /\ there' = there /\ args' = args /\ spec' = spec /\ over' = over /\ base' = base
      /\ pc = "overlay" /\ pc' = "running"
  BY DEF Run, files, loaded
<1> DEFINE s == Overlay(raw.settings, over)
<1>2. /\ config'[1].executable = exe[1] /\ config'[1].arguments = OrElse(s.arguments, <<>>)
      /\ config'[1].env = s.env
  <2>1. PICK launch, retina :
          config' = << [executable |-> exe[1], arguments |-> OrElse(s.arguments, <<>>),
                        launch |-> launch, env |-> s.env,
                        environment |-> Environment(s.env, launch.table),
                        debug |-> Winedebug(launch.table), retina |-> retina,
                        dpi |-> ResolveDpi(OrElse(s.dpi, AutoDpi), retina)] >>
    BY DEF Run
  <2> DEFINE c == [executable |-> exe[1], arguments |-> OrElse(s.arguments, <<>>),
                   launch |-> launch, env |-> s.env,
                   environment |-> Environment(s.env, launch.table),
                   debug |-> Winedebug(launch.table), retina |-> retina,
                   dpi |-> ResolveDpi(OrElse(s.dpi, AutoDpi), retina)]
  <2>2. config' = <<c>>
    BY <2>1
  <2> HIDE DEF s
  <2>3. c.executable = exe[1] /\ c.arguments = OrElse(s.arguments, <<>>) /\ c.env = s.env
    OBVIOUS
  <2> HIDE DEF c
  <2>4. config'[1] = c
    BY <2>2
  <2>5. QED
    BY <2>3, <2>4
<1> HIDE DEF s
<1>3. ASSUME spec # <<>>, args # <<>>
      PROVE  /\ config'[1].executable = spec[1].executable
             /\ config'[1].arguments = IF spec[1].arguments # <<>> THEN spec[1].arguments
                                       ELSE OrElse(base.raw.settings.arguments, <<>>)
             /\ \A n \in DOMAIN spec[1].env : config'[1].env[n] = spec[1].env[n]
  <2> DEFINE t == spec[1]
             a == IF t.arguments = <<>> THEN <<>> ELSE <<t.arguments>>
             under == base.raw.settings
  <2>1. over = SettingsOf(t) /\ exe = <<t.executable>> /\ raw = base.raw
    BY <1>1, <1>3 DEF OnceInv
  <2>2. over = Setting(<<t.executable>>, a, t.env)
    BY <2>1 DEF SettingsOf
  <2>3. s = Overlay(under, Setting(<<t.executable>>, a, t.env))
    BY <2>1, <2>2 DEF s
  <2> HIDE DEF a, t, under
  <2>4. s.arguments = Either(a, under.arguments) /\ s.env = Atop(t.env, under.env)
    BY <2>3, OverSettings
  <2>5. \A n \in DOMAIN t.env : s.env[n] = t.env[n]
    BY <2>4 DEF Atop
  <2>6. OrElse(s.arguments, <<>>) = IF t.arguments # <<>> THEN t.arguments ELSE OrElse(under.arguments, <<>>)
    <3>1. CASE t.arguments = <<>>
      <4>1. a = <<>>
        BY <3>1 DEF a
      <4>2. s.arguments = under.arguments
        BY <2>4, <4>1 DEF Either
      <4>3. QED
        BY <3>1, <4>2
    <3>2. CASE t.arguments # <<>>
      <4>1. a = <<t.arguments>> /\ a # <<>> /\ a[1] = t.arguments
        BY <3>2 DEF a
      <4>2. s.arguments = a
        BY <2>4, <4>1 DEF Either
      <4>3. QED
        BY <3>2, <4>1, <4>2 DEF OrElse
    <3>3. QED
      BY <3>1, <3>2
  <2>7. exe[1] = t.executable
    BY <2>1
  <2>8. QED
    BY <1>2, <2>5, <2>6, <2>7 DEF t, under
<1>4. there \in Places
  BY DEF OnceInv
<1>5. ASSUME spec # <<>>, args # <<>>
      PROVE  args = OverrideArgs(spec[1]) /\ IsThere(spec[1]) /\ over = SettingsOf(spec[1])
  BY <1>1, <1>5 DEF OnceInv
<1>6. spec # <<>> /\ args # <<>> => RunsAsTyped(spec[1])'
  BY <1>1, <1>3 DEF RunsAsTyped
<1>7. IsThere(spec[1]) => IsThere(spec[1])'
  BY <1>1 DEF IsThere
<1>8. QED
  BY <1>1, <1>4, <1>5, <1>6, <1>7 DEF OnceInv

(* Every step keeps it.                                                    *)
LEMMA NextRuns ==
  ASSUME OnceInv, [Next]_vars
  PROVE  OnceInv'
<1>1. CASE Start
  <2>1. pc = "idle" /\ there' = there /\ spec' = spec /\ pc' # "idle"
    BY <1>1 DEF Start, files
  <2>2. QED
    BY <2>1 DEF OnceInv
<1>2. CASE Parse
  BY <1>2, ParseRuns
<1>3. CASE Answer
  BY <1>3, AnswerRuns
<1>4. CASE ReadDefaults
  BY <1>4, DefaultsRuns
<1>5. CASE TakeExecutable
  BY <1>5, TakeRuns
<1>6. CASE ReadGame
  <2>1. /\ pc = "game" /\ there' = there /\ spec' = spec /\ args' = args /\ pc' \in {"refused", "merge"}
    BY <1>6 DEF ReadGame
  <2>2. QED
    BY <2>1 DEF OnceInv, RunsAsTyped
<1>7. CASE Merge
  <2>1. /\ pc = "merge" /\ there' = there /\ spec' = spec /\ args' = args /\ pc' \in {"clash", "resolve"}
    BY <1>7 DEF Merge, files
  <2>2. QED
    BY <2>1 DEF OnceInv, RunsAsTyped
<1>8. CASE ResolveFile
  <2>1. /\ pc = "resolve" /\ there' = there /\ spec' = spec /\ args' = args /\ pc' \in {"pick", "overlay"}
    BY <1>8 DEF ResolveFile, files
  <2>2. QED
    BY <2>1 DEF OnceInv, RunsAsTyped
<1>9. CASE Pick
  <2>1. /\ pc = "pick" /\ there' = there /\ spec' = spec /\ args' = args /\ pc' = "overlay"
    BY <1>9 DEF Pick
  <2>2. QED
    BY <2>1 DEF OnceInv, RunsAsTyped
<1>10. CASE Run
  BY <1>10, RunRuns
<1>11. CASE End
  <2>1. there' = there /\ spec' = <<>>
    BY <1>11 DEF End, files
  <2>2. QED
    BY <2>1 DEF OnceInv
<1>12. CASE GameMoves
  <2>1. pc = "idle" /\ there' \in Places /\ spec' = spec
    BY <1>12 DEF GameMoves
  <2>2. QED
    BY <2>1 DEF OnceInv
<1>13. CASE UNCHANGED vars
  BY <1>13 DEF vars, files, loaded, OnceInv, RunsAsTyped, IsThere
<1>14. QED
  BY <1>1, <1>2, <1>3, <1>4, <1>5, <1>6, <1>7, <1>8, <1>9, <1>10, <1>11, <1>12, <1>13 DEF Next

(* What is typed and run once is what runs, through the quotes of a        *)
(* command line (new_game.rs:155-176, cli.rs:145), whatever it is.         *)
THEOREM TypedOnceRunsHolds == Spec => []TypedOnceRuns
<1>1. Init => OnceInv
  BY DEF Init, OnceInv
<1>2. OnceInv => TypedOnceRuns
  BY DEF OnceInv, TypedOnceRuns
<1>3. QED
  BY <1>1, <1>2, NextRuns, PTL DEF Spec
=============================================================================
