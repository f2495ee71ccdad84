--------------------------- MODULE LogPump_proofs ---------------------------
(***************************************************************************)
(* Proofs about LogPump, for any pty, any chunk, any number of programs on *)
(* the terminal, of SIGTERMs and of failed calls.                          *)
(***************************************************************************)
EXTENDS LogPump, Selected, SequenceTheorems, TLAPS

-----------------------------------------------------------------------------
(* StripCrBeforeLf *)

(* Three texts, for a law that the provers would otherwise try on all.     *)
Are(a, b, c) == Joining!AllIn(Bytes, a, b, c)

(* Three pieces of text make one text, whichever two are joined first.     *)
LEMMA Associative ==
  ASSUME NEW a, NEW b, NEW c, Are(a, b, c)
  PROVE  (a \o b) \o c = a \o (b \o c)
BY Joining!EitherWay DEF Are

(* What Kept computes, position by position.                               *)
LEMMA KeptDef ==
  ASSUME NEW text \in Seq(Bytes)
  PROVE  /\ Kept(text) \in [0 .. Len(text) -> Seq(Bytes)]
         /\ Kept(text)[0] = <<>>
         /\ \A i \in 1 .. Len(text) :
              Kept(text)[i] =
                IF text[i] = CR /\ i < Len(text) /\ text[i + 1] = LF THEN Kept(text)[i - 1]
                ELSE Kept(text)[i - 1] \o <<text[i]>>
<1> DEFINE goes(i) == text[i] = CR /\ i < Len(text) /\ text[i + 1] = LF
           kept(s, i) == IF goes(i) THEN s ELSE s \o <<text[i]>>
           A == Seq(Bytes)
           n == Len(text)
           step == [i \in 1 .. n |-> [s \in A |-> kept(s, i)]]
<1>1. n \in Nat /\ <<>> \in A
  BY EmptySeq, LenProperties
<1>2. \A i \in 1 .. n, s \in A : kept(s, i) \in A
  BY ConcatProperties, ElementOfSeq
<1>3. \E g : g = [i \in 0 .. n |-> IF i = 0 THEN <<>> ELSE kept(g[i - 1], i)]
  <2> HIDE DEF kept, A, n
  <2>1. step \in [1 .. n -> [A -> A]]
    BY <1>2
  <2>2. PICK g \in [0 .. n -> A] : g[0] = <<>> /\ \A i \in 1 .. n : g[i] = step[i][g[i - 1]]
    <3> HIDE DEF step
    <3>1. \E g : Joining!Rounds(A, <<>>, n, step, g)
      BY <1>1, <2>1, Joining!Recursion DEF Joining!IsLoop
    <3>2. QED
      BY <3>1 DEF Joining!Rounds
  <2>3. \A i \in 1 .. n : g[i - 1] \in A
    BY <1>1
  <2>4. \A i \in 0 .. n : i # 0 => g[i] = kept(g[i - 1], i)
    BY <1>1, <2>2, <2>3
  <2>5. g = [i \in 0 .. n |-> IF i = 0 THEN <<>> ELSE kept(g[i - 1], i)]
    BY <2>2, <2>4
  <2>6. QED
    BY <2>5
<1>4. Kept(text) = [i \in 0 .. n |-> IF i = 0 THEN <<>> ELSE kept(Kept(text)[i - 1], i)]
  BY <1>3 DEF Kept
<1>5. \A i \in 1 .. n : Kept(text)[i] = kept(Kept(text)[i - 1], i)
  <2> HIDE DEF kept, n
  <2>1. \A i \in 1 .. n : i \in 0 .. n /\ i # 0
    BY <1>1
  <2>2. QED
    BY <1>4, <2>1
<1>6. Kept(text)[0] = <<>>
  <2> HIDE DEF kept, n
  <2>1. 0 \in 0 .. n
    BY <1>1
  <2>2. QED
    BY <1>4, <2>1
<1>7. Kept(text) = [i \in 0 .. n |-> Kept(text)[i]]
  <2> HIDE DEF kept, n
  <2>1. QED
    BY <1>4
<1>8. Kept(text) \in [0 .. n -> A]
  <2> DEFINE f == Kept(text)
  <2> HIDE DEF kept, A, n
  <2>1. f = [i \in 0 .. n |-> f[i]] /\ f[0] \in A
    BY <1>1, <1>6, <1>7
  <2>2. \A i \in 1 .. n : f[i - 1] \in A => f[i] \in A
    BY <1>2, <1>5
  <2> HIDE DEF f
  <2>3. f \in [0 .. n -> A]
    BY <1>1, <2>1, <2>2, Joining!RecursionType DEF Joining!StaysIn
  <2>4. QED
    BY <2>3 DEF f
<1>9. QED
  BY <1>5, <1>6, <1>8

(* A text that is stripped is a text.                                      *)
LEMMA StrippedType ==
  ASSUME NEW text \in Seq(Bytes)
  PROVE  Stripped(text) \in Seq(Bytes)
<1>1. Len(text) \in 0 .. Len(text)
  BY LenProperties
<1>2. Kept(text)[Len(text)] \in Seq(Bytes)
  BY <1>1, KeptDef
<1>3. QED
  BY <1>2 DEF Stripped

(* A text is stripped in pieces, unless it is cut between a CR and an LF.  *)
LEMMA StrippedConcat ==
  ASSUME NEW s \in Seq(Bytes), NEW t \in Seq(Bytes),
         ~ (s # <<>> /\ t # <<>> /\ s[Len(s)] = CR /\ t[1] = LF)
  PROVE  Stripped(s \o t) = Stripped(s) \o Stripped(t)
<1> DEFINE u == s \o t
           goes(x, i) == x[i] = CR /\ i < Len(x) /\ x[i + 1] = LF
           S == {i \in Nat : i <= Len(s) => Kept(u)[i] = Kept(s)[i]}
           T == {j \in Nat : j <= Len(t) => Kept(u)[Len(s) + j] = Stripped(s) \o Kept(t)[j]}
<1>1. /\ u \in Seq(Bytes)
      /\ Len(s) \in Nat /\ Len(t) \in Nat /\ Len(u) = Len(s) + Len(t)
      /\ \A i \in 1 .. Len(s) : u[i] = s[i]
      /\ \A j \in 1 .. Len(t) : u[Len(s) + j] = t[j]
  BY ConcatProperties, LenProperties
<1>2. s # <<>> <=> Len(s) > 0
  BY EmptySeq
<1>3. t # <<>> <=> Len(t) > 0
  BY EmptySeq
<1> HIDE DEF u
<1>4. ASSUME NEW i \in 1 .. Len(s)
      PROVE  goes(u, i) <=> goes(s, i)
  <2>1. CASE i < Len(s)
    <3>1. i + 1 \in 1 .. Len(s) /\ i < Len(u)
      BY <1>1, <2>1
    <3>2. QED
      BY <1>1, <2>1, <3>1
  <2>2. CASE i = Len(s) /\ Len(t) > 0
    <3>1. u[i + 1] = t[1]
      BY <1>1, <2>2
    <3>2. QED
      BY <1>1, <1>2, <1>3, <2>2, <3>1
  <2>3. CASE i = Len(s) /\ Len(t) = 0
    BY <1>1, <2>3
  <2>4. QED
    BY <1>1, <2>1, <2>2, <2>3
<1>5. ASSUME NEW j \in 1 .. Len(t)
      PROVE  goes(u, Len(s) + j) <=> goes(t, j)
  <2>1. u[Len(s) + j] = t[j] /\ (Len(s) + j < Len(u) <=> j < Len(t))
    BY <1>1
  <2>2. j < Len(t) => u[(Len(s) + j) + 1] = t[j + 1]
    <3>1. (Len(s) + j) + 1 = Len(s) + (j + 1)
      BY <1>1
    <3>2. j < Len(t) => j + 1 \in 1 .. Len(t)
      BY <1>1
    <3>3. QED
      BY <1>1, <3>1, <3>2
  <2>3. QED
    BY <2>1, <2>2
<1>6. \A i \in 0 .. Len(s) : Kept(u)[i] = Kept(s)[i]
  <2>1. 0 \in S
    BY <1>1, KeptDef
  <2>2. ASSUME NEW i \in Nat, i \in S
        PROVE  i + 1 \in S
    <3>1. SUFFICES ASSUME i + 1 <= Len(s)
                   PROVE  Kept(u)[i + 1] = Kept(s)[i + 1]
      OBVIOUS
    <3> DEFINE m == i + 1
    <3>2. m \in 1 .. Len(s) /\ m \in 1 .. Len(u) /\ m - 1 = i
      BY <1>1, <3>1
    <3> HIDE DEF m
    <3>3. Kept(u)[m - 1] = Kept(s)[m - 1] /\ u[m] = s[m]
      BY <1>1, <2>2, <3>2
    <3>4. Kept(u)[m] = IF goes(u, m) THEN Kept(u)[m - 1] ELSE Kept(u)[m - 1] \o <<u[m]>>
      BY <1>1, <3>2, KeptDef
    <3>5. Kept(s)[m] = IF goes(s, m) THEN Kept(s)[m - 1] ELSE Kept(s)[m - 1] \o <<s[m]>>
      BY <1>1, <3>2, KeptDef
    <3>6. goes(u, m) <=> goes(s, m)
      BY <1>4, <3>2
    <3> HIDE DEF goes
    <3>7. Kept(u)[m] = Kept(s)[m]
      BY <3>3, <3>4, <3>5, <3>6
    <3>8. QED
      BY <3>7 DEF m
  <2>3. \A i \in Nat : i \in S
    <3> HIDE DEF S
    <3>1. QED
      BY <2>1, <2>2, Joining!Induction
  <2>4. QED
    BY <1>1, <2>3
<1>7. \A j \in 0 .. Len(t) : Kept(u)[Len(s) + j] = Stripped(s) \o Kept(t)[j]
  <2>0. Stripped(s) \in Seq(Bytes)
    BY StrippedType
  <2>1. 0 \in T
    <3>1. Kept(u)[Len(s) + 0] = Stripped(s)
      BY <1>1, <1>6 DEF Stripped
    <3>2. Kept(t)[0] = <<>>
      BY KeptDef
    <3>3. QED
      BY <2>0, <3>1, <3>2, ConcatEmptySeq
  <2>2. ASSUME NEW j \in Nat, j \in T
        PROVE  j + 1 \in T
    <3>1. SUFFICES ASSUME j + 1 <= Len(t)
                   PROVE  Kept(u)[Len(s) + (j + 1)] = Stripped(s) \o Kept(t)[j + 1]
      OBVIOUS
    <3> DEFINE k == Len(s) + (j + 1)
    <3>2. /\ j + 1 \in 1 .. Len(t) /\ k \in 1 .. Len(u)
          /\ (j + 1) - 1 = j /\ k - 1 = Len(s) + j /\ j \in 0 .. Len(t)
      BY <1>1, <3>1
    <3>3. Kept(u)[k - 1] = Stripped(s) \o Kept(t)[j] /\ u[k] = t[j + 1]
      BY <1>1, <2>2, <3>2
    <3>4. Kept(u)[k] = IF goes(u, k) THEN Kept(u)[k - 1] ELSE Kept(u)[k - 1] \o <<u[k]>>
      BY <1>1, <3>2, KeptDef
    <3>5. Kept(t)[j + 1] = IF goes(t, j + 1) THEN Kept(t)[j] ELSE (Kept(t)[j] \o <<t[j + 1]>>)
      BY <1>1, <3>2, KeptDef
    <3>6. goes(u, k) <=> goes(t, j + 1)
      BY <1>5, <3>2
    <3>7. Kept(t)[j] \in Seq(Bytes) /\ t[j + 1] \in Bytes
      BY <3>2, KeptDef, ElementOfSeq
    <3>8. (Stripped(s) \o Kept(t)[j]) \o <<t[j + 1]>> = Stripped(s) \o (Kept(t)[j] \o <<t[j + 1]>>)
      <4> DEFINE x == Stripped(s)
                 y == Kept(t)[j]
                 z == <<t[j + 1]>>
      <4>1. x \in Seq(Bytes) /\ y \in Seq(Bytes) /\ z \in Seq(Bytes)
        BY <2>0, <3>7
      <4> HIDE DEF x, y, z
      <4>2. (x \o y) \o z = x \o (y \o z)
        <5>1. Are(x, y, z)
          BY ONLY <4>1 DEF Are, Joining!AllIn
        <5>2. QED
          BY ONLY <5>1, Associative
      <4>3. QED
        BY <4>2 DEF x, y, z
    <3> HIDE DEF goes, k
    <3>9. QED
      BY <3>3, <3>4, <3>5, <3>6, <3>8 DEF k
  <2>3. \A j \in Nat : j \in T
    <3> HIDE DEF T
    <3>1. QED
      BY <2>1, <2>2, Joining!Induction
  <2>4. QED
    BY <1>1, <2>3
<1>8. Stripped(u) = Kept(u)[Len(s) + Len(t)] /\ Stripped(t) = Kept(t)[Len(t)]
  BY <1>1 DEF Stripped
<1>9. QED
  BY <1>1, <1>7, <1>8 DEF u

(* What becomes of no byte, of a single one and of a line end.             *)
LEMMA StrippedShort ==
  /\ Stripped(<<>>) = <<>>
  /\ \A b \in Bytes : Stripped(<<b>>) = <<b>>
  /\ Stripped(<<CR, LF>>) = <<LF>>
<1>1. Stripped(<<>>) = <<>>
  <2>1. <<>> \in Seq(Bytes) /\ Len(<<>>) = 0
    BY EmptySeq
  <2>2. QED
    BY <2>1, KeptDef DEF Stripped
<1>2. ASSUME NEW b \in Bytes
      PROVE  Stripped(<<b>>) = <<b>>
  <2> DEFINE t == <<b>>
  <2>1. t \in Seq(Bytes) /\ Len(t) = 1 /\ t[1] = b
    OBVIOUS
  <2> HIDE DEF t
  <2>2. Kept(t)[0] = <<>>
    BY <2>1, KeptDef
  <2>3. Kept(t)[1] = Kept(t)[1 - 1] \o <<t[1]>>
    BY <2>1, KeptDef
  <2>4. <<>> \o t = t
    BY <2>1, ConcatEmptySeq
  <2>5. QED
    BY <2>1, <2>2, <2>3, <2>4 DEF Stripped, t
<1>3. Stripped(<<CR, LF>>) = <<LF>>
  <2> DEFINE t == <<CR, LF>>
  <2>1. t \in Seq(Bytes) /\ Len(t) = 2 /\ t[1] = CR /\ t[2] = LF
    BY DEF Bytes
  <2>2. LF # CR
    BY PumpAssumption
  <2> HIDE DEF t
  <2>3. Kept(t)[0] = <<>>
    BY <2>1, KeptDef
  <2>4. Kept(t)[1] = Kept(t)[1 - 1]
    BY <2>1, KeptDef
  <2>5. Kept(t)[2] = Kept(t)[2 - 1] \o <<t[2]>>
    <3>1. 2 \in 1 .. Len(t) /\ t[2] # CR
      BY <2>1, <2>2
    <3>2. Kept(t)[2] = IF t[2] = CR /\ 2 < Len(t) /\ t[2 + 1] = LF THEN Kept(t)[2 - 1]
                       ELSE Kept(t)[2 - 1] \o <<t[2]>>
      BY <2>1, <3>1, KeptDef
    <3>3. QED
      BY <3>1, <3>2
  <2>6. <<LF>> \in Seq(Bytes)
    BY DEF Bytes
  <2>7. <<>> \o <<LF>> = <<LF>>
    BY <2>6, ConcatEmptySeq
  <2>8. QED
    BY <2>1, <2>3, <2>4, <2>5, <2>7 DEF Stripped, t
<1>4. QED
  BY <1>1, <1>2, <1>3

(* What the terminal makes of a byte is stripped to that byte, whatever    *)
(* came before it.                                                         *)
LEMMA StrippedCooked ==
  ASSUME NEW s \in Seq(Bytes), NEW b \in Bytes
  PROVE  Stripped(s \o Cooked(b)) = Stripped(s) \o <<b>>
<1>1. CR # LF /\ LF \in Bytes /\ CR \in Bytes
  BY PumpAssumption DEF Bytes
<1>2. CASE b = LF
  <2>1. <<CR, LF>> \in Seq(Bytes) /\ <<CR, LF>>[1] = CR
    BY <1>1
  <2>2. Stripped(s \o <<CR, LF>>) = Stripped(s) \o Stripped(<<CR, LF>>)
    BY <1>1, <2>1, StrippedConcat
  <2>3. QED
    BY <1>2, <2>2, StrippedShort DEF Cooked
<1>3. CASE b # LF
  <2>1. <<b>> \in Seq(Bytes) /\ <<b>>[1] = b
    OBVIOUS
  <2>2. Stripped(s \o <<b>>) = Stripped(s) \o Stripped(<<b>>)
    BY <1>3, <2>1, StrippedConcat
  <2>3. QED
    BY <1>3, <2>2, StrippedShort DEF Cooked
<1>4. QED
  BY <1>2, <1>3

(* What pending_cr stands for, and what the strip keeps from byte to byte. *)
Holds == {<<>>, <<CR>>}
Stripping == [held : Holds, text : Seq(Bytes)]

(* What pending_cr holds back is a text of one byte at most.               *)
LEMMA HoldsType ==
  /\ CR \in Bytes /\ LF \in Bytes /\ CR # LF
  /\ <<>> # <<CR>> /\ Len(<<>>) = 0 /\ Len(<<CR>>) = 1
  /\ \A h \in Holds : h \in Seq(Bytes) /\ Len(h) \in 0 .. 1
<1>1. CR \in Bytes /\ LF \in Bytes /\ CR # LF
  BY PumpAssumption DEF Bytes
<1>2. <<CR>> \in Seq(Bytes) /\ <<>> \in Seq(Bytes) /\ Len(<<CR>>) = 1 /\ Len(<<>>) = 0
  BY <1>1
<1>3. QED
  BY <1>1, <1>2 DEF Holds

(* Two texts of one byte are a text of two.                                *)
LEMMA Pair ==
  ASSUME NEW a \in Bytes, NEW b \in Bytes
  PROVE  <<a>> \o <<b>> = <<a, b>>
<1> DEFINE x == <<a>>
           y == <<b>>
           z == <<a, b>>
<1>1. /\ x \in Seq(Bytes) /\ Len(x) = 1 /\ x[1] = a
      /\ y \in Seq(Bytes) /\ Len(y) = 1 /\ y[1] = b
      /\ z \in Seq(Bytes) /\ Len(z) = 2 /\ z[1] = a /\ z[2] = b
  OBVIOUS
<1> HIDE DEF x, y, z
<1>2. /\ x \o y \in Seq(Bytes) /\ Len(x \o y) = Len(x) + Len(y)
      /\ \A i \in 1 .. Len(x) + Len(y) : (x \o y)[i] = IF i <= Len(x) THEN x[i] ELSE y[i - Len(x)]
  BY <1>1, ConcatProperties
<1> DEFINE w == x \o y
<1> HIDE DEF w
<1>3. w \in Seq(Bytes) /\ Len(w) = 2 /\ w[1] = a /\ w[2] = y[2 - 1]
  <2>1. 1 \in 1 .. Len(x) + Len(y) /\ 2 \in 1 .. Len(x) + Len(y)
    BY <1>1
  <2>2. w[2] = IF 2 <= Len(x) THEN x[2] ELSE y[2 - Len(x)]
    BY <1>2, <2>1 DEF w
  <2>3. w[1] = IF 1 <= Len(x) THEN x[1] ELSE y[1 - Len(x)]
    BY <1>2, <2>1 DEF w
  <2>4. QED
    BY <1>1, <1>2, <2>2, <2>3 DEF w
<1>4. w[2] = b
  BY <1>1, <1>3
<1>5. Len(w) = Len(z) /\ \A i \in 1 .. Len(w) : w[i] = z[i]
  <2>1. \A i \in 1 .. 2 : i = 1 \/ i = 2
    OBVIOUS
  <2>2. QED
    BY <1>1, <1>3, <1>4, <2>1
<1>6. w = z
  BY <1>1, <1>3, <1>5, SeqEqual
<1>7. QED
  BY <1>6 DEF w, x, y, z

(* What one byte adds to the text, and what is held back after it.         *)
Adds(h, b) == (IF b = LF THEN <<>> ELSE h) \o (IF b = CR THEN <<>> ELSE <<b>>)
Held(b) == IF b = CR THEN <<CR>> ELSE <<>>

(* An LF drops the CR held back, a CR takes its place, and any other byte  *)
(* comes after it.                                                         *)
LEMMA AddsIs ==
  ASSUME NEW h \in Holds, NEW b \in Bytes
  PROVE  /\ b = LF => Adds(h, b) = <<LF>> /\ Held(b) = <<>>
         /\ b = CR => Adds(h, b) = h /\ Held(b) = <<CR>>
         /\ b # LF /\ b # CR => Adds(h, b) = h \o <<b>> /\ Held(b) = <<>>
<1>1. h \in Seq(Bytes) /\ <<LF>> \in Seq(Bytes) /\ <<b>> \in Seq(Bytes)
  BY HoldsType
<1>2. h \o <<>> = h /\ <<>> \o <<LF>> = <<LF>>
  BY <1>1, ConcatEmptySeq
<1>3. QED
  BY <1>2, HoldsType DEF Adds, Held

(* No byte adds more than itself and what was held back.                   *)
LEMMA AddsType ==
  ASSUME NEW h \in Holds, NEW b \in Bytes
  PROVE  /\ Adds(h, b) \in Seq(Bytes) /\ Held(b) \in Holds
         /\ Len(Adds(h, b)) + Len(Held(b)) <= 1 + Len(h)
<1>1. h \in Seq(Bytes) /\ Len(h) \in 0 .. 1
  BY HoldsType
<1>2. <<b>> \in Seq(Bytes) /\ Len(<<b>>) = 1 /\ <<LF>> \in Seq(Bytes) /\ Len(<<LF>>) = 1
  BY HoldsType
<1>3. h \o <<b>> \in Seq(Bytes) /\ Len(h \o <<b>>) = Len(h) + Len(<<b>>)
  BY <1>1, <1>2, ConcatProperties
<1>4. Held(b) \in Holds
  BY DEF Held, Holds
<1>5. Adds(h, b) \in Seq(Bytes)
  BY <1>1, <1>2, <1>3, AddsIs
<1>6. CASE b = LF
  <2>1. Adds(h, b) = <<LF>> /\ Held(b) = <<>>
    BY <1>6, AddsIs
  <2>2. Len(Adds(h, b)) = 1 /\ Len(Held(b)) = 0
    BY <2>1
  <2>3. QED
    BY <1>1, <1>4, <1>5, <2>2
<1>7. CASE b = CR
  <2>1. Adds(h, b) = h /\ Held(b) = <<CR>>
    BY <1>7, AddsIs
  <2>2. Len(Held(b)) = 1
    BY <2>1
  <2>3. QED
    BY <1>1, <1>4, <1>5, <2>1, <2>2
<1>8. CASE b # LF /\ b # CR
  <2>1. Adds(h, b) = h \o <<b>> /\ Held(b) = <<>>
    BY <1>8, AddsIs
  <2>2. Len(h \o <<b>>) = Len(h) + 1 /\ Len(Held(b)) = 0
    BY <1>3, <2>1
  <2>3. QED
    BY <1>1, <1>4, <1>5, <2>1, <2>2
<1>9. QED
  BY <1>6, <1>7, <1>8

(* StripCrBeforeLf, one byte at a time.                                    *)
LEMMA StripIs ==
  ASSUME NEW st \in Stripping, NEW b \in Bytes
  PROVE  /\ Strip(st, b).held = Held(b)
         /\ Strip(st, b).text = st.text \o Adds(st.held, b)
         /\ Strip(st, b) \in Stripping
<1> DEFINE x == IF b = LF THEN <<>> ELSE st.held
           y == IF b = CR THEN <<>> ELSE <<b>>
           s == st.text
<1>1. s \in Seq(Bytes) /\ x \in Seq(Bytes) /\ y \in Seq(Bytes)
  <2>1. s \in Seq(Bytes) /\ st.held \in Seq(Bytes)
    BY HoldsType DEF Stripping
  <2>2. <<b>> \in Seq(Bytes) /\ <<>> \in Seq(Bytes)
    OBVIOUS
  <2>3. QED
    BY <2>1, <2>2
<1>2. Strip(st, b) = [held |-> Held(b), text |-> (s \o x) \o y]
  BY DEF Strip, Held
<1>3. Adds(st.held, b) = x \o y
  BY DEF Adds
<1> HIDE DEF x, y, s
<1>4. (s \o x) \o y = s \o (x \o y)
  <2>1. Are(s, x, y)
    BY ONLY <1>1 DEF Are, Joining!AllIn
  <2>2. QED
    BY ONLY <2>1, Associative
<1>5. (s \o x) \o y \in Seq(Bytes)
  BY <1>1, ConcatProperties
<1>6. Strip(st, b) \in Stripping
  BY <1>2, <1>5, AddsType DEF Stripping, Held, Holds
<1>7. Strip(st, b).held = Held(b) /\ Strip(st, b).text = (s \o x) \o y
  BY <1>2
<1>8. QED
  BY <1>3, <1>4, <1>6, <1>7 DEF s

(* StripCrBeforeLf::feed, byte after byte.                                 *)
LEMMA FedDef ==
  ASSUME NEW cr \in Holds, NEW input \in Seq(Bytes)
  PROVE  /\ Fed(cr, input) \in [0 .. Len(input) -> Stripping]
         /\ Fed(cr, input)[0] = [held |-> cr, text |-> <<>>]
         /\ \A i \in 1 .. Len(input) :
              Fed(cr, input)[i] = Strip(Fed(cr, input)[i - 1], input[i])
<1> DEFINE A == Stripping
           n == Len(input)
           step == [i \in 1 .. n |-> [s \in A |-> Strip(s, input[i])]]
<1>0. PICK a \in A : a = [held |-> cr, text |-> <<>>]
  BY EmptySeq DEF Stripping
<1>1. n \in Nat /\ a \in A
  BY LenProperties
<1>2. \A i \in 1 .. n, s \in A : Strip(s, input[i]) \in A
  BY StripIs, ElementOfSeq
<1>3. \E g : g = [i \in 0 .. n |-> IF i = 0 THEN a ELSE Strip(g[i - 1], input[i])]
  <2> HIDE DEF A, n
  <2>1. step \in [1 .. n -> [A -> A]]
    BY <1>2
  <2>2. PICK g \in [0 .. n -> A] : g[0] = a /\ \A i \in 1 .. n : g[i] = step[i][g[i - 1]]
    <3> HIDE DEF step
    <3>1. \E g : Joining!Rounds(A, a, n, step, g)
      BY <1>1, <2>1, Joining!Recursion DEF Joining!IsLoop
    <3>2. QED
      BY <3>1 DEF Joining!Rounds
  <2>3. \A i \in 1 .. n : g[i - 1] \in A
    BY <1>1
  <2>4. ASSUME NEW i \in 1 .. n
        PROVE  g[i] = Strip(g[i - 1], input[i])
    <3>1. step[i][g[i - 1]] = Strip(g[i - 1], input[i])
      BY <2>3
    <3>2. QED
      BY <2>2, <3>1
  <2>5. \A i \in 0 .. n : i # 0 => i \in 1 .. n
    BY <1>1
  <2>6. g = [i \in 0 .. n |-> IF i = 0 THEN a ELSE Strip(g[i - 1], input[i])]
    BY <2>2, <2>4, <2>5
  <2>7. QED
    BY <2>6
<1> DEFINE f == Fed(cr, input)
<1>4. f = [i \in 0 .. n |-> IF i = 0 THEN a ELSE Strip(f[i - 1], input[i])]
  BY <1>0, <1>3 DEF Fed
<1> HIDE DEF f, n, A
<1>5. \A i \in 1 .. n : f[i] = Strip(f[i - 1], input[i])
  <2>1. \A i \in 1 .. n : i \in 0 .. n /\ i # 0
    BY <1>1
  <2>2. QED
    BY <1>4, <2>1
<1>6. f[0] = a
  <2>1. 0 \in 0 .. n
    BY <1>1
  <2>2. QED
    BY <1>4, <2>1
<1>7. f = [i \in 0 .. n |-> f[i]] /\ f[0] \in A
  BY <1>1, <1>4, <1>6
<1>8. \A i \in 1 .. n : f[i - 1] \in A => f[i] \in A
  BY <1>2, <1>5
<1>9. f \in [0 .. n -> A]
  BY <1>1, <1>7, <1>8, Joining!RecursionType DEF Joining!StaysIn
<1>10. QED
  BY <1>0, <1>5, <1>6, <1>9 DEF f, n, A

(* The strip holds a byte back for another one: the buffer it writes into  *)
(* (launch.rs:309) needs one byte more than the chunk.                     *)
LEMMA FeedFits ==
  ASSUME NEW cr \in Holds, NEW input \in Seq(Bytes)
  PROVE  /\ Feed(cr, input) \in Stripping
         /\ Len(Feed(cr, input).text) <= Len(input) + 1
<1> DEFINE f == Fed(cr, input)
           n == Len(input)
           short(st, i) == Len(st.text) + Len(st.held) <= i + Len(cr)
           S == {i \in Nat : i <= n => short(f[i], i)}
<1>1. n \in Nat /\ f \in [0 .. n -> Stripping] /\ Len(cr) \in 0 .. 1
  BY FedDef, LenProperties, HoldsType
<1>2. \A i \in 1 .. n : f[i] = Strip(f[i - 1], input[i])
  BY FedDef
<1>3. f[0] = [held |-> cr, text |-> <<>>]
  BY FedDef
<1> HIDE DEF f
<1>4. 0 \in S
  <2>1. f[0].held = cr /\ f[0].text = <<>> /\ Len(<<>>) = 0
    BY <1>3, EmptySeq
  <2>2. short(f[0], 0)
    BY <1>1, <2>1
  <2>3. QED
    BY <2>2
<1> HIDE DEF n
<1>5. ASSUME NEW i \in Nat, i + 1 <= n, short(f[i], i)
      PROVE  short(f[i + 1], i + 1)
  <2> DEFINE b == input[i + 1]
             st == f[i]
             x == Adds(st.held, b)
  <2>1. short(st, i)
    BY <1>5
  <2>2. b \in Bytes /\ st \in Stripping /\ i + 1 \in 1 .. n /\ (i + 1) - 1 = i
    BY <1>1, <1>5, ElementOfSeq DEF n
  <2>3. f[i + 1] = Strip(st, b)
    BY <1>2, <2>2
  <2> HIDE DEF b, st
  <2>4. st.held \in Holds /\ st.text \in Seq(Bytes)
    BY <2>2 DEF Stripping
  <2>5. /\ x \in Seq(Bytes) /\ Held(b) \in Holds
        /\ Len(x) + Len(Held(b)) <= 1 + Len(st.held)
    BY <2>2, <2>4, AddsType
  <2>6. f[i + 1].text = st.text \o x /\ f[i + 1].held = Held(b)
    BY <2>2, <2>3, StripIs
  <2> HIDE DEF x
  <2>7. Len(st.text \o x) = Len(st.text) + Len(x)
    BY <2>4, <2>5, ConcatProperties
  <2>8. /\ Len(st.text) \in Nat /\ Len(x) \in Nat
        /\ Len(st.held) \in Nat /\ Len(Held(b)) \in Nat
    BY <2>4, <2>5, LenProperties, HoldsType
  <2> DEFINE s == st.text
             h == st.held
             k == Held(b)
  <2>9. Len(s) + Len(h) <= i + Len(cr) /\ Len(x) + Len(k) <= 1 + Len(h)
    BY <2>1, <2>5
  <2>10. Len(s) \in Nat /\ Len(x) \in Nat /\ Len(h) \in Nat /\ Len(k) \in Nat /\ Len(cr) \in Nat
    BY <1>1, <2>8
  <2>11. Len(f[i + 1].text) = Len(s) + Len(x) /\ f[i + 1].held = k
    BY <2>6, <2>7
  <2> HIDE DEF s, h, k
  <2>12. QED
    BY <2>9, <2>10, <2>11
<1>6. \A i \in Nat : i \in S
  <2>1. ASSUME NEW i \in Nat, i \in S PROVE i + 1 \in S
    <3> HIDE DEF short
    <3>1. QED
      BY <1>1, <1>5, <2>1
  <2> HIDE DEF S
  <2>2. QED
    BY <1>4, <2>1, Joining!Induction
<1>7. f[n] \in Stripping /\ short(f[n], n)
  <2>1. n \in S
    BY <1>1, <1>6
  <2> HIDE DEF short
  <2>2. QED
    BY <1>1, <2>1
<1>8. /\ Len(f[n].text) \in Nat /\ Len(f[n].held) \in Nat
  BY <1>7, LenProperties, HoldsType DEF Stripping
<1>9. Len(f[n].text) <= n + 1
  BY <1>1, <1>7, <1>8
<1>10. QED
  BY <1>7, <1>9 DEF Feed, f, n

(* One byte of the text is stripped as StripCrBeforeLf does it.            *)
LEMMA StripOne ==
  ASSUME NEW h \in Holds, NEW b \in Bytes, NEW r \in Seq(Bytes)
  PROVE  Stripped(h \o (<<b>> \o r)) = Adds(h, b) \o Stripped(Held(b) \o r)
<1> DEFINE x == <<b>>
<1>1. h \in Seq(Bytes) /\ x \in Seq(Bytes) /\ Len(x) = 1 /\ x[1] = b /\ x # <<>>
  BY HoldsType
<1>2. Stripped(h) = h /\ Stripped(x) = x
  BY HoldsType, StrippedShort DEF Holds
<1> HIDE DEF x
<1>3. x \o r \in Seq(Bytes) /\ (x \o r)[1] = b
  BY <1>1, ConcatProperties, LenProperties
<1>4. b # LF => Stripped(h \o (x \o r)) = h \o Stripped(x \o r)
  BY <1>1, <1>2, <1>3, StrippedConcat
<1>5. b # CR => Stripped(x \o r) = x \o Stripped(r)
  BY <1>1, <1>2, StrippedConcat
<1>6. Stripped(r) \in Seq(Bytes)
  BY StrippedType
<1>7. <<>> \o r = r /\ <<>> \o (x \o r) = x \o r
  BY <1>3, ConcatEmptySeq
<1>8. CASE b = CR
  <2>1. Adds(h, b) = h /\ Held(b) = x
    BY <1>8, AddsIs DEF x
  <2>2. QED
    BY <1>4, <1>8, <2>1, HoldsType DEF x
<1>9. CASE b # CR /\ b # LF
  <2>1. Adds(h, b) = h \o x /\ Held(b) = <<>>
    BY <1>9, AddsIs DEF x
  <2>2. h \o (x \o Stripped(r)) = (h \o x) \o Stripped(r)
    <3> DEFINE t == Stripped(r)
    <3>1. Are(h, x, t)
      BY <1>1, <1>6 DEF Are, Joining!AllIn
    <3> HIDE DEF t
    <3>2. (h \o x) \o t = h \o (x \o t)
      BY ONLY <3>1, Associative
    <3>3. QED
      BY <3>2 DEF t
  <2>3. QED
    BY <1>4, <1>5, <1>7, <1>9, <2>1, <2>2 DEF x
<1>10. CASE b = LF
  <2>1. Adds(h, b) = x /\ Held(b) = <<>> /\ b # CR
    BY <1>10, AddsIs, HoldsType DEF x
  <2>2. CASE h = <<>>
    BY <1>5, <1>7, <2>1, <2>2 DEF x
  <2>3. CASE h = <<CR>>
    <3> DEFINE y == <<CR, LF>>
    <3>1. y \in Seq(Bytes) /\ Len(y) = 2 /\ y[2] = LF
      BY HoldsType
    <3>0. h \o x = y
      <4>1. <<CR>> \o <<LF>> = <<CR, LF>>
        BY Pair, HoldsType
      <4>2. QED
        BY <1>10, <2>3, <4>1 DEF x
    <3>2. h \o (x \o r) = (h \o x) \o r
      <4>1. Are(h, x, r)
        BY ONLY <1>1, r \in Seq(Bytes) DEF Are, Joining!AllIn
      <4>2. QED
        BY ONLY <4>1, Associative
    <3>3. Stripped(y) = x
      BY <1>10, StrippedShort DEF x
    <3> HIDE DEF y
    <3>4. Stripped(y \o r) = Stripped(y) \o Stripped(r)
      BY <3>1, StrippedConcat, HoldsType
    <3>5. QED
      BY <1>7, <2>1, <3>0, <3>1, <3>2, <3>3, <3>4 DEF x
  <2>4. QED
    BY <2>2, <2>3 DEF Holds
<1>11. QED
  BY <1>8, <1>9, <1>10

(* A chunk, too: the text it leaves and what it holds back are, with what  *)
(* is still to be read, what the whole text is stripped to.                *)
LEMMA FeedStrips ==
  ASSUME NEW h \in Holds, NEW p \in Seq(Bytes), NEW n \in 0 .. Len(p)
  PROVE  LET fed == Feed(h, SubSeq(p, 1, n))
         IN  Stripped(h \o p) = fed.text \o Stripped(fed.held \o SubSeq(p, n + 1, Len(p)))
<1> DEFINE input == SubSeq(p, 1, n)
           f == Fed(h, input)
           rest(i) == SubSeq(p, i + 1, Len(p))
           so(st, i) == Stripped(h \o p) = st.text \o Stripped(st.held \o rest(i))
           S == {i \in Nat : i <= n => so(f[i], i)}
<1>1. Len(p) \in Nat /\ n \in Nat /\ n <= Len(p)
  BY LenProperties
<1>2. /\ input \in Seq(Bytes) /\ Len(input) = n
      /\ \A i \in 1 .. n : input[i] = p[i]
  <2>1. \A i \in 1 .. n : p[i] \in Bytes
    BY <1>1, ElementOfSeq
  <2>2. QED
    BY <1>1, <2>1, SubSeqProperties
<1> HIDE DEF input
<1>3. f \in [0 .. n -> Stripping]
  BY <1>2, FedDef
<1>4. \A i \in 1 .. n : f[i] = Strip(f[i - 1], p[i])
  BY <1>2, FedDef
<1>5. f[0] = [held |-> h, text |-> <<>>]
  BY <1>2, FedDef
<1>6. \A i \in 0 .. n : rest(i) \in Seq(Bytes)
  <2> SUFFICES ASSUME NEW i \in 0 .. n
               PROVE  rest(i) \in Seq(Bytes)
    OBVIOUS
  <2>1. \A j \in i + 1 .. Len(p) : p[j] \in Bytes
    BY <1>1, ElementOfSeq
  <2>2. QED
    BY <1>1, <2>1, SubSeqProperties
<1> HIDE DEF f
<1>7. so(f[0], 0)
  <2>1. f[0].held = h /\ f[0].text = <<>>
    BY <1>5
  <2>2. rest(0) = p
    BY SubSeqFull
  <2>3. Stripped(h \o p) \in Seq(Bytes)
    BY StrippedType, ConcatProperties, HoldsType
  <2>4. <<>> \o Stripped(h \o p) = Stripped(h \o p)
    BY <2>3, ConcatEmptySeq
  <2> HIDE DEF rest
  <2>5. QED
    BY <2>1, <2>2, <2>4
<1>8. ASSUME NEW i \in Nat, i + 1 <= n, so(f[i], i)
      PROVE  so(f[i + 1], i + 1)
  <2> DEFINE b == p[i + 1]
             st == f[i]
             r == rest(i + 1)
             x == Adds(st.held, b)
             y == Stripped(Held(b) \o r)
             t == st.text
  <2>1. b \in Bytes /\ st \in Stripping /\ i + 1 \in 1 .. n /\ (i + 1) - 1 = i
    BY <1>1, <1>3, <1>8, ElementOfSeq
  <2>2. f[i + 1] = Strip(st, b)
    BY <1>4, <2>1
  <2>3. r \in Seq(Bytes)
    BY <1>6, <2>1
  <2>4. rest(i) = <<b>> \o r
    <3>1. i + 1 \in 1 .. Len(p) /\ Len(p) \in i + 1 .. Len(p)
      BY <1>1, <1>8
    <3>2. QED
      BY <3>1, SubSeqRecursiveFirst
  <2>5. Stripped(h \o p) = t \o Stripped(st.held \o rest(i))
    BY <1>8
  <2> HIDE DEF b, st, r, rest
  <2>6. st.held \in Holds /\ t \in Seq(Bytes)
    BY <2>1 DEF Stripping
  <2>7. Stripped(st.held \o (<<b>> \o r)) = x \o y
    BY <2>1, <2>3, <2>6, StripOne
  <2>8. f[i + 1].text = t \o x /\ f[i + 1].held = Held(b)
    BY <2>1, <2>2, StripIs
  <2>9. x \in Seq(Bytes) /\ y \in Seq(Bytes)
    <3>1. x \in Seq(Bytes) /\ Held(b) \in Holds
      BY <2>1, <2>6, AddsType
    <3>2. Held(b) \o r \in Seq(Bytes)
      BY <2>3, <3>1, HoldsType, ConcatProperties
    <3>3. QED
      BY <3>1, <3>2, StrippedType
  <2> HIDE DEF t, x
  <2>10. t \o (x \o y) = (t \o x) \o y
    <3> HIDE DEF y
    <3>1. Are(t, x, y)
      BY <2>6, <2>9 DEF Are, Joining!AllIn
    <3>2. QED
      BY ONLY <3>1, Associative
  <2>11. QED
    BY <2>4, <2>5, <2>7, <2>8, <2>10 DEF r
<1>9. \A i \in Nat : i \in S
  <2>1. 0 \in S
    BY <1>7
  <2>2. ASSUME NEW i \in Nat, i \in S
        PROVE  i + 1 \in S
    <3> HIDE DEF so
    <3>1. QED
      BY <1>1, <1>8, <2>2
  <2> HIDE DEF S
  <2>3. QED
    BY <2>1, <2>2, Joining!Induction
<1>10. so(f[n], n)
  <2>1. n \in S
    BY <1>1, <1>9
  <2> HIDE DEF so
  <2>2. QED
    BY <1>1, <2>1
<1>11. f[n] = Feed(h, input)
  BY <1>2 DEF Feed, f
<1>12. QED
  BY <1>10, <1>11 DEF input

-----------------------------------------------------------------------------
(* Cutting a text *)

(* A read takes what there is, or a chunk of it.                           *)
LEMMA MinOfTwo ==
  ASSUME NEW a \in Nat, NEW b \in Nat
  PROVE  Min({a, b}) \in Nat /\ Min({a, b}) <= a /\ Min({a, b}) <= b /\ (Min({a, b}) = a \/ Min({a,b}) = b)
<1>1. \E x \in {a, b} : \A y \in {a, b} : x <= y
  <2>1. CASE a <= b
    BY <2>1
  <2>2. CASE ~ (a <= b)
    BY <2>2
  <2>3. QED
    BY <2>1, <2>2
<1>2. Min({a, b}) \in {a, b} /\ \A y \in {a, b} : Min({a, b}) <= y
  BY <1>1 DEF Min
<1>3. QED
  BY <1>2

(* Cutting a text in two: what is left is a text of its own, and shorter. *)
LEMMA Rest ==
  ASSUME NEW s \in Seq(Bytes), NEW n \in 0 .. Len(s)
  PROVE  /\ SubSeq(s, n + 1, Len(s)) \in Seq(Bytes)
         /\ Len(SubSeq(s, n + 1, Len(s))) = Len(s) - n
         /\ \A i \in 1 .. Len(s) - n : SubSeq(s, n + 1, Len(s))[i] = s[n + i]
<1>1. Len(s) \in Nat /\ n \in Nat
  BY LenProperties
<1>2. \A i \in n + 1 .. Len(s) : s[i] \in Bytes
  BY <1>1, ElementOfSeq
<1>3. n + 1 \in Int /\ Len(s) \in Int
  BY <1>1
<1> DEFINE m == n + 1
<1> HIDE DEF m
<1>4. /\ SubSeq(s, m, Len(s)) \in Seq(Bytes)
      /\ Len(SubSeq(s, m, Len(s))) = IF m <= Len(s) THEN Len(s) - m + 1 ELSE 0
      /\ \A i \in 1 .. Len(s) - m + 1 : SubSeq(s, m, Len(s))[i] = s[m + i - 1]
  <2>1. m \in Int /\ \A i \in m .. Len(s) : s[i] \in Bytes
    BY <1>2, <1>3 DEF m
  <2>2. QED
    BY <1>3, <2>1, SubSeqProperties
<1>5. m = n + 1
  BY DEF m
<1>6. Len(SubSeq(s, m, Len(s))) = Len(s) - n
  BY <1>1, <1>4, <1>5
<1>7. ASSUME NEW i \in 1 .. Len(s) - n
      PROVE  SubSeq(s, m, Len(s))[i] = s[n + i]
  <2>1. i \in 1 .. Len(s) - m + 1 /\ m + i - 1 = n + i
    BY <1>1, <1>5
  <2>2. QED
    BY <1>4, <2>1
<1>8. QED
  BY <1>4, <1>5, <1>6, <1>7

(* What a cut leaves of a text that has not been cut through.              *)
LEMMA RestOfConcat ==
  ASSUME NEW s \in Seq(Bytes), NEW t \in Seq(Bytes), NEW n \in 0 .. Len(s)
  PROVE  SubSeq(s \o t, n + 1, Len(s \o t)) = SubSeq(s, n + 1, Len(s)) \o t
<1> DEFINE u == s \o t
           a == SubSeq(u, n + 1, Len(u))
           c == SubSeq(s, n + 1, Len(s))
           d == c \o t
<1>1. /\ u \in Seq(Bytes) /\ Len(u) = Len(s) + Len(t)
      /\ \A i \in 1 .. Len(s) + Len(t) : u[i] = IF i <= Len(s) THEN s[i] ELSE t[i - Len(s)]
  BY ConcatProperties
<1>2. Len(s) \in Nat /\ Len(t) \in Nat /\ n \in Nat /\ n <= Len(s)
  BY LenProperties
<1>3. n \in 0 .. Len(u)
  BY <1>1, <1>2
<1> HIDE DEF u
<1>4. /\ a \in Seq(Bytes) /\ Len(a) = Len(s) + Len(t) - n
      /\ \A i \in 1 .. Len(s) + Len(t) - n : a[i] = u[n + i]
  BY <1>1, <1>3, Rest
<1>5. /\ c \in Seq(Bytes) /\ Len(c) = Len(s) - n
      /\ \A i \in 1 .. Len(s) - n : c[i] = s[n + i]
  BY Rest
<1> HIDE DEF a, c
<1>6. /\ d \in Seq(Bytes) /\ Len(d) = Len(c) + Len(t)
      /\ \A i \in 1 .. Len(c) + Len(t) : d[i] = IF i <= Len(c) THEN c[i] ELSE t[i - Len(c)]
  BY <1>5, ConcatProperties
<1> HIDE DEF d
<1>7. Len(a) = Len(d)
  BY <1>2, <1>4, <1>5, <1>6
<1>8. ASSUME NEW i \in 1 .. Len(a)
      PROVE  a[i] = d[i]
  <2>1. /\ i \in 1 .. Len(s) + Len(t) - n /\ i \in 1 .. Len(c) + Len(t)
        /\ n + i \in 1 .. Len(s) + Len(t) /\ i \in Int
    BY <1>2, <1>4, <1>5
  <2>2. a[i] = IF n + i <= Len(s) THEN s[n + i] ELSE t[(n + i) - Len(s)]
    BY <1>1, <1>4, <2>1
  <2>3. d[i] = IF i <= Len(c) THEN c[i] ELSE t[i - Len(c)]
    BY <1>6, <2>1
  <2>4. (n + i <= Len(s) <=> i <= Len(c)) /\ (n + i) - Len(s) = i - Len(c)
    BY <1>2, <1>5, <2>1
  <2>5. ASSUME i <= Len(c)
        PROVE  c[i] = s[n + i]
    <3>1. i \in 1 .. Len(s) - n
      BY <1>2, <1>5, <2>1, <2>5
    <3>2. QED
      BY <1>5, <3>1, Zenon
  <2>6. QED
    BY <2>2, <2>3, <2>4, <2>5
<1>9. a = d
  BY <1>4, <1>6, <1>7, <1>8, SeqEqual
<1>10. QED
  BY <1>9 DEF a, d, c, u

-----------------------------------------------------------------------------
(* The types *)

(* The types, in three parts: flags, control and texts.                     *)
Flags == {handler, gone, logging} \subseteq BOOLEAN

Control ==
  /\ wine \in {"launching", "starting", "running", "failing", "gone", "reused", "struck"}
  /\ slaves \subseteq {"wine"} \cup Others
  /\ masters \subseteq {"wine", "pump"}
  /\ pc \in {"none", "install", "loop", "poll", "read", "write", "finish",
             "close", "wait", "ended", "killed"}
  /\ sig \in {"none", "sent", "checked"}
  /\ drain \in 0 .. DrainChunks
  /\ sigterms \in 0 .. MaxSigterms
  /\ mishaps \in 0 .. MaxMishaps

Texts ==
  /\ pty \in Seq(Bytes) /\ Len(pty) <= PtyRoom
  /\ held \in Holds
  /\ out \in Seq(Bytes) /\ Len(out) <= Chunk + 1
  /\ due \in Seq(Bytes) /\ lost \in Seq(Bytes)

(* Every part of the type invariant has a proof of its own.                *)
LEMMA TypeHasParts == TypeOK <=> Flags /\ Control /\ Texts
BY DEF TypeOK, Flags, Control, Texts, Holds

(* A flag stays one.                                                       *)
LEMMA FlagsStep ==
  ASSUME Flags, Next
  PROVE  Flags'
<1>1. /\ handler' \in {handler, TRUE}
      /\ gone' = gone \/ gone' = ~Alive
      /\ logging' \in {logging, FALSE}
  <2> USE DEF process, copying, history
  <2>1. CASE Launcher \/ LaunchFails \/ ExecFails \/ Signal \/ SendSigterm
    BY <2>1 DEF Launcher, SpawnPump, Exec, LaunchFails, ExecFails, Signal, PumpDies, HandlerChecks, HandlerKills,
       SendSigterm
  <2>2. CASE Pump \/ PtyFails \/ LogRefuses
    BY <2>2 DEF Pump, InstallHandler, CheckWine, Poll, Read, ReadEnd, WriteLog, Finish, ClosePty, WaitForWine,
       PtyFails, LogRefuses
  <2>3. CASE \/ WineWrites \/ WineExits \/ PidReused \/ LetGo("wine")
             \/ \E o \in Others : OtherWrites(o) \/ OtherStarts(o) \/ LetGo(o)
    BY <2>3 DEF WineWrites, OtherWrites, Write, WineExits, PidReused, LetGo, OtherStarts
  <2>4. QED
    BY <2>1, <2>2, <2>3 DEF Next
<1>2. QED
  BY <1>1 DEF Flags, Alive

(* The processes, the pump's place and the counters keep their types.      *)
LEMMA ControlStep ==
  ASSUME Control, Next
  PROVE  Control'
<1> USE DEF Control, process, copying, history, Move, Mishap, CloseMaster, CloseSlave
<1>00. DrainChunks \in Nat /\ MaxSigterms \in Nat /\ MaxMishaps \in Nat
  BY PumpAssumption
<1>0. ASSUME NEW who, CloseMaster(who)
      PROVE  masters' \subseteq {"wine", "pump"}
  BY <1>0
<1>01. ASSUME NEW who, CloseSlave(who)
       PROVE  slaves' \subseteq {"wine"} \cup Others
  BY <1>01
<1> HIDE DEF CloseMaster, CloseSlave
<1>1. CASE SpawnPump \/ LaunchFails \/ Exec \/ ExecFails
  <2>1. CASE SpawnPump
    BY <2>1 DEF SpawnPump
  <2>2. CASE LaunchFails
    BY <2>2 DEF LaunchFails
  <2>3. CASE Exec
    BY <1>0, <2>3 DEF Exec
  <2>4. CASE ExecFails
    BY <1>0, <2>4 DEF ExecFails
  <2>5. QED
    BY <1>1, <2>1, <2>2, <2>3, <2>4
<1>2. CASE InstallHandler \/ Poll \/ Read \/ ReadEnd \/ WriteLog
  <2>1. CASE InstallHandler
    <3>1. mishaps' \in 0 .. MaxMishaps
      BY <1>00, <2>1 DEF InstallHandler
    <3>2. QED
      BY <2>1, <3>1 DEF InstallHandler
  <2>2. CASE Poll \/ ReadEnd
    BY <2>2 DEF Poll, ReadEnd
  <2>3. CASE Read
    BY <2>3 DEF Read
  <2>4. CASE WriteLog
    BY <2>4 DEF WriteLog
  <2>5. QED
    BY <1>2, <2>1, <2>2, <2>3, <2>4
<1>3. CASE CheckWine
  <2>1. pc' \in {"finish", "poll"} /\ drain' \in 0 .. DrainChunks
    BY <1>00, <1>3 DEF CheckWine
  <2>2. UNCHANGED <<wine, slaves, masters, sig, sigterms, mishaps>>
    BY <1>3 DEF CheckWine
  <2>3. QED
    BY <2>1, <2>2
<1>4. CASE Finish \/ ClosePty \/ WaitForWine \/ PtyFails \/ LogRefuses
  <2>1. CASE Finish \/ WaitForWine
    BY <2>1 DEF Finish, WaitForWine
  <2>2. CASE ClosePty
    BY <1>0, <2>2 DEF ClosePty
  <2>3. CASE PtyFails \/ LogRefuses
    <3>1. mishaps' \in 0 .. MaxMishaps /\ pc' \in {"finish", "loop"}
      BY <1>00, <2>3 DEF PtyFails, LogRefuses
    <3>2. UNCHANGED <<wine, slaves, masters, sig, drain, sigterms>>
      BY <2>3 DEF PtyFails, LogRefuses
    <3>3. QED
      BY <3>1, <3>2
  <2>4. QED
    BY <1>4, <2>1, <2>2, <2>3
<1>5. CASE PumpDies \/ SendSigterm
  <2>1. CASE PumpDies
    BY <1>0, <2>1 DEF PumpDies
  <2>2. CASE SendSigterm
    BY <1>00, <2>2 DEF SendSigterm
  <2>3. QED
    BY <1>5, <2>1, <2>2
<1>6. CASE HandlerChecks
  BY <1>6 DEF HandlerChecks
<1>7. CASE HandlerKills
  BY <1>01, <1>7 DEF HandlerKills, WineDies
<1>8. ASSUME NEW who, NEW b, Write(who, b)
      PROVE  Control'
  BY <1>8 DEF Write
<1>9. CASE WineExits \/ PidReused
  BY <1>01, <1>9 DEF WineExits, PidReused, WineDies
<1>10. ASSUME NEW who, LetGo(who)
       PROVE  Control'
  BY <1>01, <1>10 DEF LetGo
<1>11. ASSUME NEW o \in Others, OtherStarts(o)
       PROVE  Control'
  BY <1>11 DEF OtherStarts
<1>12. QED
  BY <1>1, <1>2, <1>3, <1>4, <1>5, <1>6, <1>7, <1>8, <1>9, <1>10, <1>11
     DEF Next, Launcher, Pump, Signal, WineWrites, OtherWrites

(* So do the texts: what the terminal holds and what the pump still has to *)
(* write keep to their sizes.                                              *)
LEMMA TextsStep ==
  ASSUME Texts, Next
  PROVE  Texts'
<1> USE DEF process, copying, history
<1>0. /\ Len(pty) \in Nat /\ Len(out) \in Nat /\ Len(due) \in Nat /\ Len(held) \in Nat
      /\ CR \in Bytes /\ LF \in Bytes /\ Plain \in Bytes /\ <<>> \in Seq(Bytes) /\ Len(<<>>) = 0
      /\ pty \in Seq(Bytes) /\ out \in Seq(Bytes) /\ due \in Seq(Bytes) /\ held \in Holds
      /\ lost \in Seq(Bytes)
      /\ Len(pty) <= PtyRoom /\ Len(out) <= Chunk + 1
      /\ PtyRoom \in Nat /\ Chunk \in Nat
  BY PumpAssumption, EmptySeq, LenProperties, HoldsType DEF Bytes, Texts
<1>1. ASSUME pty' \in {pty, <<>>}, lost' \in {lost, pty}, UNCHANGED <<held, out, due>>
      PROVE  Texts'
  <2>1. pty' \in Seq(Bytes) /\ Len(pty') <= PtyRoom
    <3>1. CASE pty' = pty
      BY <1>0, <3>1
    <3>2. CASE pty' = <<>>
      BY <1>0, <3>2
    <3>3. QED
      BY <1>1, <3>1, <3>2
  <2>2. QED
    BY <1>0, <1>1, <2>1 DEF Texts
<1>2. CASE SpawnPump \/ LaunchFails \/ Exec \/ ExecFails \/ WineExits \/ PidReused
  BY <1>1, <1>2 DEF SpawnPump, LaunchFails, Exec, ExecFails, WineExits, PidReused, WineDies,
     CloseMaster, CloseSlave
<1>3. CASE InstallHandler \/ CheckWine \/ Poll \/ ReadEnd \/ ClosePty \/ WaitForWine \/ PtyFails
  BY <1>1, <1>3 DEF InstallHandler, CheckWine, Poll, ReadEnd, ClosePty, WaitForWine, PtyFails, CloseMaster
<1>4. CASE PumpDies \/ HandlerChecks \/ HandlerKills \/ SendSigterm
  BY <1>1, <1>4 DEF PumpDies, HandlerChecks, HandlerKills, SendSigterm, WineDies, CloseMaster,
     CloseSlave
<1>5. CASE Read
  <2> DEFINE n == Min({Chunk, Len(pty)})
             input == SubSeq(pty, 1, n)
             fed == IF logging THEN Feed(held, input) ELSE [held |-> held, text |-> <<>>]
  <2>1. n \in Nat /\ n <= Chunk /\ n <= Len(pty)
    BY <1>0, MinOfTwo
  <2> HIDE DEF n
  <2>2. input \in Seq(Bytes) /\ Len(input) = n
    <3>1. \A i \in 1 .. n : pty[i] \in Bytes
      BY <1>0, <2>1, ElementOfSeq
    <3>2. QED
      BY <2>1, <3>1, SubSeqProperties
  <2> HIDE DEF input
  <2>3. /\ Feed(held, input) \in Stripping
        /\ Len(Feed(held, input).text) <= n + 1
    BY <1>0, <2>2, FeedFits
  <2>4. fed.held \in Holds /\ fed.text \in Seq(Bytes) /\ Len(fed.text) <= Chunk + 1
    <3>1. CASE logging
      <4>1. Len(Feed(held, input).text) \in Nat
        BY <2>3, LenProperties DEF Stripping
      <4>2. QED
        BY <1>0, <2>1, <2>3, <3>1, <4>1 DEF Stripping
    <3>2. CASE ~logging
      BY <1>0, <3>2 DEF Holds
    <3>3. QED
      BY <3>1, <3>2
  <2>5. pty' \in Seq(Bytes) /\ Len(pty') <= PtyRoom
    <3>1. pty' = SubSeq(pty, n + 1, Len(pty))
      BY <1>5 DEF Read, n
    <3>2. n \in 0 .. Len(pty)
      BY <2>1, <1>0
    <3>3. pty' \in Seq(Bytes) /\ Len(pty') = Len(pty) - n
      BY <1>0, <3>1, <3>2, Rest
    <3>4. QED
      BY <1>0, <2>1, <3>3
  <2>6. held' = fed.held /\ out' = fed.text
    BY <1>5 DEF Read, n, input
  <2>7. UNCHANGED <<wine, slaves, masters, handler, sig, gone, drain, logging, due, lost, sigterms, mishaps>>
    BY <1>5 DEF Read
  <2> HIDE DEF fed
  <2>8. QED
    BY <1>0, <2>4, <2>5, <2>6, <2>7 DEF Texts
<1>6. CASE WriteLog
  <2>1. PICK n \in 1 .. Len(out) :
          /\ out' = SubSeq(out, n + 1, Len(out))
          /\ due' = SubSeq(due, n + 1, Len(due))
          /\ UNCHANGED <<process, pty, handler, sig, gone, drain, held, logging, lost, sigterms, mishaps>>
    BY <1>6 DEF WriteLog
  <2>2. n \in 0 .. Len(out) /\ n \in Nat
    BY <1>0
  <2>3. out' \in Seq(Bytes) /\ Len(out') = Len(out) - n
    BY <1>0, <2>1, <2>2, Rest
  <2>4. due' \in Seq(Bytes)
    <3>1. \A i \in n + 1 .. Len(due) : due[i] \in Bytes
      BY <1>0, <2>2, ElementOfSeq
    <3>2. QED
      BY <1>0, <2>1, <2>2, <3>1, SubSeqProperties
  <2>5. Len(out') <= Chunk + 1
    BY <1>0, <2>2, <2>3
  <2>6. QED
    BY <1>0, <2>1, <2>3, <2>4, <2>5 DEF Texts
<1>7. CASE LogRefuses
  BY <1>0, <1>7 DEF LogRefuses, Texts
<1>8. CASE Finish
  <2>1. due' \in Seq(Bytes)
    <3>1. \A i \in Len(held) + 1 .. Len(due) : due[i] \in Bytes
      BY <1>0, ElementOfSeq
    <3>2. SubSeq(due, Len(held) + 1, Len(due)) \in Seq(Bytes)
      BY <1>0, <3>1, SubSeqProperties
    <3>3. QED
      BY <1>0, <1>8, <3>2 DEF Finish
  <2>2. QED
    BY <1>0, <1>8, <2>1, HoldsType DEF Finish, Texts, Holds
<1>9. ASSUME NEW who, NEW b \in Bytes, Write(who, b)
       PROVE  Texts'
  <2> DEFINE c == Cooked(b)
  <2>1. c \in Seq(Bytes)
    BY <1>0 DEF Cooked
  <2>2. Len(pty) + Len(c) <= PtyRoom /\ pty' = pty \o c
    BY <1>9 DEF Write, HasRoom
  <2> HIDE DEF c
  <2>3. pty' \in Seq(Bytes) /\ Len(pty') <= PtyRoom
    BY <1>0, <2>1, <2>2, ConcatProperties
  <2>4. due \o <<b>> \in Seq(Bytes)
    <3>1. <<b>> \in Seq(Bytes)
      OBVIOUS
    <3>2. QED
      BY <1>0, <3>1, ConcatProperties
  <2>5. due' \in Seq(Bytes)
    BY <1>0, <1>9, <2>4 DEF Write
  <2>6. QED
    BY <1>0, <1>9, <2>3, <2>5 DEF Write, Texts
<1>10. ASSUME NEW who, LetGo(who) \/ OtherStarts(who)
       PROVE  Texts'
  BY <1>1, <1>10 DEF LetGo, OtherStarts, CloseSlave
<1>11. QED
  BY <1>0, <1>2, <1>3, <1>4, <1>5, <1>6, <1>7, <1>8, <1>9, <1>10
     DEF Next, Launcher, Pump, Signal, WineWrites, OtherWrites

-----------------------------------------------------------------------------
(* The pump and wine *)

(* A pump that is not running has no handler, or no wine: the handler is   *)
(* installed by a pump that runs, a SIGTERM ends one only without it, and  *)
(* wait_for_wine is what lets one end.                                     *)
PumpInv ==
  /\ wine = "launching" => pc = "none"
  /\ pc \in {"none", "install", "killed"} => ~handler
  /\ pc = "ended" => wine \notin {"launching", "starting", "running", "failing"}

(* What the launcher, wine and the other programs do leaves the pump be.   *)
Outside ==
  \/ SpawnPump \/ Exec \/ LaunchFails \/ ExecFails
  \/ WineWrites \/ WineExits \/ PidReused \/ LetGo("wine")
  \/ \E o \in Others : OtherWrites(o) \/ OtherStarts(o) \/ LetGo(o)

(* Nobody else brings an ended pump's wine to life.                        *)
LEMMA OutsideKeepsInv ==
  ASSUME PumpInv, Outside
  PROVE  PumpInv'
<1> USE DEF PumpInv
<1>1. CASE SpawnPump
  BY <1>1 DEF SpawnPump
<1>2. CASE Exec \/ LaunchFails \/ ExecFails \/ WineExits \/ PidReused
  BY <1>2 DEF Exec, LaunchFails, ExecFails, WineExits, PidReused, WineDies
<1>3. ASSUME NEW who, NEW b, Write(who, b)
      PROVE  PumpInv'
  BY <1>3 DEF Write, process
<1>4. ASSUME NEW who, LetGo(who) \/ OtherStarts(who)
      PROVE  PumpInv'
  BY <1>4 DEF LetGo, OtherStarts
<1>5. QED
  BY <1>1, <1>2, <1>3, <1>4 DEF Outside, WineWrites, OtherWrites

(* The pump ends after wine.                                               *)
LEMMA PumpKeepsInv ==
  ASSUME PumpInv, Pump \/ PtyFails \/ LogRefuses
  PROVE  PumpInv'
<1> USE DEF PumpInv, Move, process, history
<1>1. CASE InstallHandler
  BY <1>1 DEF InstallHandler
<1>2. CASE CheckWine \/ Poll \/ Read \/ ReadEnd \/ PtyFails
  BY <1>2 DEF CheckWine, Poll, Read, ReadEnd, PtyFails
<1>3. CASE WriteLog \/ LogRefuses \/ Finish \/ ClosePty
  BY <1>3 DEF WriteLog, LogRefuses, Finish, ClosePty
<1>4. CASE WaitForWine
  <2>1. wine \notin {"launching", "starting", "running", "failing"}
    BY <1>4 DEF WaitForWine, Alive
  <2>2. QED
    BY <1>4, <2>1 DEF WaitForWine
<1>5. QED
  BY <1>1, <1>2, <1>3, <1>4 DEF Pump

(* A SIGTERM ends a pump without its handler only.                         *)
LEMMA SignalKeepsInv ==
  ASSUME PumpInv, Signal \/ SendSigterm
  PROVE  PumpInv'
<1> USE DEF PumpInv, PumpAlive, process, history
<1>1. CASE PumpDies
  BY <1>1 DEF PumpDies
<1>2. CASE HandlerChecks
  BY <1>2 DEF HandlerChecks
<1>3. CASE HandlerKills
  BY <1>3 DEF HandlerKills, WineDies, Alive
<1>4. CASE SendSigterm
  BY <1>4 DEF SendSigterm
<1>5. QED
  BY <1>1, <1>2, <1>3, <1>4 DEF Signal

(* And so does every step.                                                 *)
LEMMA PumpInvStep ==
  ASSUME PumpInv, Next
  PROVE  PumpInv'
BY OutsideKeepsInv, PumpKeepsInv, SignalKeepsInv DEF Next, Launcher, Outside

(***************************************************************************)
(* Force Quit finds the handler for as long as there is a wine to kill     *)
(* (launch.rs:250), however often it is sent, whatever fails and whoever   *)
(* else writes into the pty: what kill_wine_on_sigterm installed is gone   *)
(* only with wine.                                                         *)
(***************************************************************************)
THEOREM PumpIsThereToKill == Spec => []PumpOutlivesWine
<1>1. Init => PumpInv
  BY DEF Init, PumpInv
<1>2. PumpInv /\ [Next]_vars => PumpInv'
  <2> SUFFICES ASSUME PumpInv, [Next]_vars
               PROVE  PumpInv'
    OBVIOUS
  <2>1. CASE Next
    BY <2>1, PumpInvStep
  <2>2. CASE UNCHANGED vars
    BY <2>2 DEF vars, PumpInv
  <2>3. QED
    BY <2>1, <2>2
<1>3. PumpInv => PumpOutlivesWine
  BY DEF PumpInv, PumpOutlivesWine, Alive, PumpAlive
<1>4. QED
  BY <1>1, <1>2, <1>3, PTL DEF Spec

-----------------------------------------------------------------------------
(* The copy *)

Copying == {"install", "loop", "poll", "read", "write", "finish"}

(* What is due to the log is what write_all has not written, what is held  *)
(* back and what waits in the pty, which has its master for as long as the *)
(* pump copies, or was discarded with the last slave: nothing was written  *)
(* after that.                                                             *)
PtyIsKept ==
  /\ pc = "none" => slaves = {} /\ pty = <<>> /\ lost = <<>>
  /\ lost # <<>> => slaves = {} /\ pty = <<>>
  /\ pc \in Copying => "pump" \in masters
  /\ out # <<>> => pc \in {"write", "killed"}
InLog == logging /\ pc \in Copying \cup {"none"} => due = out \o Stripped(held \o (pty \o lost))

(* The pty outlives wine for as long as the pump copies.                   *)
LEMMA CloseKeepsPty ==
  ASSUME PtyIsKept, pc \in Copying \cup {"none"}, CloseMaster("wine")
  PROVE  pty' = pty /\ (pc \in Copying => "pump" \in masters')
BY DEF PtyIsKept, CloseMaster, Copying

(* What waits in the pty when a slave is closed is there to be read, or is *)
(* on record as discarded.                                                 *)
LEMMA CloseSlaveKeeps ==
  ASSUME PtyIsKept, Texts, NEW who, CloseSlave(who)
  PROVE  /\ pty' \o lost' = pty \o lost
         /\ \/ pty' = pty /\ lost' = lost
            \/ pty' = <<>> /\ slaves # {} /\ slaves' = {}
         /\ lost' # <<>> => slaves' = {} /\ pty' = <<>>
         /\ slaves = {} => slaves' = {} /\ lost' = lost
<1>1. pty \in Seq(Bytes) /\ lost \in Seq(Bytes)
  BY DEF Texts
<1>2. CASE slaves = {who}
  <2>1. lost = <<>> /\ pty' = <<>> /\ lost' = pty /\ slaves' = {}
    BY <1>2 DEF CloseSlave, PtyIsKept
  <2>2. pty \o <<>> = pty /\ <<>> \o pty = pty
    BY <1>1, ConcatEmptySeq
  <2>3. QED
    BY <1>2, <2>1, <2>2
<1>3. CASE slaves # {who}
  BY <1>3 DEF CloseSlave, PtyIsKept
<1>4. QED
  BY <1>2, <1>3

(* The pump keeps its master to the end of the copy.                       *)
LEMMA PtyIsKeptStep ==
  ASSUME PtyIsKept, PumpInv, Texts, Next
  PROVE  PtyIsKept'
<1> USE DEF PtyIsKept, Copying, Move, process, copying, history
<1>1. CASE SpawnPump
  BY <1>1 DEF SpawnPump, PumpInv
<1>2. CASE LaunchFails
  BY <1>2 DEF LaunchFails
<1>3. CASE Exec
  BY <1>3, CloseKeepsPty DEF Exec, CloseMaster
<1>4. CASE ExecFails
  BY <1>4, CloseKeepsPty DEF ExecFails, CloseMaster
<1>04. CASE WineExits
  BY <1>04, CloseSlaveKeeps DEF WineExits, WineDies
<1>5. CASE InstallHandler \/ CheckWine
  BY <1>5 DEF InstallHandler, CheckWine
<1>6. CASE Poll \/ ReadEnd
  BY <1>6 DEF Poll, ReadEnd
<1>7. CASE Read
  BY <1>7 DEF Read
<1>8. CASE WriteLog
  <2>1. PICK n \in 1 .. Len(out) :
          /\ pc = "write" /\ pc' = IF n = Len(out) THEN "loop" ELSE "write"
          /\ out' = SubSeq(out, n + 1, Len(out))
          /\ UNCHANGED <<masters, slaves, pty, lost>>
    BY <1>8 DEF WriteLog
  <2>2. n = Len(out) => out' = <<>>
    <3>1. Len(out) \in Nat
      BY LenProperties DEF Texts
    <3>2. QED
      BY <2>1, <3>1, SubSeqEmpty
  <2>3. QED
    BY <2>1, <2>2
<1>9. CASE LogRefuses \/ Finish \/ WaitForWine \/ PtyFails
  BY <1>9 DEF LogRefuses, Finish, WaitForWine, PtyFails
<1>10. CASE ClosePty
  BY <1>10 DEF ClosePty, CloseMaster
<1>11. CASE PumpDies
  BY <1>11 DEF PumpDies, CloseMaster
<1>12. CASE HandlerChecks \/ SendSigterm
  BY <1>12 DEF HandlerChecks, SendSigterm, PumpAlive
<1>13. CASE HandlerKills
  BY <1>13, CloseSlaveKeeps DEF HandlerKills, WineDies
<1>14. ASSUME NEW who, NEW b, Write(who, b)
       PROVE  PtyIsKept'
  BY <1>14 DEF Write
<1>15. CASE PidReused
  BY <1>15 DEF PidReused
<1>16. ASSUME NEW who, LetGo(who) \/ OtherStarts(who)
       PROVE  PtyIsKept'
  BY <1>16, CloseSlaveKeeps DEF LetGo, OtherStarts
<1>17. QED
  BY <1>1, <1>2, <1>3, <1>4, <1>04, <1>5, <1>6, <1>7, <1>8, <1>9, <1>10, <1>11, <1>12, <1>13, <1>14, <1>15, <1>16
     DEF Next, Launcher, Pump, Signal, WineWrites, OtherWrites

(* No step of the copy loses, adds or changes a byte.                      *)
LEMMA InLogStep ==
  ASSUME PtyIsKept, InLog, PumpInv, Texts, Next
  PROVE  InLog'
<1> USE DEF InLog, Copying, Move, process, copying, history
<1>0. /\ Len(pty) \in Nat /\ Len(out) \in Nat /\ Len(due) \in Nat /\ Len(held) \in Nat
      /\ pty \in Seq(Bytes) /\ out \in Seq(Bytes) /\ due \in Seq(Bytes)
      /\ held \in Holds /\ held \in Seq(Bytes) /\ lost \in Seq(Bytes)
      /\ pty \o lost \in Seq(Bytes) /\ held \o (pty \o lost) \in Seq(Bytes)
      /\ Stripped(held \o (pty \o lost)) \in Seq(Bytes)
      /\ PtyRoom \in Nat /\ Chunk \in Nat
      /\ CR \in Bytes /\ LF \in Bytes /\ Plain \in Bytes
  <2>1. /\ pty \in Seq(Bytes) /\ out \in Seq(Bytes) /\ due \in Seq(Bytes) /\ lost \in Seq(Bytes)
        /\ held \in Holds /\ held \in Seq(Bytes)
    BY HoldsType DEF Texts
  <2>0. pty \o lost \in Seq(Bytes)
    BY <2>1, ConcatProperties
  <2>2. held \o (pty \o lost) \in Seq(Bytes)
    BY <2>1, <2>0, ConcatProperties
  <2>3. QED
    BY <2>0, <2>1, <2>2, StrippedType, PumpAssumption, LenProperties DEF Bytes
<1>1. CASE SpawnPump \/ LaunchFails
  BY <1>1 DEF SpawnPump, LaunchFails, PumpInv
<1>2. CASE Exec \/ ExecFails
  BY <1>2, CloseKeepsPty DEF Exec, ExecFails
<1>02. CASE WineExits \/ HandlerKills
  <2>1. pty' \o lost' = pty \o lost /\ UNCHANGED <<pc, held, out, due, logging>>
    BY <1>02, CloseSlaveKeeps DEF WineExits, HandlerKills, WineDies
  <2>2. QED
    BY <2>1
<1>3. CASE InstallHandler \/ CheckWine \/ Poll \/ ReadEnd \/ PtyFails
  BY <1>3 DEF InstallHandler, CheckWine, Poll, ReadEnd, PtyFails
<1>4. CASE Read
  <2>1. SUFFICES ASSUME logging
                 PROVE  due' = out' \o Stripped(held' \o (pty' \o lost'))
    BY <1>4 DEF Read
  <2> DEFINE n == Min({Chunk, Len(pty)})
             fed == Feed(held, SubSeq(pty, 1, n))
  <2>0. lost = <<>> /\ lost' = <<>> /\ pty \o lost = pty
    <3>1. lost = <<>> /\ lost' = <<>>
      BY <1>4 DEF Read, PtyIsKept
    <3>2. QED
      BY <1>0, <3>1, ConcatEmptySeq
  <2>2. out = <<>> /\ due = Stripped(held \o pty)
    <3>1. out = <<>> /\ due = out \o Stripped(held \o (pty \o lost))
      BY <1>4, <2>1 DEF Read, PtyIsKept
    <3>2. QED
      BY <1>0, <2>0, <3>1, ConcatEmptySeq
  <2>3. /\ pty' = SubSeq(pty, n + 1, Len(pty)) /\ held' = fed.held /\ out' = fed.text /\ due' = due
    BY <1>4, <2>1 DEF Read
  <2>4. n \in 0 .. Len(pty)
    <3>1. n \in Nat /\ n <= Len(pty)
      BY <1>0, MinOfTwo
    <3>2. QED
      BY <1>0, <3>1
  <2> HIDE DEF n
  <2>04. pty' \o lost' = pty'
    <3>1. pty' \in Seq(Bytes)
      BY <1>0, <2>3, <2>4, Rest
    <3>2. QED
      BY <2>0, <3>1, ConcatEmptySeq
  <2>5. Stripped(held \o pty) = fed.text \o Stripped(fed.held \o SubSeq(pty, n + 1, Len(pty)))
    BY <1>0, <2>4, FeedStrips
  <2> HIDE DEF fed
  <2>6. QED
    BY <2>2, <2>3, <2>5, <2>04
<1>5. CASE WriteLog
  <2>1. SUFFICES ASSUME logging
                 PROVE  due' = out' \o Stripped(held' \o (pty' \o lost'))
    <3>1. pc = "write" /\ (logging' => logging)
      BY <1>5 DEF WriteLog
    <3>2. QED
      BY <3>1
  <2>2. PICK n \in 1 .. Len(out) :
          /\ out' = SubSeq(out, n + 1, Len(out))
          /\ due' = SubSeq(due, n + 1, Len(due))
          /\ held' = held /\ pty' = pty /\ lost' = lost
    BY <1>5 DEF WriteLog
  <2> DEFINE t == Stripped(held \o (pty \o lost))
  <2>3. due = out \o t
    BY <1>5, <2>1 DEF WriteLog
  <2>4. n \in 0 .. Len(out)
    BY <1>0
  <2>5. t \in Seq(Bytes)
    BY <1>0
  <2> HIDE DEF t
  <2>6. SubSeq(out \o t, n + 1, Len(out \o t)) = SubSeq(out, n + 1, Len(out)) \o t
    BY <1>0, <2>4, <2>5, RestOfConcat
  <2>7. QED
    BY <2>2, <2>3, <2>6 DEF t
<1>6. CASE LogRefuses \/ Finish \/ WaitForWine \/ ClosePty \/ PumpDies
  BY <1>6 DEF LogRefuses, Finish, WaitForWine, ClosePty, PumpDies
<1>7. CASE HandlerChecks \/ SendSigterm
  BY <1>7 DEF HandlerChecks, SendSigterm, PumpAlive
<1>8. ASSUME NEW who, NEW b \in Bytes, Write(who, b)
      PROVE  InLog'
  <2>1. SUFFICES ASSUME logging, pc \in Copying \cup {"none"}
                 PROVE  due' = out' \o Stripped(held' \o (pty' \o lost'))
    BY <1>8 DEF Write
  <2>2. /\ pty' = pty \o Cooked(b) /\ due' = due \o <<b>>
        /\ held' = held /\ out' = out /\ due = out \o Stripped(held \o (pty \o lost))
        /\ lost = <<>> /\ lost' = <<>>
    BY <1>8, <2>1 DEF Write, PtyIsKept
  <2> DEFINE h == held
             c == Cooked(b)
             t == Stripped(h \o pty)
             one == <<b>>
             o == out
             p == pty
  <2>3. /\ c \in Seq(Bytes) /\ one \in Seq(Bytes) /\ t \in Seq(Bytes)
        /\ o \in Seq(Bytes) /\ h \in Seq(Bytes) /\ p \in Seq(Bytes)
    <3>1. h \o pty \in Seq(Bytes)
      BY <1>0, ConcatProperties
    <3>2. t \in Seq(Bytes)
      BY <3>1, StrippedType
    <3>3. QED
      BY <1>0, <3>2 DEF Cooked
  <2>4. Stripped((h \o p) \o c) = t \o one
    <3>1. h \o p \in Seq(Bytes)
      BY <2>3, ConcatProperties
    <3>2. QED
      BY <3>1, StrippedCooked
  <2> HIDE DEF h, c, t, one, o, p
  <2>5. (h \o p) \o c = h \o (p \o c)
    <3>1. Are(h, p, c)
      BY ONLY <2>3 DEF Are, Joining!AllIn
    <3>2. QED
      BY ONLY <3>1, Associative
  <2>6. (o \o t) \o one = o \o (t \o one)
    <3>1. Are(o, t, one)
      BY ONLY <2>3 DEF Are, Joining!AllIn
    <3>2. QED
      BY ONLY <3>1, Associative
  <2>7. p \o <<>> = p /\ (p \o c) \o <<>> = p \o c
    <3>1. p \o c \in Seq(Bytes)
      BY <2>3, ConcatProperties
    <3>2. QED
      BY <2>3, <3>1, ConcatEmptySeq
  <2>8. QED
    BY <2>2, <2>4, <2>5, <2>6, <2>7 DEF h, c, t, one, o, p
<1>9. CASE PidReused
  BY <1>9 DEF PidReused
<1>10. ASSUME NEW who, LetGo(who) \/ OtherStarts(who)
       PROVE  InLog'
  <2>1. pty' \o lost' = pty \o lost /\ UNCHANGED <<pc, held, out, due, logging>>
    BY <1>10, CloseSlaveKeeps DEF LetGo, OtherStarts
  <2>2. QED
    BY <2>1
<1>11. QED
  BY <1>0, <1>1, <1>2, <1>02, <1>3, <1>4, <1>5, <1>6, <1>7, <1>8, <1>9, <1>10
     DEF Next, Launcher, Pump, Signal, WineWrites, OtherWrites

-----------------------------------------------------------------------------
(* The end of the copy *)

(* Wine's bytes in p are read by t reads, with q of them lost to SIGTERMs. *)
Within(p, q, t) ==
  \A i \in 1 .. Len(p) : p[i] # Plain => i + Chunk * q <= Chunk * t

(* What so many reads take.                                                *)
LEMMA Times ==
  ASSUME NEW n \in Nat
  PROVE  /\ Chunk * n \in Nat
         /\ Chunk * (n + 1) = Chunk * n + Chunk
         /\ \A m \in 0 .. n : Chunk * m <= Chunk * n
<1>1. Chunk \in Nat
  BY PumpAssumption
<1>2. Chunk * n \in Nat /\ Chunk * (n + 1) = Chunk * n + Chunk
  BY <1>1
<1>3. ASSUME NEW m \in 0 .. n
      PROVE  Chunk * m <= Chunk * n
  BY <1>1
<1>4. QED
  BY <1>2, <1>3

(* A read takes a whole chunk of them, or all there is.                    *)
LEMMA WithinRead ==
  ASSUME NEW p \in Seq(Bytes), NEW q \in Nat, NEW t \in Nat, NEW n \in 0 .. Len(p),
         n = Chunk \/ n = Len(p), Within(p, q, t + 1)
  PROVE  Within(SubSeq(p, n + 1, Len(p)), q, t)
<1> DEFINE r == SubSeq(p, n + 1, Len(p))
<1>1. Len(p) \in Nat /\ n \in Nat /\ Chunk \in Nat
  BY LenProperties, PumpAssumption
<1>2. Len(r) = Len(p) - n /\ \A i \in 1 .. Len(p) - n : r[i] = p[n + i]
  BY Rest
<1> HIDE DEF r
<1>3. SUFFICES ASSUME NEW i \in 1 .. Len(r), r[i] # Plain
               PROVE  i + Chunk * q <= Chunk * t
  BY DEF Within, r
<1>4. n + i \in 1 .. Len(p) /\ i \in 1 .. Len(p) - n
  BY <1>1, <1>2
<1>5. p[n + i] # Plain
  BY <1>2, <1>3, <1>4
<1>6. (n + i) + Chunk * q <= Chunk * (t + 1)
  BY <1>4, <1>5 DEF Within
<1>7. n = Chunk
  BY <1>1, <1>2
<1>8. Chunk * q \in Nat /\ Chunk * t \in Nat /\ Chunk * (t + 1) = Chunk * t + Chunk
  BY Times
<1> DEFINE x == Chunk * q
           y == Chunk * t
<1> HIDE DEF x, y
<1>9. (n + i) + x <= y + Chunk /\ x \in Nat /\ y \in Nat
  BY <1>6, <1>8 DEF x, y
<1>10. i + x <= y
  BY <1>1, <1>7, <1>9
<1>11. QED
  BY <1>10 DEF x, y

(* A SIGTERM loses one read at most.                                       *)
LEMMA WithinInterrupted ==
  ASSUME NEW p \in Seq(Bytes), NEW q \in Nat, NEW t \in Nat
  PROVE  /\ Within(p, q + 1, t + 1) => Within(p, q, t)
         /\ Within(p, q + 1, t) => Within(p, q, t)
<1>1. Len(p) \in Nat /\ Chunk \in Nat
  BY LenProperties, PumpAssumption
<1>2. /\ Chunk * q \in Nat /\ Chunk * t \in Nat
      /\ Chunk * (q + 1) = Chunk * q + Chunk /\ Chunk * (t + 1) = Chunk * t + Chunk
  BY Times
<1>3. ASSUME NEW i \in Nat
      PROVE  /\ i + Chunk * (q + 1) <= Chunk * (t + 1) => i + Chunk * q <= Chunk * t
             /\ i + Chunk * (q + 1) <= Chunk * t => i + Chunk * q <= Chunk * t
  <2> DEFINE x == Chunk * q
             y == Chunk * t
  <2>1. x \in Nat /\ y \in Nat /\ Chunk * (q + 1) = x + Chunk /\ Chunk * (t + 1) = y + Chunk
    BY <1>2
  <2> HIDE DEF x, y
  <2>2. /\ i + (x + Chunk) <= y + Chunk => i + x <= y
        /\ i + (x + Chunk) <= y => i + x <= y
    BY <1>1, <2>1
  <2>3. QED
    BY <2>1, <2>2 DEF x, y
<1>4. \A i \in 1 .. Len(p) : i \in Nat
  BY <1>1
<1>5. QED
  BY <1>3, <1>4 DEF Within

(* What the others write is none of wine's bytes.                          *)
LEMMA WithinWrite ==
  ASSUME NEW p \in Seq(Bytes), NEW q \in Nat, NEW t \in Nat, Within(p, q, t)
  PROVE  Within(p \o <<Plain>>, q, t)
<1> DEFINE one == <<Plain>>
           u == p \o one
<1>1. one \in Seq(Bytes) /\ Len(one) = 1 /\ one[1] = Plain
  BY DEF Bytes
<1> HIDE DEF one
<1>2. /\ Len(u) = Len(p) + Len(one)
      /\ \A i \in 1 .. Len(p) + Len(one) : u[i] = IF i <= Len(p) THEN p[i] ELSE one[i - Len(p)]
  BY <1>1, ConcatProperties
<1> HIDE DEF u
<1>3. SUFFICES ASSUME NEW i \in 1 .. Len(u), u[i] # Plain
               PROVE  i + Chunk * q <= Chunk * t
  BY DEF Within, u, one
<1>4. Len(p) \in Nat
  BY LenProperties
<1>5. i <= Len(p) /\ u[i] = p[i]
  <2>1. CASE i <= Len(p)
    BY <1>1, <1>2, <1>4, <2>1
  <2>2. CASE ~ (i <= Len(p))
    <3>1. i - Len(p) = 1
      BY <1>1, <1>2, <1>4, <2>2
    <3>2. u[i] = one[1]
      BY <1>2, <2>2, <3>1
    <3>3. QED
      BY <1>1, <1>3, <3>2
  <2>3. QED
    BY <2>1, <2>2
<1>6. i \in 1 .. Len(p)
  BY <1>4, <1>5
<1>7. QED
  BY <1>3, <1>5, <1>6 DEF Within

(* The drain is long enough for a full pty and for every SIGTERM.          *)
LEMMA WithinDrain ==
  ASSUME NEW p \in Seq(Bytes), Len(p) <= PtyRoom, NEW q \in 0 .. MaxSigterms
  PROVE  Within(p, q, DrainChunks)
<1>1. /\ Len(p) \in Nat /\ Chunk \in Nat /\ PtyRoom \in Nat /\ MaxSigterms \in Nat
      /\ DrainChunks \in Nat
      /\ PtyRoom + Chunk * MaxSigterms <= Chunk * DrainChunks
  <2>1. /\ PtyRoom \in Nat /\ Chunk \in Nat /\ DrainChunks \in Nat /\ MaxSigterms \in Nat
        /\ Chunk * DrainChunks >= PtyRoom + Chunk * MaxSigterms
    BY PumpAssumption
  <2> DEFINE a == Chunk * DrainChunks
             b == Chunk * MaxSigterms
  <2>2. a \in Nat /\ b \in Nat
    BY <2>1, Times
  <2>3. a >= PtyRoom + b
    BY <2>1
  <2> HIDE DEF a, b
  <2>4. PtyRoom + b <= a
    BY <2>1, <2>2, <2>3
  <2>5. QED
    BY <2>1, <2>4, LenProperties DEF a, b
<1> DEFINE x == Chunk * q
           m == Chunk * MaxSigterms
           d == Chunk * DrainChunks
<1>2. x \in Nat /\ m \in Nat /\ d \in Nat /\ x <= m
  BY <1>1, Times
<1>3. PtyRoom + m <= d
  BY <1>1
<1> HIDE DEF x, m, d
<1>4. \A i \in 1 .. Len(p) : i + x <= d
  BY <1>1, <1>2, <1>3
<1>5. QED
  BY <1>4 DEF Within, x, d

(* With no read left there is none of wine's bytes left.                   *)
LEMMA WithinNothing ==
  ASSUME NEW p \in Seq(Bytes), NEW q \in Nat, Within(p, q, 0)
  PROVE  p \in Seq({Plain})
<1>1. Len(p) \in Nat /\ Chunk * q \in Nat /\ Chunk * 0 = 0
  BY LenProperties, PumpAssumption, Times
<1>2. ASSUME NEW i \in 1 .. Len(p)
      PROVE  p[i] = Plain
  <2> DEFINE x == Chunk * q
  <2>1. p[i] # Plain => i + x <= 0
    BY <1>1 DEF Within
  <2>2. x \in Nat /\ i \in Nat /\ i > 0
    BY <1>1
  <2> HIDE DEF x
  <2>3. QED
    BY <2>1, <2>2
<1>3. p = [i \in 1 .. Len(p) |-> p[i]]
  BY LenProperties
<1>4. QED
  BY <1>1, <1>2, <1>3, IsASeq

(* Wine is gone. *)
Over == wine \in {"gone", "reused", "struck"}

(* How many reads SIGTERMs may still cost, and how many are left.          *)
Interrupts == MaxSigterms - sigterms + (IF sig = "sent" THEN 1 ELSE 0)
Turns == drain + (IF pc \in {"poll", "read"} THEN 1 ELSE 0)

(* The end of the copy: the pump has seen wine gone and reads the rest of  *)
(* its output within the drain, or nobody is left to write at all; and     *)
(* what is left at the end is none of wine's, or what was discarded.       *)
SeenGone ==
  /\ gone => Over
  /\ ~gone => drain = DrainChunks
  /\ pc \in {"none", "install"} => ~gone
  /\ sig = "sent" => sigterms > 0
Draining == gone /\ pc \in {"loop", "poll", "read", "write"} => Within(pty, Interrupts, Turns)
NobodyWrites ==
  /\ pc = "read" => pty # <<>> \/ slaves = {}
  /\ mishaps = 0 /\ pc \in {"finish", "close", "wait", "ended"} => Over \/ slaves = {}
NothingOfWine ==
  /\ mishaps = 0 => logging
  /\ mishaps = 0 /\ pc = "finish" => pty \in Seq({Plain})
  /\ mishaps = 0 /\ pc \in {"close", "wait", "ended"} =>
       \/ due \in Seq({Plain})
       \/ slaves = {} /\ due = Stripped(lost)

(* A wine that is gone stays gone, and a terminal nobody holds is not given *)
(* to anybody.                                                             *)
LEMMA OverForGood ==
  ASSUME PumpInv, Next
  PROVE  /\ Over => Over'
         /\ slaves = {} /\ pc # "none" => slaves' = {}
<1> USE DEF Over, process, copying, history, Move, CloseSlave
<1>1. CASE SpawnPump \/ LaunchFails \/ Exec \/ ExecFails
  BY <1>1 DEF SpawnPump, LaunchFails, Exec, ExecFails, WineDies, PumpInv
<1>2. CASE Pump \/ PtyFails \/ LogRefuses
  BY <1>2 DEF Pump, InstallHandler, CheckWine, Poll, Read, ReadEnd, WriteLog, Finish, ClosePty,
     WaitForWine, PtyFails, LogRefuses
<1>3. CASE Signal \/ SendSigterm
  BY <1>3 DEF Signal, SendSigterm, PumpDies, HandlerChecks, HandlerKills, WineDies
<1>4. CASE WineExits \/ PidReused
  BY <1>4 DEF WineExits, PidReused, WineDies
<1>5. ASSUME NEW who, NEW b, Write(who, b)
      PROVE  UNCHANGED <<wine, slaves>>
  BY <1>5 DEF Write
<1>6. ASSUME NEW who, LetGo(who) \/ OtherStarts(who)
      PROVE  wine' = wine /\ (slaves = {} => slaves' = {})
  BY <1>6 DEF LetGo, OtherStarts
<1>7. QED
  BY <1>1, <1>2, <1>3, <1>4, <1>5, <1>6 DEF Next, Launcher, WineWrites, OtherWrites

(* wine_gone is never taken back.                                          *)
LEMMA SeenGoneStep ==
  ASSUME SeenGone, PumpInv, Control, Next
  PROVE  SeenGone'
<1> USE DEF SeenGone
<1>0. (Over => Over') /\ sigterms \in Nat
  BY OverForGood, PumpAssumption DEF Control
<1> USE DEF process, copying, history, Move
<1>1. CASE CheckWine
  <2>1. gone' => Over'
    BY <1>1 DEF CheckWine, Over, Alive, PumpInv, Control
  <2>2. ~gone' => drain' = DrainChunks
    BY <1>0, <1>1 DEF CheckWine, Over, Alive
  <2>3. sig' = sig /\ sigterms' = sigterms /\ pc' \notin {"none", "install"}
    BY <1>1 DEF CheckWine
  <2>4. QED
    BY <2>1, <2>2, <2>3
<1>2. CASE SpawnPump \/ LaunchFails \/ Exec \/ ExecFails
  BY <1>0, <1>2 DEF SpawnPump, LaunchFails, Exec, ExecFails, PumpInv
<1>3. CASE InstallHandler \/ Poll \/ Read \/ ReadEnd \/ WriteLog \/ PtyFails
  BY <1>0, <1>3 DEF InstallHandler, Poll, Read, ReadEnd, WriteLog, PtyFails
<1>4. CASE Finish \/ ClosePty \/ WaitForWine \/ LogRefuses
  BY <1>0, <1>4 DEF Finish, ClosePty, WaitForWine, LogRefuses
<1>5. CASE PumpDies \/ HandlerChecks \/ HandlerKills
  BY <1>0, <1>5 DEF PumpDies, HandlerChecks, HandlerKills, PumpAlive
<1>6. CASE SendSigterm
  BY <1>0, <1>6 DEF SendSigterm
<1>7. CASE WineExits \/ PidReused
  BY <1>0, <1>7 DEF WineExits, PidReused
<1>8. ASSUME NEW who, NEW b, Write(who, b)
      PROVE  SeenGone'
  BY <1>0, <1>8 DEF Write
<1>9. ASSUME NEW who, LetGo(who) \/ OtherStarts(who)
      PROVE  SeenGone'
  BY <1>0, <1>9 DEF LetGo, OtherStarts
<1>10. QED
  BY <1>1, <1>2, <1>3, <1>4, <1>5, <1>6, <1>7, <1>8, <1>9
     DEF Next, Launcher, Pump, Signal, WineWrites, OtherWrites

(* A SIGTERM that was not sent has interrupted nothing.                    *)
LEMMA Left ==
  ASSUME SeenGone, Control
  PROVE  Interrupts \in 0 .. MaxSigterms /\ Turns \in Nat
<1>1. MaxSigterms \in Nat /\ DrainChunks \in Nat
  BY PumpAssumption
<1>2. QED
  BY <1>1 DEF SeenGone, Control, Interrupts, Turns

(* The drain reaches the last of wine's bytes: every read takes a chunk of *)
(* them, every SIGTERM costs one read, and nobody adds to them.            *)
LEMMA DrainingStep ==
  ASSUME Draining, SeenGone, PtyIsKept, PumpInv, Control, Texts, Next
  PROVE  Draining'
<1> DEFINE Looping == {"loop", "poll", "read", "write"}
<1>0. SUFFICES ASSUME gone', pc' \in Looping
               PROVE  Within(pty, Interrupts, Turns)'
  BY DEF Draining
<1>01. /\ Interrupts \in 0 .. MaxSigterms /\ Turns \in Nat /\ Interrupts \in Nat
       /\ pty \in Seq(Bytes) /\ Len(pty) <= PtyRoom /\ Len(pty) \in Nat
       /\ MaxSigterms \in Nat /\ DrainChunks \in Nat /\ Chunk \in Nat
  BY Left, PumpAssumption, LenProperties DEF Texts
<1>02. Within(pty, Interrupts, Turns)' <=> Within(pty', Interrupts', Turns')
  BY DEF Within
<1> USE DEF process, copying, history, Move
<1>1. ASSUME gone, pc \in Looping, pty' = pty, Interrupts' = Interrupts, Turns' = Turns
      PROVE  Within(pty', Interrupts', Turns')
  BY <1>1 DEF Draining
<1>2. CASE CheckWine
  <2>1. /\ pc = "loop" /\ pc' = "poll" /\ drain' = drain - 1 /\ drain > 0
        /\ UNCHANGED <<pty, sig, sigterms>>
    BY <1>0, <1>2 DEF CheckWine
  <2>2. Interrupts' = Interrupts /\ pty' = pty
    BY <2>1 DEF Interrupts
  <2>3. drain \in Nat
    BY <1>01 DEF Control
  <2>4. CASE gone
    <3>1. Turns' = Turns
      BY <2>1, <2>3 DEF Turns
    <3>2. QED
      BY <1>1, <2>1, <2>2, <2>4, <3>1
  <2>5. CASE ~gone
    <3>1. Turns' = DrainChunks
      BY <1>01, <2>1, <2>3, <2>5 DEF Turns, SeenGone
    <3>2. QED
      BY <1>01, <2>2, <3>1, WithinDrain
  <2>6. QED
    BY <2>4, <2>5
<1>3. CASE Poll
  <2>1. /\ pc = "poll" /\ pc' = "read" /\ UNCHANGED <<gone, drain, pty, sig, sigterms>>
    BY <1>0, <1>3 DEF Poll
  <2>2. QED
    BY <1>0, <1>1, <2>1 DEF Interrupts, Turns
<1>4. CASE Read
  <2> DEFINE n == Min({Chunk, Len(pty)})
  <2>1. /\ pc = "read" /\ pc' \in {"loop", "write"} /\ pty' = SubSeq(pty, n + 1, Len(pty))
        /\ UNCHANGED <<gone, drain, sig, sigterms>>
    BY <1>4 DEF Read
  <2>2. n \in 0 .. Len(pty) /\ (n = Chunk \/ n = Len(pty))
    <3>1. n \in Nat /\ n <= Len(pty) /\ (n = Chunk \/ n = Len(pty))
      BY <1>01, MinOfTwo
    <3>2. QED
      BY <1>01, <3>1
  <2> HIDE DEF n
  <2>3. drain \in Nat
    BY <1>01 DEF Control
  <2>4. Turns = drain + 1 /\ Turns' = drain
    BY <2>1, <2>3 DEF Turns
  <2>5. Interrupts' = Interrupts
    BY <2>1 DEF Interrupts
  <2>6. Within(pty, Interrupts, drain + 1)
    BY <1>0, <2>1, <2>4 DEF Draining
  <2>7. Within(SubSeq(pty, n + 1, Len(pty)), Interrupts, drain)
    BY <1>01, <2>2, <2>3, <2>6, WithinRead
  <2>8. QED
    BY <2>1, <2>4, <2>5, <2>7
<1>5. CASE WriteLog \/ LogRefuses
  <2>1. /\ pc = "write" /\ pc' \in {"loop", "write"} /\ UNCHANGED <<gone, drain, pty, sig, sigterms>>
    BY <1>5 DEF WriteLog, LogRefuses
  <2>2. Interrupts' = Interrupts /\ Turns' = Turns
    BY <2>1 DEF Interrupts, Turns
  <2>3. QED
    BY <1>0, <1>1, <2>1, <2>2
<1>6. CASE HandlerChecks
  <2>1. /\ sig = "sent" /\ sig' \in {"checked", "none"}
        /\ pc' \in {pc, "loop"} /\ (pc \notin {"poll", "read"} => pc' = pc)
        /\ UNCHANGED <<gone, drain, pty, sigterms>>
    BY <1>6 DEF HandlerChecks
  <2>2. drain \in Nat /\ sigterms \in Nat
    BY <1>01 DEF Control
  <2>3. Interrupts = Interrupts' + 1 /\ Interrupts' \in Nat
    BY <1>01, <2>1, <2>2 DEF Interrupts, Control
  <2>4. Turns' \in Nat /\ (Turns = Turns' + 1 \/ Turns = Turns')
    BY <2>1, <2>2 DEF Turns
  <2>5. Within(pty, Interrupts, Turns)
    BY <1>0, <2>1 DEF Draining
  <2> DEFINE q == Interrupts'
             t == Turns'
  <2> HIDE DEF q, t
  <2>6. q \in Nat /\ t \in Nat /\ (Within(pty, q + 1, t + 1) \/ Within(pty, q + 1, t))
    BY <2>3, <2>4, <2>5 DEF q, t
  <2>7. Within(pty, q, t)
    BY <1>01, <2>6, WithinInterrupted
  <2>8. QED
    BY <2>1, <2>7 DEF q, t
<1>7. CASE SendSigterm
  <2>1. /\ sig = "none" /\ sig' = "sent" /\ sigterms' = sigterms + 1
        /\ UNCHANGED <<gone, drain, pty, pc>>
    BY <1>7 DEF SendSigterm
  <2>2. Interrupts' = Interrupts /\ Turns' = Turns
    <3>1. sigterms \in Nat
      BY <1>01 DEF Control
    <3>2. QED
      BY <1>01, <2>1, <3>1 DEF Interrupts, Turns
  <2>3. QED
    BY <1>0, <1>1, <2>1, <2>2
<1>08. ASSUME pty' = <<>>, Interrupts' \in Nat, Turns' \in Nat
      PROVE  Within(pty', Interrupts', Turns')
  BY <1>08, EmptySeq DEF Within
<1>8. CASE HandlerKills \/ WineExits
  <2>1. UNCHANGED <<gone, drain, pc, sigterms>> /\ ((sig = "checked" /\ sig' = "none") \/ sig' = sig)
    BY <1>8 DEF HandlerKills, InHandler, WineExits
  <2>2. pty' = pty \/ pty' = <<>>
    BY <1>8, CloseSlaveKeeps DEF HandlerKills, WineExits, WineDies
  <2>3. Interrupts' = Interrupts /\ Turns' = Turns
    BY <2>1 DEF Interrupts, Turns
  <2>4. QED
    BY <1>0, <1>01, <1>1, <1>08, <2>1, <2>2, <2>3
<1>9. CASE Exec \/ ExecFails \/ PidReused
  <2>1. UNCHANGED <<gone, drain, pc, sig, sigterms>>
    BY <1>9 DEF Exec, ExecFails, PidReused
  <2>2. pty' = pty
    BY <1>0, <1>9, <2>1, CloseKeepsPty DEF Exec, ExecFails, PidReused, Copying
  <2>3. Interrupts' = Interrupts /\ Turns' = Turns
    BY <2>1 DEF Interrupts, Turns
  <2>4. QED
    BY <1>0, <1>1, <2>1, <2>2, <2>3
<1>10. CASE InstallHandler \/ SpawnPump \/ LaunchFails
  <2>1. ~gone
    BY <1>10 DEF InstallHandler, SpawnPump, LaunchFails, SeenGone, PumpInv
  <2>2. QED
    BY <1>0, <1>10, <2>1 DEF InstallHandler, SpawnPump, LaunchFails
<1>11. CASE ReadEnd \/ Finish \/ ClosePty \/ WaitForWine \/ PtyFails \/ PumpDies
  BY <1>0, <1>11 DEF ReadEnd, Finish, ClosePty, WaitForWine, PtyFails, PumpDies
<1>12. CASE WineWrites
  BY <1>0, <1>12 DEF WineWrites, Write, SeenGone, Over
<1>13. ASSUME NEW o, OtherWrites(o)
       PROVE  Within(pty', Interrupts', Turns')
  <2>1. /\ pty' = pty \o <<Plain>> /\ UNCHANGED <<gone, drain, pc, sig, sigterms>>
    <3>1. Cooked(Plain) = <<Plain>>
      BY PumpAssumption DEF Cooked
    <3>2. QED
      BY <1>13, <3>1 DEF OtherWrites, Write
  <2>2. Interrupts' = Interrupts /\ Turns' = Turns
    BY <2>1 DEF Interrupts, Turns
  <2>3. Within(pty, Interrupts, Turns)
    BY <1>0, <2>1 DEF Draining
  <2>4. Within(pty \o <<Plain>>, Interrupts, Turns)
    BY <1>01, <2>3, WithinWrite
  <2>5. QED
    BY <2>1, <2>2, <2>4
<1>14. ASSUME NEW who, LetGo(who) \/ OtherStarts(who)
       PROVE  Within(pty', Interrupts', Turns')
  <2>1. UNCHANGED <<gone, drain, pc, sig, sigterms>> /\ (pty' = pty \/ pty' = <<>>)
    BY <1>14, CloseSlaveKeeps DEF LetGo, OtherStarts
  <2>2. Interrupts' = Interrupts /\ Turns' = Turns
    BY <2>1 DEF Interrupts, Turns
  <2>3. QED
    BY <1>0, <1>01, <1>1, <1>08, <2>1, <2>2
<1>15. QED
  BY <1>02, <1>2, <1>3, <1>4, <1>5, <1>6, <1>7, <1>8, <1>9, <1>10, <1>11, <1>12, <1>13, <1>14
     DEF Next, Launcher, Pump, Signal

(* The copy is over only when wine is.                                     *)
LEMMA NobodyWritesStep ==
  ASSUME NobodyWrites, SeenGone, PtyIsKept, PumpInv, Control, Texts, Next
  PROVE  NobodyWrites'
<1> USE DEF NobodyWrites, process, copying, history, Move
<1>0. /\ Over => Over'
      /\ slaves = {} /\ pc # "none" => slaves' = {}
      /\ mishaps \in Nat
  BY OverForGood, PumpAssumption DEF Control
<1>1. CASE CheckWine
  BY <1>0, <1>1 DEF CheckWine, Over, Alive, PumpInv, Control
<1>2. CASE Poll
  BY <1>0, <1>2 DEF Poll, SeenGone
<1>3. CASE ReadEnd
  BY <1>0, <1>3 DEF ReadEnd
<1>4. CASE Read \/ WriteLog \/ InstallHandler \/ LogRefuses
  BY <1>4 DEF Read, WriteLog, InstallHandler, LogRefuses
<1>5. CASE PtyFails
  BY <1>0, <1>5 DEF PtyFails, Mishap
<1>6. CASE Finish \/ ClosePty \/ WaitForWine
  BY <1>0, <1>6 DEF Finish, ClosePty, WaitForWine
<1>7. CASE PumpDies
  BY <1>7 DEF PumpDies
<1>8. CASE HandlerChecks \/ SendSigterm
  BY <1>0, <1>8 DEF HandlerChecks, SendSigterm
<1>9. CASE HandlerKills \/ Exec \/ ExecFails \/ WineExits \/ PidReused
  <2>1. UNCHANGED <<pc, mishaps>>
    BY <1>9 DEF HandlerKills, Exec, ExecFails, WineExits, PidReused
  <2>2. pc = "read" => pty' = pty \/ slaves' = {}
    BY <1>9, CloseKeepsPty, CloseSlaveKeeps
       DEF HandlerKills, Exec, ExecFails, WineExits, PidReused, WineDies, Copying
  <2>3. QED
    BY <1>0, <2>1, <2>2
<1>10. CASE SpawnPump \/ LaunchFails
  BY <1>0, <1>10 DEF SpawnPump, LaunchFails, PumpInv
<1>11. ASSUME NEW who, NEW b \in Bytes, Write(who, b)
       PROVE  NobodyWrites'
  <2>1. slaves # {} /\ UNCHANGED <<pc, mishaps>> /\ pty' = pty \o Cooked(b)
    BY <1>11 DEF Write
  <2>2. pty # <<>> => pty' # <<>>
    <3>1. pty \in Seq(Bytes) /\ Cooked(b) \in Seq(Bytes)
      BY HoldsType DEF Texts, Cooked
    <3>2. QED
      BY <2>1, <3>1, ConcatEqualIffEmpty, ConcatProperties, EmptySeq, LenProperties
  <2>3. QED
    BY <1>0, <2>1, <2>2
<1>12. ASSUME NEW who, LetGo(who) \/ OtherStarts(who)
       PROVE  NobodyWrites'
  <2>1. UNCHANGED <<pc, mishaps>> /\ (pty' = pty \/ slaves' = {})
    BY <1>12, CloseSlaveKeeps DEF LetGo, OtherStarts
  <2>2. QED
    BY <1>0, <1>12, <2>1 DEF LetGo, OtherStarts
<1>13. QED
  BY <1>1, <1>2, <1>3, <1>4, <1>5, <1>6, <1>7, <1>8, <1>9, <1>10, <1>11, <1>12
     DEF Next, Launcher, Pump, Signal, WineWrites, OtherWrites, Bytes

(* There is nothing to strip from what the others write.                   *)
LEMMA StrippedPlain ==
  ASSUME NEW p \in Seq({Plain})
  PROVE  /\ p \in Seq(Bytes)
         /\ Stripped(p) \in Seq({Plain})
         /\ p # <<>> => p[1] = Plain
<1>1. p \in Seq(Bytes) /\ Len(p) \in Nat
  <2>1. {Plain} \subseteq Bytes
    BY DEF Bytes
  <2>2. QED
    BY <2>1, SeqMonotonic, LenProperties
<1>2. \A i \in 1 .. Len(p) : p[i] = Plain
  BY ElementOfSeq
<1> DEFINE k == Kept(p)
           n == Len(p)
           A == Seq({Plain})
<1>3. /\ k \in [0 .. n -> Seq(Bytes)] /\ k[0] = <<>>
      /\ \A i \in 1 .. n : k[i] = k[i - 1] \o <<Plain>>
  <2>1. \A i \in 1 .. n : p[i] # CR
    BY <1>2, PumpAssumption
  <2>2. QED
    BY <1>1, <1>2, <2>1, KeptDef
<1> HIDE DEF k
<1>4. <<>> \in A /\ \A s \in A : s \o <<Plain>> \in A
  BY EmptySeq, ConcatProperties
<1> HIDE DEF A
<1>5. k \in [0 .. n -> A]
  <2> HIDE DEF n
  <2>1. n \in Nat
    BY <1>1 DEF n
  <2>2. k = [i \in 0 .. n |-> k[i]] /\ k[0] \in A
    BY <1>3, <1>4
  <2>3. \A i \in 1 .. n : k[i - 1] \in A => k[i] \in A
    BY <1>3, <1>4
  <2>4. QED
    BY <2>1, <2>2, <2>3, Joining!RecursionType DEF Joining!StaysIn
<1>6. k[n] \in A
  BY <1>1, <1>5
<1>7. p # <<>> => p[1] = Plain
  BY <1>1, <1>2, EmptySeq
<1>8. QED
  BY <1>1, <1>6, <1>7 DEF Stripped, k, A

(* A CR that an LF follows is not a byte of the text it is stripped to, and *)
(* any other one is.                                                       *)
LEMMA HeldBack ==
  ASSUME NEW p \in Seq(Bytes)
  PROVE  \/ /\ Stripped(<<CR>> \o p) = Stripped(p)
            /\ Stripped(p) # <<>> /\ Stripped(p)[1] # CR
         \/ Stripped(<<CR>> \o p) = <<CR>> \o Stripped(p)
<1>0. <<CR>> \in Seq(Bytes) /\ Len(<<CR>>) = 1 /\ <<CR>>[1] = CR /\ <<CR>> \in Holds /\ <<>> \in Holds
  BY HoldsType DEF Holds
<1>1. CASE p # <<>> /\ p[1] = LF
  <2> DEFINE r == SubSeq(p, 2, Len(p))
             x == <<LF>>
  <2>0. x \in Seq(Bytes) /\ Len(x) = 1 /\ x[1] = LF /\ LF \in Bytes
    BY HoldsType
  <2>1. r \in Seq(Bytes) /\ p = x \o r
    <3>1. Len(p) \in Nat /\ Len(p) >= 1
      BY <1>1, LenProperties, EmptySeq
    <3>2. 1 \in 0 .. Len(p) /\ 1 + 1 = 2
      BY <3>1
    <3>3. r \in Seq(Bytes) /\ Len(r) = Len(p) - 1 /\ \A i \in 1 .. Len(p) - 1 : r[i] = p[1 + i]
      BY <3>2, Rest
    <3> HIDE DEF r, x
    <3>4. /\ x \o r \in Seq(Bytes) /\ Len(x \o r) = 1 + Len(r)
          /\ \A i \in 1 .. 1 + Len(r) : (x \o r)[i] = IF i <= 1 THEN x[i] ELSE r[i - 1]
      <4>1. /\ x \o r \in Seq(Bytes) /\ Len(x \o r) = Len(x) + Len(r)
            /\ \A i \in 1 .. Len(x) + Len(r) :
                 (x \o r)[i] = IF i <= Len(x) THEN x[i] ELSE r[i - Len(x)]
        BY <2>0, <3>3, ConcatProperties
      <4>2. QED
        BY <2>0, <4>1
    <3>5. \A i \in 1 .. Len(p) : p[i] = (x \o r)[i]
      <4>1. ASSUME NEW i \in 1 .. Len(p)
            PROVE  p[i] = (x \o r)[i]
        <5>1. CASE i = 1
          BY <1>1, <2>0, <3>1, <3>3, <3>4, <5>1
        <5>2. CASE i # 1
          <6>1. i - 1 \in 1 .. Len(p) - 1 /\ 1 + (i - 1) = i
            BY <3>1, <5>2
          <6>2. r[i - 1] = p[i]
            BY <3>3, <6>1
          <6>3. (x \o r)[i] = r[i - 1]
            BY <3>1, <3>3, <3>4, <5>2
          <6>4. QED
            BY <6>2, <6>3
        <5>3. QED
          BY <5>1, <5>2
      <4>2. QED
        BY <4>1
    <3>6. Len(x \o r) = Len(p)
      BY <3>1, <3>3, <3>4
    <3>7. QED
      BY <3>3, <3>4, <3>5, <3>6, SeqEqual
  <2> HIDE DEF r
  <2>2. Stripped(<<CR>> \o (x \o r)) = Adds(<<CR>>, LF) \o Stripped(Held(LF) \o r)
    BY <1>0, <2>0, <2>1, StripOne
  <2>3. Stripped(<<>> \o (x \o r)) = Adds(<<>>, LF) \o Stripped(Held(LF) \o r)
    BY <1>0, <2>0, <2>1, StripOne
  <2>4. Adds(<<CR>>, LF) = x /\ Adds(<<>>, LF) = x
    BY <1>0, <2>0, AddsIs
  <2>5. <<>> \o (x \o r) = p
    BY <2>1, ConcatEmptySeq
  <2>6. Stripped(<<CR>> \o p) = Stripped(p)
    BY <2>1, <2>2, <2>3, <2>4, <2>5
  <2> DEFINE t == Stripped(Held(LF) \o r)
  <2>7. t \in Seq(Bytes)
    <3>1. Held(LF) = <<>> /\ <<>> \o r = r
      BY <1>0, <2>0, <2>1, AddsIs, ConcatEmptySeq
    <3>2. QED
      BY <2>1, <3>1, StrippedType
  <2>8. Stripped(p) = x \o t
    BY <2>1, <2>3, <2>4, <2>5
  <2> HIDE DEF t, x
  <2>9. Len(x \o t) = 1 + Len(t) /\ Len(t) \in Nat /\ (x \o t)[1] = LF
    <3>1. Len(t) \in Nat
      BY <2>7, LenProperties
    <3>2. /\ Len(x \o t) = Len(x) + Len(t)
          /\ \A i \in 1 .. Len(x) + Len(t) :
               (x \o t)[i] = IF i <= Len(x) THEN x[i] ELSE t[i - Len(x)]
      BY <2>0, <2>7, ConcatProperties
    <3>3. QED
      BY <2>0, <3>1, <3>2
  <2>10. x \o t # <<>>
    BY <2>9, EmptySeq
  <2>11. QED
    BY <2>6, <2>8, <2>9, <2>10, HoldsType
<1>2. CASE ~ (p # <<>> /\ p[1] = LF)
  <2>1. Stripped(<<CR>>) = <<CR>>
    BY HoldsType, StrippedShort
  <2>2. QED
    BY <1>0, <1>2, <2>1, StrippedConcat
<1>3. QED
  BY <1>1, <1>2

(* Once what is held back is logged, or was not due, what is due is the    *)
(* rest.                                                                   *)
LEMMA FinishLeaves ==
  ASSUME NEW h \in Holds, NEW p \in Seq(Bytes), NEW d, d = Stripped(h \o p)
  PROVE  (IF IsPrefix(h, d) THEN SubSeq(d, Len(h) + 1, Len(d)) ELSE d) = Stripped(p)
<1> DEFINE t == Stripped(p)
<1>1. t \in Seq(Bytes) /\ Len(t) \in Nat
  BY StrippedType, LenProperties
<1>2. CASE h = <<>>
  <2>1. d = t
    BY <1>2, ConcatEmptySeq
  <2> HIDE DEF t
  <2>2. 0 \in 0 .. Len(t)
    BY <1>1
  <2>3. SubSeq(t, 1, Len(t)) = t
    <3>1. /\ SubSeq(t, 0 + 1, Len(t)) \in Seq(Bytes)
          /\ Len(SubSeq(t, 0 + 1, Len(t))) = Len(t) - 0
          /\ \A i \in 1 .. Len(t) - 0 : SubSeq(t, 0 + 1, Len(t))[i] = t[0 + i]
      BY <1>1, <2>2, Rest
    <3>2. 0 + 1 = 1 /\ Len(t) - 0 = Len(t) /\ \A i \in 1 .. Len(t) : 0 + i = i
      BY <1>1
    <3>3. \A i \in 1 .. Len(t) : SubSeq(t, 1, Len(t))[i] = t[i]
      BY <3>1, <3>2
    <3>4. QED
      BY <1>1, <3>1, <3>2, <3>3, SeqEqual
  <2>4. QED
    BY <1>2, <2>1, <2>3, HoldsType DEF t
<1>3. CASE h = <<CR>> /\ d = t /\ t # <<>> /\ t[1] # CR
  <2> HIDE DEF t
  <2>1. Len(t) >= 1
    BY <1>1, <1>3, EmptySeq
  <2>2. SubSeq(h, 1, 1)[1] = CR /\ SubSeq(t, 1, 1)[1] = t[1]
    BY <1>1, <1>3, <2>1
  <2>3. ~ IsPrefix(h, d)
    BY <1>3, <2>2, HoldsType DEF IsPrefix
  <2>4. QED
    BY <1>3, <2>3 DEF t
<1>4. CASE h = <<CR>> /\ d = h \o t
  <2> HIDE DEF t
  <2>1. h \in Seq(Bytes) /\ Len(h) = 1 /\ 1 \in 0 .. Len(h) /\ h[1] = CR
    BY <1>4, HoldsType
  <2>2. d \in Seq(Bytes) /\ Len(d) = 1 + Len(t) /\ d[1] = CR
    <3>1. /\ h \o t \in Seq(Bytes) /\ Len(h \o t) = Len(h) + Len(t)
          /\ \A i \in 1 .. Len(h) + Len(t) :
               (h \o t)[i] = IF i <= Len(h) THEN h[i] ELSE t[i - Len(h)]
      BY <1>1, <2>1, ConcatProperties
    <3>2. Len(h \o t) = 1 + Len(t) /\ (h \o t)[1] = CR
      BY <1>1, <2>1, <3>1
    <3>3. d = h \o t
      BY <1>4
    <3>4. QED
      BY ONLY <3>1, <3>2, <3>3
  <2>3. SubSeq(h, 1, 1) = SubSeq(d, 1, 1)
    <3>1. \A i \in 1 .. 1 : h[i] \in Bytes /\ d[i] \in Bytes
      BY <2>1, <2>2, HoldsType
    <3>2. /\ SubSeq(h, 1, 1) \in Seq(Bytes) /\ Len(SubSeq(h, 1, 1)) = 1
          /\ \A i \in 1 .. 1 : SubSeq(h, 1, 1)[i] = h[1 + i - 1]
      BY <3>1, SubSeqProperties
    <3>3. /\ SubSeq(d, 1, 1) \in Seq(Bytes) /\ Len(SubSeq(d, 1, 1)) = 1
          /\ \A i \in 1 .. 1 : SubSeq(d, 1, 1)[i] = d[1 + i - 1]
      BY <3>1, SubSeqProperties
    <3>4. \A i \in 1 .. 1 : SubSeq(h, 1, 1)[i] = SubSeq(d, 1, 1)[i]
      BY <2>1, <2>2, <3>2, <3>3
    <3>5. QED
      BY <3>2, <3>3, <3>4, SeqEqual
  <2>4. IsPrefix(h, d)
    BY <1>1, <2>1, <2>2, <2>3 DEF IsPrefix
  <2>5. SubSeq(h \o t, 1 + 1, Len(h \o t)) = SubSeq(h, 1 + 1, Len(h)) \o t
    BY <1>1, <2>1, RestOfConcat
  <2>6. SubSeq(h, 1 + 1, Len(h)) = <<>>
    BY <2>1, SubSeqEmpty
  <2>7. <<>> \o t = t
    BY <1>1, ConcatEmptySeq
  <2>8. QED
    BY <1>4, <2>1, <2>4, <2>5, <2>6, <2>7 DEF t
<1>5. QED
  BY <1>2, <1>3, <1>4, HeldBack DEF Holds

(* Nothing of wine's is left behind by the copy.                           *)
LEMMA NothingOfWineStep ==
  ASSUME NothingOfWine, NobodyWrites, Draining, SeenGone, InLog, PtyIsKept, PumpInv,
         Control, Texts, Next
  PROVE  NothingOfWine'
<1> USE DEF NothingOfWine, process, copying, history, Move
<1>0. /\ mishaps \in Nat /\ drain \in Nat /\ <<>> \in Seq({Plain})
      /\ pty \in Seq(Bytes) /\ lost \in Seq(Bytes) /\ Interrupts \in Nat /\ Interrupts \in 0 .. MaxSigterms
      /\ Len(pty) <= PtyRoom
  BY PumpAssumption, EmptySeq, Left DEF Control, Texts
<1>1. CASE CheckWine
  <2>1. /\ UNCHANGED <<pty, due, logging, mishaps>> /\ pc = "loop"
        /\ pc' \in {"finish", "poll"} /\ (pc' = "finish" => drain = 0)
    BY <1>1 DEF CheckWine
  <2>2. ASSUME drain = 0
        PROVE  pty \in Seq({Plain})
    <3>1. CASE gone
      <4>1. Turns = 0
        BY <2>1, <2>2 DEF Turns
      <4>2. Within(pty, Interrupts, 0)
        BY <2>1, <3>1, <4>1 DEF Draining
      <4>3. QED
        BY <1>0, <4>2, WithinNothing
    <3>2. CASE ~gone
      <4>1. DrainChunks = 0
        BY <2>2, <3>2 DEF SeenGone
      <4>2. Within(pty, Interrupts, 0)
        BY <1>0, <4>1, WithinDrain
      <4>3. QED
        BY <1>0, <4>2, WithinNothing
    <3>3. QED
      BY <3>1, <3>2
  <2>3. QED
    BY <2>1, <2>2
<1>2. CASE Poll \/ ReadEnd
  BY <1>0, <1>2 DEF Poll, ReadEnd
<1>3. CASE PtyFails \/ LogRefuses
  BY <1>0, <1>3 DEF PtyFails, LogRefuses, Mishap
<1>4. CASE InstallHandler
  BY <1>0, <1>4 DEF InstallHandler, Mishap
<1>5. CASE Read \/ WriteLog
  BY <1>5 DEF Read, WriteLog
<1>6. CASE Finish
  <2>1. /\ pc = "finish" /\ pc' = "close" /\ UNCHANGED <<slaves, lost, logging, mishaps>>
        /\ logging => due' = IF IsPrefix(held, due) THEN SubSeq(due, Len(held) + 1, Len(due)) ELSE due
    BY <1>6 DEF Finish, HeldIsDue
  <2>2. ASSUME mishaps = 0
        PROVE  due' \in Seq({Plain}) \/ (slaves = {} /\ due' = Stripped(lost))
    <3>1. logging /\ pty \in Seq({Plain}) /\ out = <<>>
      BY <2>1, <2>2 DEF PtyIsKept
    <3> DEFINE p == pty \o lost
    <3>2. p \in Seq(Bytes) /\ held \in Holds /\ held \o p \in Seq(Bytes)
      BY <1>0, HoldsType, ConcatProperties DEF Texts
    <3>3. due = <<>> \o Stripped(held \o p)
      BY <2>1, <3>1 DEF InLog, Copying
    <3> HIDE DEF p
    <3>4. due = Stripped(held \o p)
      <4>1. Stripped(held \o p) \in Seq(Bytes)
        BY <3>2, StrippedType
      <4>2. QED
        BY <3>3, <4>1, ConcatEmptySeq
    <3>5. due' = Stripped(p)
      BY <2>1, <3>1, <3>2, <3>4, FinishLeaves
    <3>6. CASE lost = <<>>
      <4>1. p = pty
        BY <1>0, <3>6, ConcatEmptySeq DEF p
      <4>2. QED
        BY <3>1, <3>5, <4>1, StrippedPlain
    <3>7. CASE lost # <<>>
      <4>1. slaves = {} /\ pty = <<>>
        BY <3>7 DEF PtyIsKept
      <4>2. p = lost
        BY <1>0, <4>1, ConcatEmptySeq DEF p
      <4>3. QED
        BY <3>5, <4>1, <4>2
    <3>8. QED
      BY <3>6, <3>7
  <2>3. QED
    BY <2>1, <2>2
<1>7. CASE ClosePty \/ WaitForWine
  BY <1>7 DEF ClosePty, WaitForWine
<1>8. CASE PumpDies
  BY <1>8 DEF PumpDies
<1>9. CASE HandlerChecks \/ SendSigterm
  BY <1>9 DEF HandlerChecks, SendSigterm
<1>10. CASE HandlerKills \/ Exec \/ ExecFails \/ WineExits \/ PidReused
  <2>1. UNCHANGED <<pc, due, logging, mishaps>>
    BY <1>10 DEF HandlerKills, Exec, ExecFails, WineExits, PidReused
  <2>2. pc = "finish" => pty' = pty \/ pty' = <<>>
    BY <1>10, CloseKeepsPty, CloseSlaveKeeps
       DEF HandlerKills, Exec, ExecFails, WineExits, PidReused, WineDies, Copying
  <2>3. slaves = {} => slaves' = {} /\ lost' = lost
    BY <1>10, CloseSlaveKeeps DEF HandlerKills, Exec, ExecFails, WineExits, PidReused, WineDies
  <2>4. QED
    BY <1>0, <2>1, <2>2, <2>3
<1>11. CASE SpawnPump \/ LaunchFails
  BY <1>11 DEF SpawnPump, LaunchFails, PumpInv
<1>12. ASSUME NEW who, NEW b, Write(who, b), b # Plain => wine \in {"running", "failing"}
       PROVE  NothingOfWine'
  <2>1. /\ UNCHANGED <<pc, logging, mishaps>> /\ slaves # {}
        /\ pty' = pty \o Cooked(b) /\ due' = IF logging THEN due \o <<b>> ELSE due
    BY <1>12 DEF Write
  <2>2. mishaps = 0 /\ pc \in {"finish", "close", "wait", "ended"} => b = Plain
    BY <1>12, <2>1 DEF NobodyWrites, Over
  <2>3. Cooked(Plain) = <<Plain>>
    BY PumpAssumption DEF Cooked
  <2>4. \A s \in Seq({Plain}) : s \o <<Plain>> \in Seq({Plain})
    BY ConcatProperties
  <2>5. mishaps' = 0 => logging'
    BY <2>1
  <2>6. mishaps' = 0 /\ pc' = "finish" => pty' \in Seq({Plain})
    BY <2>1, <2>2, <2>3, <2>4
  <2>7. mishaps' = 0 /\ pc' \in {"close", "wait", "ended"} => due' \in Seq({Plain})
    BY <2>1, <2>2, <2>4
  <2>8. QED
    BY <2>5, <2>6, <2>7
<1>13. ASSUME NEW who, LetGo(who) \/ OtherStarts(who)
       PROVE  NothingOfWine'
  <2>1. /\ UNCHANGED <<pc, due, logging, mishaps>> /\ (pty' = pty \/ pty' = <<>>)
        /\ slaves = {} => slaves' = {} /\ lost' = lost
    BY <1>13, CloseSlaveKeeps DEF LetGo, OtherStarts
  <2>2. QED
    BY <1>0, <2>1
<1> HIDE DEF NothingOfWine
<1>14. CASE WineWrites \/ \E o \in Others : OtherWrites(o)
  <2>1. CASE WineWrites
    BY <1>12, <2>1 DEF WineWrites
  <2>2. CASE \E o \in Others : OtherWrites(o)
    BY <1>12, <2>2 DEF OtherWrites
  <2>3. QED
    BY <1>14, <2>1, <2>2
<1>15. QED
  BY <1>1, <1>2, <1>3, <1>4, <1>5, <1>6, <1>7, <1>8, <1>9, <1>10, <1>11, <1>13, <1>14
     DEF Next, Launcher, Pump, Signal

-----------------------------------------------------------------------------
(* What the log gets *)

(* The inductive invariant of the copy, and the one of its end.            *)
CopyInv == Control /\ Texts /\ PumpInv /\ PtyIsKept /\ InLog
EndInv == CopyInv /\ SeenGone /\ Draining /\ NobodyWrites /\ NothingOfWine

(***************************************************************************)
(* Every variable of the pump has its type: what is left of a chunk always *)
(* fits the buffer of CHUNK + 1 bytes that feed writes into unchecked      *)
(* (launch.rs:309), whatever was held back from the chunk before.          *)
(***************************************************************************)
THEOREM PumpTypeCorrect == Spec => []TypeOK
<1>1. Init => TypeOK
  <2> SUFFICES ASSUME Init
               PROVE  Flags /\ Control /\ Texts
    BY TypeHasParts
  <2>1. Flags
    BY DEF Init, Flags
  <2>2. Control
    BY PumpAssumption DEF Init, Control
  <2>3. Texts
    BY PumpAssumption, EmptySeq DEF Init, Texts, Holds
  <2>4. QED
    BY <2>1, <2>2, <2>3
<1>2. TypeOK /\ [Next]_vars => TypeOK'
  <2> SUFFICES ASSUME Flags, Control, Texts, [Next]_vars
               PROVE  Flags' /\ Control' /\ Texts'
    BY TypeHasParts, PTL
  <2>1. CASE Next
    BY <2>1, FlagsStep, ControlStep, TextsStep
  <2>2. CASE UNCHANGED vars
    BY <2>2 DEF vars, Flags, Control, Texts
  <2>3. QED
    BY <2>1, <2>2
<1>3. QED
  BY <1>1, <1>2, PTL DEF Spec

(* The copy keeps its invariant.                                           *)
LEMMA CopyInvariant == Spec => []CopyInv
<1>1. Init => CopyInv
  <2>1. SUFFICES ASSUME Init
                 PROVE  CopyInv
    OBVIOUS
  <2>2. <<>> \in Seq(Bytes) /\ Len(<<>>) = 0 /\ <<>> \o <<>> = <<>>
    BY EmptySeq, ConcatEmptySeq
  <2>3. Texts
    BY <2>1, <2>2, PumpAssumption DEF Init, Texts, Holds
  <2>4. Control
    BY <2>1, PumpAssumption DEF Init, Control
  <2>5. PumpInv /\ PtyIsKept
    BY <2>1 DEF Init, PumpInv, PtyIsKept, Copying
  <2>6. InLog
    BY <2>1, <2>2, StrippedShort DEF Init, InLog
  <2>7. QED
    BY <2>3, <2>4, <2>5, <2>6 DEF CopyInv
<1>2. CopyInv /\ [Next]_vars => CopyInv'
  <2> SUFFICES ASSUME CopyInv, [Next]_vars
               PROVE  CopyInv'
    OBVIOUS
  <2>1. CASE Next
    <3>1. PumpInv'
      BY <2>1, PumpInvStep DEF CopyInv
    <3>2. QED
      BY <2>1, <3>1, ControlStep, TextsStep, PtyIsKeptStep, InLogStep DEF CopyInv
  <2>2. CASE UNCHANGED vars
    BY <2>2 DEF vars, CopyInv, Control, Texts, PumpInv, PtyIsKept, InLog
  <2>3. QED
    BY <2>1, <2>2
<1>3. QED
  BY <1>1, <1>2, PTL DEF Spec

(***************************************************************************)
(* For as long as the log takes output it gets what wine and the other     *)
(* programs wrote, but for what the terminal itself discards with its last *)
(* slave: wherever the chunks, the writes to the log and the writes to the *)
(* pty cut the text, the strip takes out the CR the terminal added to an   *)
(* LF and nothing else (launch.rs:387), and no byte is lost or doubled.    *)
(***************************************************************************)
THEOREM LogIsFaithful == Spec => []LogIsWhatWasWritten
<1>1. CopyInv => LogIsWhatWasWritten
  BY DEF CopyInv, InLog, LogIsWhatWasWritten, Copying
<1>2. QED
  BY <1>1, CopyInvariant, PTL

(***************************************************************************)
(* Unless a call fails, all that wine wrote is in the log when the copy is *)
(* over (launch.rs:288): the DRAIN_CHUNKS reads the pump still makes once  *)
(* wine is gone reach its last byte, although others write into the pty    *)
(* meanwhile and every SIGTERM may cost one of them.  The exception is a   *)
(* terminal whose last slave was closed before that: the log then misses   *)
(* what macOS discarded with it (launch.rs:489), exactly.                  *)
(***************************************************************************)
THEOREM WineIsLogged == Spec => []WineIsLoggedToTheEnd
<1>1. Init => SeenGone /\ Draining /\ NobodyWrites /\ NothingOfWine
  BY PumpAssumption DEF Init, SeenGone, Draining, NobodyWrites, NothingOfWine
<1>2. EndInv /\ [Next]_vars => (SeenGone /\ Draining /\ NobodyWrites /\ NothingOfWine)'
  <2> SUFFICES ASSUME EndInv, [Next]_vars
               PROVE  SeenGone' /\ Draining' /\ NobodyWrites' /\ NothingOfWine'
    OBVIOUS
  <2>1. CASE Next
    BY <2>1, SeenGoneStep, DrainingStep, NobodyWritesStep, NothingOfWineStep DEF EndInv, CopyInv
  <2>2. CASE UNCHANGED vars
    <3>1. Interrupts' = Interrupts /\ Turns' = Turns
      BY <2>2 DEF vars, Interrupts, Turns
    <3>2. Draining'
      BY <2>2, <3>1 DEF vars, EndInv, Draining, Within
    <3>3. QED
      BY <2>2, <3>2 DEF vars, EndInv, SeenGone, NobodyWrites, NothingOfWine, Over
  <2>3. QED
    BY <2>1, <2>2
<1>3. EndInv => WineIsLoggedToTheEnd
  <2> SUFFICES ASSUME NothingOfWine, pc \in {"close", "wait", "ended"}, mishaps = 0,
                      ~ (slaves = {} /\ due = Stripped(lost)),
                      NEW i \in 1 .. Len(due)
               PROVE  due[i] = Plain
    BY DEF EndInv, WineIsLoggedToTheEnd
  <2>1. due \in Seq({Plain})
    BY DEF NothingOfWine
  <2>2. QED
    BY <2>1, ElementOfSeq
<1>4. QED
  BY <1>1, <1>2, <1>3, CopyInvariant, PTL DEF Spec, EndInv
=============================================================================
