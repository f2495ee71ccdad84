---------------------------- MODULE CommandWords ----------------------------
(***************************************************************************)
(* The words of a command line as the launcher reads and writes them       *)
(* (words.rs), and the assignments of a --config value (cli.rs).           *)
(*                                                                         *)
(* A text is a sequence of characters, where a character that the quoting  *)
(* gives no meaning may stand for a run of them.                           *)
(***************************************************************************)
EXTENDS Naturals, Sequences, SequencesExt, Selected

Single == "'"
Double == "\""
Backslash == "\\"
Space == " "

Trim(text) ==
  LET kept == {i \in DOMAIN text : text[i] # Space}
  IN IF kept = {} THEN <<>>
     ELSE SubSeq(text, CHOOSE i \in kept : \A j \in kept : i <= j,
                       CHOOSE i \in kept : \A j \in kept : j <= i)

------------------------------------------------------------------------------
(* words::split *)

(* The characters of a line, each with the one that follows it, if any.    *)
Peekable(line) ==
  [i \in DOMAIN line |-> [ch |-> line[i],
                          next |-> IF i < Len(line) THEN <<line[i + 1]>> ELSE <<>>]]

(* One character: a word is begun by anything but a space outside of       *)
(* quotes, so that quotes around nothing are an empty word; inside double  *)
(* quotes only these two are escaped.                                      *)
ReadCharacter(acc, c) ==
  LET word == IF acc.word = <<>> THEN <<>> ELSE acc.word[1]
      begun == [acc EXCEPT !.word = <<word>>]
      escapes == \/ acc.quote = <<>>
                 \/ acc.quote = <<Double>> /\ c.next \in {<<Double>>, <<Backslash>>}
  IN IF ~acc.escaped /\ acc.quote = <<>> /\ c.ch = Space
     THEN [acc EXCEPT !.words = @ \o acc.word, !.word = <<>>]
     ELSE IF ~acc.escaped /\ acc.quote = <<c.ch>> THEN [begun EXCEPT !.quote = <<>>]
     ELSE IF ~acc.escaped /\ acc.quote = <<>> /\ c.ch \in {Single, Double}
     THEN [begun EXCEPT !.quote = <<c.ch>>]
     ELSE IF ~acc.escaped /\ c.ch = Backslash /\ escapes THEN [begun EXCEPT !.escaped = TRUE]
     ELSE [acc EXCEPT !.word = <<Append(word, c.ch)>>, !.escaped = FALSE]

Reading == INSTANCE Loop WITH Step <- ReadCharacter

NoWords == [words |-> <<>>, word |-> <<>>, quote |-> <<>>, escaped |-> FALSE]

(* The words, in a sequence of its own, or none: a backslash or a quote at *)
(* the end escapes or quotes nothing.                                      *)
SplitWords(line) ==
  LET acc == Reading!Fold(NoWords, Peekable(line))
  IN IF acc.escaped \/ acc.quote # <<>> THEN <<>> ELSE <<acc.words \o acc.word>>

------------------------------------------------------------------------------
(* words::quote *)

InQuotes(word) ==
  <<Double>> \o Flat([i \in DOMAIN word |-> IF word[i] \in {Double, Backslash}
                                           THEN <<Backslash, word[i]>> ELSE <<word[i]>>])
    \o <<Double>>

(* Broken: quotes what a shell would split, and forgets the batch. *)
QuoteForShell(word) ==
  IF word # <<>> /\ ToSet(word) \cap {Space, Single, Double, Backslash} = {} THEN word
  ELSE InQuotes(word)

(* Quoted unless it needs none; a semicolon needs it for SplitAssignments. *)
QuoteWord(word) ==
  IF word # <<>> /\ ToSet(word) \cap {Space, Single, Double, Backslash, ";"} = {} THEN word
  ELSE InQuotes(word)

------------------------------------------------------------------------------
(* cli.rs, split_assignments: at the semicolons outside of quotes *)

ReadBatch(acc, ch) ==
  LET kept == [acc EXCEPT !.part = Append(@, ch), !.escaped = FALSE]
  IN IF acc.escaped THEN kept
     ELSE IF acc.quote = <<ch>> THEN [kept EXCEPT !.quote = <<>>]
     ELSE IF ch = Backslash /\ acc.quote # <<Single>> THEN [kept EXCEPT !.escaped = TRUE]
     ELSE IF acc.quote = <<>> /\ ch \in {Single, Double} THEN [kept EXCEPT !.quote = <<ch>>]
     ELSE IF acc.quote = <<>> /\ ch = ";"
     THEN [acc EXCEPT !.parts = Append(@, acc.part), !.part = <<>>]
     ELSE kept

Batching == INSTANCE Loop WITH Step <- ReadBatch

NoParts == [parts |-> <<>>, part |-> <<>>, quote |-> <<>>, escaped |-> FALSE]

SplitAssignments(raw) ==
  LET acc == Batching!Fold(NoParts, raw)
  IN Append(acc.parts, acc.part)
==============================================================================
