------------------------ MODULE CompatProcess_proofs ------------------------
(***************************************************************************)
(* Proofs about CompatProcess, for any rules, any texts of the file and    *)
(* any number of processes: every invariant that its runs check.           *)
(***************************************************************************)
EXTENDS CompatProcess, CompatRules_proofs

(* The text a process holds is one the file had, in a process with a text. *)
TextInv ==
  /\ file \in 0 .. Len(Texts)
  /\ "text" \in DOMAIN proc
  /\ proc.text # <<>> => Contains(Texts, proc.text[1])

(* Only the read puts a text into a process, and it reads what is there.   *)
LEMMA NextTextInv == TextInv /\ [Next]_vars => TextInv'
<1> SUFFICES ASSUME TextInv, [Next]_vars
             PROVE  TextInv'
  OBVIOUS
<1> USE DEF TextInv
<1>1. ASSUME NEW rule \in Catalog, Push(rule)
      PROVE  TextInv'
  BY <1>1 DEF Push
<1>2. ASSUME NEW image \in Images, NEW export \in Exports, StartWine(image, export)
      PROVE  TextInv'
  BY <1>2 DEF StartWine, NoProcess
<1>3. ASSUME NEW image, NEW app, StartChild(image, app)
      PROVE  TextInv'
  BY <1>3 DEF StartChild, NoProcess
<1>4. ASSUME NEW i \in 0 .. Len(Texts), FileChanges(i)
      PROVE  TextInv'
  BY <1>4 DEF FileChanges
<1>5. CASE CheckFile
  BY <1>5 DEF CheckFile
<1>6. CASE ReadFile
  BY <1>6 DEF ReadFile, ReadCapped, Contains
<1>7. CASE Apply
  <2>1. \E rules, res, cmd, steps, entries, block, refused :
          proc' = Rewritten(rules, res, cmd, steps, entries, block, refused)
    BY <1>7, ZenonT(60) DEF Apply
  <2>2. proc'.text = proc.text /\ "text" \in DOMAIN proc'
    BY <2>1 DEF Rewritten
  <2>3. file' = file
    BY <1>7 DEF Apply
  <2>4. QED
    BY <2>2, <2>3
<1>8. CASE UNCHANGED vars
  BY <1>8 DEF vars
<1>9. QED
  BY <1>1, <1>2, <1>3, <1>4, <1>5, <1>6, <1>7, <1>8 DEF Next

(***************************************************************************)
(* The rules a process takes from the file are those of a whole text the   *)
(* file had (rules_file::read), however often it is replaced while         *)
(* processes start.                                                        *)
(***************************************************************************)
THEOREM FileIsNeverCut == Spec => []FileIsWhole
<1>1. Init => TextInv
  BY DEF Init, TextInv, NoProcess
<1>2. TextInv => FileIsWhole
  BY DEF TextInv, FileIsWhole
<1>3. QED
  BY <1>1, <1>2, NextTextInv, PTL DEF Spec
-----------------------------------------------------------------------------

(* The launcher's table is the rules it was given, on lines of their own.  *)
TableInv ==
  /\ \E rules \in Seq(MadeRules) : table = InVariable(rules) /\ Len(rules) <= MaxRules

(* Only Push changes the launcher's table, and it adds a rule the catalog  *)
(* has.                                                                    *)
LEMMA NextTableInv == TableInv /\ [Next]_vars => TableInv'
<1> SUFFICES ASSUME TableInv, [Next]_vars
             PROVE  TableInv'
  OBVIOUS
<1>1. ASSUME NEW rule \in Catalog, Push(rule)
      PROVE  TableInv'
  <2>1. PICK rules \in Seq(MadeRules) : table = InVariable(rules) /\ Len(rules) <= MaxRules
    BY DEF TableInv
  <2>2. rule \in MadeRules
    BY CatalogAssumption, Zenon DEF MadeRules, WellMade
  <2>3. table' = InVariable(rules \o <<rule>>)
    <3>1. table' = PushRule(table, rule)
      BY <1>1 DEF Push
    <3>2. QED
      BY <2>1, <2>2, <3>1, PushedRule
  <2>4. rules \o <<rule>> \in Seq(MadeRules) /\ Len(rules \o <<rule>>) = Len(rules) + 1
    BY <2>2
  <2>5. Len(table) = Len(rules)
    BY <2>1, TableIs
  <2>6. Len(table) < MaxRules
    BY <1>1 DEF Push
  <2>7. Len(rules \o <<rule>>) <= MaxRules
    BY <2>4, <2>5, <2>6, BoundsAssumption
  <2> HIDE DEF TableInv
  <2>8. QED
    BY <2>3, <2>4, <2>7, Zenon DEF TableInv
<1>2. CASE UNCHANGED table
  BY <1>2 DEF TableInv
<1>3. QED
  BY <1>1, <1>2 DEF Next, vars, StartWine, StartChild, FileChanges, CheckFile, ReadFile, Apply

(* The launcher begins with no rules.                                      *)
LEMMA InitTableInv == Init => TableInv
<1> SUFFICES ASSUME Init
             PROVE  TableInv
  OBVIOUS
<1> DEFINE none == <<>>
<1>1. none \in Seq(MadeRules) /\ Len(none) = 0
  OBVIOUS
<1>2. InVariable(none) = <<>>
  BY Joining!EmptyInSeq DEF InVariable
<1>3. table = <<>>
  BY DEF Init
<1> HIDE DEF none
<1>4. table = InVariable(none) /\ Len(none) <= MaxRules
  BY <1>1, <1>2, <1>3, BoundsAssumption
<1>5. QED
  BY <1>1, <1>4 DEF TableInv

(* The text of WINE_COMPATDB reads back *)
THEOREM VariableReadsBack == Spec => []TextReadsBack
<1>1. TableInv => TextReadsBack
  BY TableBack, Zenon DEF TableInv, TextReadsBack
<1>2. QED
  BY <1>1, InitTableInv, NextTableInv, PTL DEF Spec

Phases == {"none", "started", "checked", "gathered", "running"}

(* A process is a record with all its parts.                               *)
IsProcess(p) ==
  p = [phase |-> p.phase, image |-> p.image, inline |-> p.inline, text |-> p.text,
       cmd |-> p.cmd, unix |-> p.unix, block |-> p.block, given |-> p.given, rules |-> p.rules,
       res |-> p.res, steps |-> p.steps, refused |-> p.refused]

Texts1(arguments) == [i \in DOMAIN arguments |-> arguments[i].text]

(* What Apply makes of a process.                                          *)
Applied(p) ==
  /\ p.given = <<p.given[1]>>
  /\ DOMAIN p.given[1].unix = Names /\ DOMAIN p.given[1].block = Blocks
  /\ p.rules = CallersRules(p.inline, p.text)
  /\ p.res = FoldDerivedEnv(Resolve(BuiltInTable \o p.rules, Image(p.image, p.given[1].block)))
  /\ p.steps = EnvSteps(p.res.env, Has(p.given[1].unix, p.given[1].block))
  /\ p.cmd = IF "cmd" \in p.refused THEN p.given[1].cmd
             ELSE AppendArguments(p.given[1].cmd, Texts1(p.res.arguments))
  /\ p.block = IF "block" \in p.refused THEN p.given[1].block
               ELSE MergeEnv(p.given[1].block, AppliedEntries(p.steps))
  /\ p.unix = UnixEnv(p.given[1].unix, AppliedEntries(p.steps))

ProcInv ==
  /\ IsProcess(proc)
  /\ proc.phase \in Phases
  /\ DOMAIN proc.unix = Names /\ DOMAIN proc.block = Blocks
  /\ file \in 0 .. Len(Texts)
  /\ proc.text # <<>> =>
       \E i \in DOMAIN Texts : proc.text = <<Texts[i]>> /\ Len(Texts[i]) <= MaxBytes
  /\ proc.phase # "none" => proc.inline = Display(table)
  /\ proc.phase = "running" => Applied(proc)
  /\ proc.phase # "running" => proc.res = NoResolution

(* The loops over the entries change values, and no names.                 *)
LEMMA MergeEnvType ==
  ASSUME NEW S, NEW entries \in Seq(S)
  PROVE  /\ \A block : DOMAIN MergeEnv(block, entries) = DOMAIN block
         /\ \A unix : DOMAIN UnixEnv(unix, entries) = DOMAIN unix
<1>1. ASSUME NEW block
      PROVE  DOMAIN MergeEnv(block, entries) = DOMAIN block
  <2> DEFINE st == InBlock!States(block, entries)
             T == {n \in Nat : n <= Len(entries) => DOMAIN st[n] = DOMAIN block}
  <2>0. Len(entries) \in Nat
    OBVIOUS
  <2>1. st[0] = block /\ \A i \in 1 .. Len(entries) : st[i] = MergeEntry(st[i - 1], entries[i])
    BY <2>0, InBlock!StatesStep
  <2> HIDE DEF st
  <2>2. 0 \in T
    BY <2>1
  <2>3. ASSUME NEW n \in Nat, n \in T
        PROVE  n + 1 \in T
    <3>1. CASE n + 1 <= Len(entries)
      <4>1. n + 1 \in 1 .. Len(entries) /\ (n + 1) - 1 = n /\ n <= Len(entries)
        BY <2>0, <3>1
      <4>2. st[n + 1] = MergeEntry(st[n], entries[n + 1])
        BY <2>1, <4>1
      <4>3. DOMAIN MergeEntry(st[n], entries[n + 1]) = DOMAIN st[n]
        BY DEF MergeEntry
      <4>4. DOMAIN st[n] = DOMAIN block
        BY <2>3, <4>1
      <4>5. QED
        BY <4>2, <4>3, <4>4
    <3>2. QED
      BY <3>1
  <2> HIDE DEF T
  <2>4. \A n \in Nat : n \in T
    BY <2>2, <2>3, Joining!Induction
  <2>5. QED
    BY <2>0, <2>4 DEF T, MergeEnv, InBlock!Fold, st
<1>2. ASSUME NEW unix
      PROVE  DOMAIN UnixEnv(unix, entries) = DOMAIN unix
  <2> DEFINE st == InUnix!States(unix, entries)
             T == {n \in Nat : n <= Len(entries) => DOMAIN st[n] = DOMAIN unix}
  <2>0. Len(entries) \in Nat
    OBVIOUS
  <2>1. st[0] = unix /\ \A i \in 1 .. Len(entries) : st[i] = SetEnv(st[i - 1], entries[i])
    BY <2>0, InUnix!StatesStep
  <2> HIDE DEF st
  <2>2. 0 \in T
    BY <2>1
  <2>3. ASSUME NEW n \in Nat, n \in T
        PROVE  n + 1 \in T
    <3>1. CASE n + 1 <= Len(entries)
      <4>1. n + 1 \in 1 .. Len(entries) /\ (n + 1) - 1 = n /\ n <= Len(entries)
        BY <2>0, <3>1
      <4>2. st[n + 1] = SetEnv(st[n], entries[n + 1])
        BY <2>1, <4>1
      <4>3. DOMAIN SetEnv(st[n], entries[n + 1]) = DOMAIN st[n]
        BY DEF SetEnv
      <4>4. DOMAIN st[n] = DOMAIN unix
        BY <2>3, <4>1
      <4>5. QED
        BY <4>2, <4>3, <4>4
    <3>2. QED
      BY <3>1
  <2> HIDE DEF T
  <2>4. \A n \in Nat : n \in T
    BY <2>2, <2>3, Joining!Induction
  <2>5. QED
    BY <2>0, <2>4 DEF T, UnixEnv, InUnix!Fold, st
<1>3. QED
  BY <1>1, <1>2

(* What is read of the file is rules of its names.                         *)
LEMMA FileType ==
  ASSUME NEW i \in DOMAIN Texts
  PROVE  /\ ParseText("file", Texts[i]).table \in Seq(TableEntries)
         /\ \A k \in 1 .. Len(ParseText("file", Texts[i]).table) :
              ParseText("file", Texts[i]).table[k].source.text = "file"
         /\ AllHome(ParseText("file", Texts[i]).table, "file", Split(Texts[i], "newline"))
<1> DEFINE text == Texts[i]
           t == ParseText("file", text).table
           lines == Split(text, "newline")
<1>1. text \in AnyText
  BY TextsAssumption
<1>2. \A k \in DOMAIN t : \A j \in DOMAIN t[k].rule.env : t[k].rule.env[j].name \in Names
  BY TextsAssumption
<1>3. lines \in Seq(AnyText)
  BY <1>1, SplitType DEF AnyText
<1>4. AllHome(t, "file", lines)
  BY <1>1, ParseHome
<1> HIDE DEF text, t, lines
<1>5. DOMAIN t = 1 .. Len(t) /\ Len(t) \in Nat /\ \A n \in 1 .. Len(t) : IsHome(t[n], "file", lines)
  BY <1>4 DEF AllHome
<1>6. ASSUME NEW n \in 1 .. Len(t)
      PROVE  t[n] \in TableEntries /\ t[n].source.text = "file"
  <2> DEFINE e == t[n]
             r == e.rule
             env == r.env
  <2>1. IsHome(e, "file", lines)
    BY <1>5
  <2>2. \A j \in DOMAIN env : env[j].name \in Names
    BY <1>2, <1>5
  <2> HIDE DEF e
  <2>3. /\ r \in TextRules /\ e.source.line \in Nat
        /\ e = [source |-> [text |-> "file", line |-> e.source.line], rule |-> r]
    <3>1. /\ e.source.line \in DOMAIN lines /\ r \in TextRules
          /\ e = [source |-> [text |-> "file", line |-> e.source.line], rule |-> r]
      BY <2>1 DEF IsHome
    <3>2. QED
      BY <1>3, <3>1
  <2> HIDE DEF r
  <2>4. env \in Seq(NamedEntries)
    BY <2>3 DEF TextRules
  <2>5. env \in Seq([name : Names, value : AnyText])
    <3> HIDE DEF env
    <3>1. \A j \in 1 .. Len(env) : env[j] \in NamedEntries /\ env[j].name \in Names
      BY <2>2, <2>4
    <3>2. \A j \in 1 .. Len(env) : env[j] \in [name : Names, value : AnyText]
      BY <3>1 DEF NamedEntries
    <3> DEFINE T == [name : Names, value : AnyText]
    <3>2a. \A j \in 1 .. Len(env) : env[j] \in T
      BY <3>2
    <3> HIDE DEF T
    <3>3. env \in Seq(T)
      BY <2>4, <3>2a, SeqIn
    <3>4. QED
      BY <3>3 DEF T
  <2>6. r \in Rule
    BY <2>3, <2>5 DEF TextRules, Rule
  <2>7. e \in TableEntries /\ e.source.text = "file"
    BY <2>3, <2>6 DEF TableEntries, Sources
  <2>8. QED
    BY <2>7 DEF e
<1>7. t \in Seq(TableEntries)
  <2>1. t = [n \in 1 .. Len(t) |-> t[n]] /\ Len(t) \in Nat
    BY <1>4, Zenon DEF AllHome
  <2>2. \A n \in 1 .. Len(t) : t[n] \in TableEntries
    BY <1>6
  <2>3. QED
    BY <2>1, <2>2
<1>8. QED
  BY <1>4, <1>6, <1>7 DEF t, text, lines

(* What rules_file gave is nothing, or one of the texts the file had.      *)
IsRead(text) == text = <<>> \/ \E i \in DOMAIN Texts : text = <<Texts[i]>>

LineOf(entry, inline, text) ==
  Split(IF entry.source.text = "file" THEN text[1] ELSE inline, "newline")

(* The caller's rules are entries of the variable and the file, each on a  *)
(* line of its text that holds it.                                         *)
IsOwn(entry, inline, text) ==
  /\ entry.source.text # "built-in"
  /\ entry.source.line \in DOMAIN LineOf(entry, inline, text)
  /\ ReadRecord(LineOf(entry, inline, text)[entry.source.line]).rule = <<entry.rule>>

(* What a process reads of the variable is the launcher's table, each      *)
(* entry from its own line (WINE_COMPATDB, parse).                         *)
LEMMA VariableIsHome ==
  ASSUME NEW rules \in Seq(MadeRules), NEW text
  PROVE  LET inline == Display(InVariable(rules))
             t == ParseText("variable", inline).table
         IN /\ t = InVariable(rules)
            /\ \A k \in 1 .. Len(t) : IsOwn(t[k], inline, text)
<1> DEFINE inline == Display(InVariable(rules))
           t == ParseText("variable", inline).table
<1>1. t = InVariable(rules)
  <2>1. ParseText("variable", inline) = [table |-> InVariable(rules), bad |-> 0]
    BY TableBack, Zenon
  <2> HIDE DEF inline
  <2>2. QED
    BY <2>1
<1>2. inline \in AnyText
  BY DisplayType
<1> HIDE DEF inline
<1>3. AllHome(t, "variable", Split(inline, "newline"))
  BY <1>2, ParseHome, Zenon
<1> HIDE DEF t
<1>4. \A k \in 1 .. Len(t) : IsHome(t[k], "variable", Split(inline, "newline"))
  BY <1>3, Zenon DEF AllHome
<1>5. ASSUME NEW k \in 1 .. Len(t)
      PROVE  IsOwn(t[k], inline, text)
  <2> DEFINE e == t[k]
             lines == Split(inline, "newline")
  <2>1. IsHome(e, "variable", lines)
    BY <1>4
  <2> HIDE DEF e, lines
  <2>2. e = [source |-> [text |-> "variable", line |-> e.source.line], rule |-> e.rule]
        /\ e.source.line \in DOMAIN lines
        /\ ReadRecord(lines[e.source.line]).rule = <<e.rule>>
    BY <2>1, Zenon DEF IsHome
  <2>3. e.source.text = "variable"
    BY <2>2
  <2>4. LineOf(e, inline, text) = lines
    BY <2>3 DEF LineOf, lines
  <2>5. IsOwn(e, inline, text)
    BY <2>2, <2>3, <2>4 DEF IsOwn
  <2>6. QED
    BY <2>5 DEF e
<1>6. QED
  BY <1>1, <1>5 DEF inline, t

(* What a process reads of a text of the file is entries that their lines  *)
(* read as.                                                                *)
LEMMA FileIsHome ==
  ASSUME NEW i \in DOMAIN Texts, NEW inline
  PROVE  LET t == ParseText("file", Texts[i]).table
         IN \A k \in 1 .. Len(t) : IsOwn(t[k], inline, <<Texts[i]>>)
<1> DEFINE t == ParseText("file", Texts[i]).table
           lines == Split(Texts[i], "newline")
<1>3. AllHome(t, "file", lines)
  BY FileType, Zenon
<1> HIDE DEF t, lines
<1>4. \A k \in 1 .. Len(t) : IsHome(t[k], "file", lines)
  BY <1>3, Zenon DEF AllHome
<1>5. ASSUME NEW k \in 1 .. Len(t)
      PROVE  IsOwn(t[k], inline, <<Texts[i]>>)
  <2> DEFINE e == t[k]
             text == <<Texts[i]>>
  <2>1. IsHome(e, "file", lines)
    BY <1>4
  <2>0. text[1] = Texts[i]
    OBVIOUS
  <2> HIDE DEF e, text
  <2>2. e = [source |-> [text |-> "file", line |-> e.source.line], rule |-> e.rule]
        /\ e.source.line \in DOMAIN lines
        /\ ReadRecord(lines[e.source.line]).rule = <<e.rule>>
    BY <2>1, Zenon DEF IsHome
  <2>3. e.source.text = "file"
    BY <2>2
  <2>4. LineOf(e, inline, text) = lines
    BY <2>0, <2>3 DEF LineOf, lines
  <2>5. IsOwn(e, inline, text)
    BY <2>2, <2>3, <2>4 DEF IsOwn
  <2>6. QED
    BY <2>5 DEF e, text
<1>6. QED
  BY <1>5 DEF t

(* What a process gathers: the launcher's table and then the file's rules, *)
(* each from its own line; without a file the table alone (rules_file,     *)
(* run).                                                                   *)
LEMMA CallersAre ==
  ASSUME NEW rules \in Seq(MadeRules), NEW text, IsRead(text)
  PROVE  LET inline == Display(InVariable(rules))
             c == CallersRules(inline, text)
         IN /\ c \in Seq(TableEntries)
            /\ \A k \in 1 .. Len(c) : IsOwn(c[k], inline, text)
            /\ text = <<>> => c = InVariable(rules)
<1> DEFINE inline == Display(InVariable(rules))
           v == ParseText("variable", inline).table
           own == InVariable(rules)
           c == CallersRules(inline, text)
<1>1. v = own /\ \A k \in 1 .. Len(v) : IsOwn(v[k], inline, text)
  BY VariableIsHome
<1>2. own \in Seq(TableEntries)
  BY InVariableType
<1> HIDE DEF own
<1> DEFINE none == <<>>
<1>3. CASE text = none
  <2>1. c = v \o none
    BY <1>3, Zenon DEF CallersRules
  <2> HIDE DEF v
  <2>2. v \o none = v
    BY <1>1, <1>2, Joining!Concat DEF none
  <2>3. c = own
    BY <1>1, <2>1, <2>2
  <2>4. QED
    BY <1>1, <1>2, <2>3 DEF own
<1>4. CASE text # none
  <2>1. PICK i \in DOMAIN Texts : text = <<Texts[i]>>
    BY <1>4 DEF IsRead
  <2> DEFINE f == ParseText("file", Texts[i]).table
  <2>2. f \in Seq(TableEntries)
    BY FileType
  <2>3. \A k \in 1 .. Len(f) : IsOwn(f[k], inline, text)
    <3>1. \A k \in 1 .. Len(f) : IsOwn(f[k], inline, <<Texts[i]>>)
      BY FileIsHome
    <3>2. QED
      BY <2>1, <3>1
  <2>4. c = v \o f
    <3>1. text[1] = Texts[i]
      BY <2>1
    <3>2. c = v \o ParseText("file", text[1]).table
      BY <1>4, Zenon DEF CallersRules, none
    <3>3. QED
      BY <3>1, <3>2, Zenon
  <2> HIDE DEF c, f, v, inline
  <2>5. c \in Seq(TableEntries) /\ Len(c) = Len(v) + Len(f)
        /\ (\A k \in 1 .. Len(v) : c[k] = v[k])
        /\ \A k \in 1 .. Len(f) : c[Len(v) + k] = f[k]
    <3>1. v \in Seq(TableEntries)
      BY <1>1, <1>2
    <3>2. QED
      BY ONLY <2>2, <2>4, <3>1
  <2>6. ASSUME NEW k \in 1 .. Len(c)
        PROVE  IsOwn(c[k], inline, text)
    <3>0. Len(v) \in Nat /\ Len(f) \in Nat
      BY <1>1, <1>2, <2>2
    <3>1. CASE k \in 1 .. Len(v)
      BY <1>1, <2>5, <3>1
    <3>2. CASE k \notin 1 .. Len(v)
      <4> DEFINE j == k - Len(v)
      <4>1. j \in 1 .. Len(f) /\ k = Len(v) + j
        BY <2>5, <3>0, <3>2
      <4> HIDE DEF j
      <4>2. QED
        BY <2>3, <2>5, <4>1
    <3>3. QED
      BY <3>1, <3>2
  <2>7. QED
    BY <1>4, <2>5, <2>6 DEF c, inline, none
<1>5. QED
  BY <1>3, <1>4

StepItems == [name : Names, value : Seq(FinalWords), from : Origins, applied : BOOLEAN]
StepOf(e, has) == [name |-> e.name, value |-> e.value, from |-> e.from,
                   applied |-> ~(e.default /\ e.name \in has)]
AllSteps(env, has) == [i \in DOMAIN env |-> StepOf(env[i], has)]
LastStep(steps, a, b, s) == SelectLastInSubSeq(steps, a, b, LAMBDA t : SameVariable(t, s))

(* The log has a step for every entry of the environment, which names the  *)
(* later entry that replaced it.                                           *)
LEMMA EnvStepsAre ==
  ASSUME NEW env \in Seq(FinalItems), NEW has
  PROVE  LET steps == EnvSteps(env, has)
             all == AllSteps(env, has)
         IN /\ DOMAIN steps = 1 .. Len(env) /\ Len(steps) = Len(env) /\ Len(env) \in Nat
            /\ all \in Seq(StepItems) /\ Len(all) = Len(env)
            /\ \A i \in 1 .. Len(env) :
                 /\ all[i] = StepOf(env[i], has)
                 /\ steps[i].step = all[i]
                 /\ steps[i].replacedBy =
                      IF LastStep(all, i + 1, Len(all), all[i]) = 0 THEN NoOrigin
                      ELSE all[LastStep(all, i + 1, Len(all), all[i])].from
<1> DEFINE steps == EnvSteps(env, has)
           all == AllSteps(env, has)
<1>1. \A i \in 1 .. Len(env) : StepOf(env[i], has) \in StepItems
  <2> SUFFICES ASSUME NEW i \in 1 .. Len(env)
               PROVE  StepOf(env[i], has) \in StepItems
    OBVIOUS
  <2>1. env[i] \in FinalItems
    OBVIOUS
  <2>2. QED
    BY <2>1 DEF FinalItems, StepItems, StepOf
<1>2. all \in Seq(StepItems) /\ Len(all) = Len(env)
      /\ \A i \in 1 .. Len(env) : all[i] = StepOf(env[i], has)
  BY <1>1 DEF AllSteps
<1> DEFINE later(i) == LastStep(all, i + 1, Len(all), all[i])
           earlier(i) == LastStep(all, 1, i - 1, all[i])
           row(i) == [step |-> all[i],
                      replacedBy |-> IF later(i) = 0 THEN NoOrigin ELSE all[later(i)].from,
                      removes |-> IF earlier(i) # 0 /\ all[i].value = <<>> /\ all[earlier(i)].value # <<>>
                                  THEN all[earlier(i)].from ELSE NoOrigin]
<1>3. steps = [i \in DOMAIN env |-> row(i)]
  BY Zenon DEF EnvSteps, AllSteps, StepOf, LastStep
<1> HIDE DEF all, later, earlier
<1>4. DOMAIN steps = 1 .. Len(env) /\ Len(env) \in Nat
      /\ \A i \in 1 .. Len(env) : steps[i] = row(i)
  BY <1>3
<1> HIDE DEF steps
<1>5. Len(steps) = Len(env)
  BY <1>4
<1>6. \A i \in 1 .. Len(env) : steps[i].step = all[i]
        /\ steps[i].replacedBy = IF later(i) = 0 THEN NoOrigin ELSE all[later(i)].from
  BY <1>4
<1>7. QED
  BY <1>2, <1>4, <1>5, <1>6 DEF steps, all, later

(* What run applies to the environment is the steps that are called        *)
(* applied, in their order.                                                *)
LEMMA AppliedEntriesAre ==
  ASSUME NEW env \in Seq(FinalItems), NEW has
  PROVE  LET all == AllSteps(env, has)
         IN /\ AppliedEntries(EnvSteps(env, has)) = Selected(all, {i \in DOMAIN all : all[i].applied})
            /\ AppliedEntries(EnvSteps(env, has)) \in Seq(StepItems)
<1> DEFINE steps == EnvSteps(env, has)
           all == AllSteps(env, has)
<1>1. DOMAIN steps = 1 .. Len(env) /\ Len(env) \in Nat /\ all \in Seq(StepItems)
      /\ Len(all) = Len(env) /\ \A i \in 1 .. Len(env) : steps[i].step = all[i]
  BY EnvStepsAre
<1> HIDE DEF steps, all
<1>2. [i \in DOMAIN steps |-> steps[i].step] = all
  <2>1. all = [i \in 1 .. Len(env) |-> all[i]]
    BY <1>1
  <2>2. QED
    BY <1>1, <2>1
<1>3. {i \in DOMAIN steps : steps[i].step.applied} = {i \in DOMAIN all : all[i].applied}
  BY <1>1
<1>4. AppliedEntries(steps) = Selected(all, {i \in DOMAIN all : all[i].applied})
  BY <1>2, <1>3 DEF AppliedEntries
<1>5. Selected(all, {i \in DOMAIN all : all[i].applied}) \in Seq(StepItems)
  BY <1>1, SelectedType
<1>6. QED
  BY <1>4, <1>5 DEF all, steps

(* What the rules of a process resolve to, the settings' entries included. *)
LEMMA DerivedResolution ==
  ASSUME NEW own \in Seq(TableEntries), NEW image
  PROVE  LET r == Resolve(BuiltInTable \o own, image)
             f == FoldDerivedEnv(r)
         IN /\ BuiltInTable \o own \in Seq(TableEntries)
            /\ r \in Resolved
            /\ f.env = FinalEnv(r) /\ f.env \in Seq(FinalItems)
            /\ f.hudAt \in 0 .. Len(f.env)
<1> DEFINE r == Resolve(BuiltInTable \o own, image)
           f == FoldDerivedEnv(r)
<1>1. BuiltInTable \o own \in Seq(TableEntries)
  BY BuiltInType
<1>2. r \in Resolved
  BY <1>1, ResolveType
<1> HIDE DEF r
<1>3. f.env = FinalEnv(r) /\ f.hudAt = r.hudAt
  BY <1>2, DerivedIs
<1> HIDE DEF f
<1> DEFINE n == Len(AllEnv(r))
           l == Len(DerivedHud(r))
           h == r.hudAt
           e == FinalEnv(r)
<1>4. n \in Nat /\ h \in 0 .. n /\ l \in Nat /\ e \in Seq(FinalItems) /\ Len(e) = n + l
  BY <1>2, FinalEnvIs
<1> HIDE DEF n, l, h, e
<1>5. h \in 0 .. Len(e)
  BY <1>4
<1>6. QED
  BY <1>1, <1>2, <1>3, <1>4, <1>5 DEF h, e, r, f

(* A process as it is before the library changes it.                       *)
Started(image, inline, cmd, unix, block) ==
  [phase |-> "started", image |-> image, inline |-> inline, text |-> <<>>, cmd |-> cmd,
   unix |-> unix, block |-> block, given |-> <<>>, rules |-> <<>>, res |-> NoResolution,
   steps |-> <<>>, refused |-> {}]

(* ProcInv holds where there is no process yet.                            *)
LEMMA InitProcInv == Init => ProcInv
<1> SUFFICES ASSUME Init
             PROVE  ProcInv
  OBVIOUS
<1>1. proc = [NoProcess EXCEPT !.phase = "none"]
  <2>1. proc = NoProcess
    BY Zenon DEF Init
  <2>2. NoProcess = [NoProcess EXCEPT !.phase = "none"]
    BY DEF NoProcess
  <2>3. QED
    BY <2>1, <2>2
<1>2. IsProcess(proc) /\ proc.phase = "none" /\ proc.text = <<>> /\ proc.res = NoResolution
      /\ DOMAIN proc.unix = Names /\ DOMAIN proc.block = Blocks
  <2>1. proc = NoProcess
    BY Zenon DEF Init
  <2>2. QED
    BY <2>1 DEF NoProcess, IsProcess
<1>3. file \in 0 .. Len(Texts)
  BY DEF Init
<1>4. QED
  BY <1>2, <1>3 DEF ProcInv, Phases

(* A process that was just started, with the launcher's variable and whole *)
(* environments, has ProcInv.                                              *)
LEMMA StartedInv ==
  ASSUME NEW image, NEW cmd, NEW unix, NEW block,
         proc' = Started(image, Display(table), cmd, unix, block),
         DOMAIN unix = Names, DOMAIN block = Blocks,
         file' = file, table' = table, file \in 0 .. Len(Texts)
  PROVE  ProcInv'
<1> DEFINE p == Started(image, Display(table), cmd, unix, block)
<1>1. IsProcess(p) /\ p.phase = "started" /\ p.text = <<>> /\ p.res = NoResolution
      /\ p.unix = unix /\ p.block = block /\ p.inline = Display(table)
  BY DEF Started, IsProcess
<1>2. proc' = p
  OBVIOUS
<1> HIDE DEF p
<1>3. IsProcess(proc')
  BY <1>1, <1>2
<1>4. (proc.text # <<>>)' <=> FALSE
  BY <1>1, <1>2
<1>5. QED
  BY <1>1, <1>2, <1>3, <1>4 DEF ProcInv, Phases

(* The launcher becoming Wine establishes ProcInv.                         *)
LEMMA StartWineInv ==
  ASSUME ProcInv, NEW image \in Images, NEW export \in Exports, StartWine(image, export)
  PROVE  ProcInv'
<1>1. proc' = Started(image, Display(table), image.exe, export.unix, export.block)
  BY DEF StartWine, NoProcess, Started
<1>2. DOMAIN export.unix = Names /\ DOMAIN export.block = Blocks
  BY ExportsAssumption
<1>3. file' = file /\ table' = table /\ file \in 0 .. Len(Texts)
  BY DEF StartWine, ProcInv
<1>4. QED
  BY <1>1, <1>2, <1>3, StartedInv

(* Starting another process establishes ProcInv: the variable is inherited *)
(* as it is.                                                               *)
LEMMA StartChildInv ==
  ASSUME ProcInv, NEW image, NEW app, StartChild(image, app)
  PROVE  ProcInv'
<1> DEFINE cmd == IF image = proc.image THEN proc.cmd \o <<" ", "--type=">> ELSE image.exe
           block == [proc.block EXCEPT !["SteamAppId"] = app]
<1>0. proc.phase # "none" /\ proc.inline = Display(table) /\ DOMAIN proc.unix = Names
      /\ DOMAIN proc.block = Blocks
  BY DEF ProcInv, StartChild
<1>1. proc' = Started(image, proc.inline, cmd, proc.unix, block)
  BY DEF StartChild, NoProcess, Started
<1>2. DOMAIN block = Blocks
  BY <1>0
<1>3. file' = file /\ table' = table /\ file \in 0 .. Len(Texts)
  BY DEF StartChild, ProcInv
<1> HIDE DEF cmd, block
<1>4. proc' = Started(image, Display(table), cmd, proc.unix, block)
  BY <1>0, <1>1
<1>5. QED
  BY <1>0, <1>2, <1>3, <1>4, StartedInv

(* ProcInv says nothing of what the file holds, so a change of the file    *)
(* keeps it.                                                               *)
LEMMA SameProcInv ==
  ASSUME ProcInv, UNCHANGED <<proc, table>>, file' \in 0 .. Len(Texts)
  PROVE  ProcInv'
BY DEF ProcInv, Applied, IsProcess

(* Reading the file leaves the rest of the process alone.                  *)
IsWhole(text) ==
  text # <<>> => \E i \in DOMAIN Texts : text = <<Texts[i]>> /\ Len(Texts[i]) <= MaxBytes
WithText(p, phase, text) == [p EXCEPT !.phase = phase, !.text = text]

(* Taking a whole text of the file, or none, keeps ProcInv.                *)
LEMMA ReadInv ==
  ASSUME ProcInv, UNCHANGED <<file, table>>, NEW phase \in {"checked", "gathered"}, NEW text,
         proc.phase \in {"started", "checked"}, proc' = WithText(proc, phase, text),
         IsWhole(text)
  PROVE  ProcInv'
<1>1. /\ IsProcess(proc) /\ DOMAIN proc.unix = Names /\ DOMAIN proc.block = Blocks
      /\ file \in 0 .. Len(Texts) /\ proc.inline = Display(table) /\ proc.res = NoResolution
  BY DEF ProcInv
<1> DEFINE p == [phase |-> phase, image |-> proc.image, inline |-> proc.inline, text |-> text,
                 cmd |-> proc.cmd, unix |-> proc.unix, block |-> proc.block,
                 given |-> proc.given, rules |-> proc.rules, res |-> proc.res,
                 steps |-> proc.steps, refused |-> proc.refused]
<1>2. proc' = p
  BY <1>1 DEF IsProcess, WithText
<1>3. IsProcess(p) /\ p.phase = phase /\ p.text = text /\ p.unix = proc.unix
      /\ p.block = proc.block /\ p.inline = proc.inline /\ p.res = proc.res
  BY DEF IsProcess
<1> HIDE DEF p
<1>4. IsProcess(proc')
  BY <1>2, <1>3
<1>5. QED
  BY <1>1, <1>2, <1>3, <1>4 DEF ProcInv, Phases, IsWhole

(* The check before the open keeps ProcInv.                                *)
LEMMA CheckFileInv ==
  ASSUME ProcInv, CheckFile
  PROVE  ProcInv'
<1>1. PICK phase \in {"checked", "gathered"} : proc' = [proc EXCEPT !.phase = phase]
  BY DEF CheckFile
<1>2. proc.phase = "started" /\ UNCHANGED <<file, table>>
  BY DEF CheckFile
<1>3. IsProcess(proc)
      /\ (proc.text # <<>> =>
            \E i \in DOMAIN Texts : proc.text = <<Texts[i]>> /\ Len(Texts[i]) <= MaxBytes)
  BY DEF ProcInv
<1>4. proc' = WithText(proc, phase, proc.text)
  BY <1>1, <1>3 DEF IsProcess, WithText
<1>5. IsWhole(proc.text) /\ proc.phase \in {"started", "checked"}
  BY <1>2, <1>3 DEF IsWhole
<1>6. QED
  BY <1>2, <1>4, <1>5, ReadInv

(* The open and the read keep ProcInv: a text over the limit is not taken, *)
(* however short the file was when it was checked.                         *)
LEMMA ReadFileInv ==
  ASSUME ProcInv, ReadFile
  PROVE  ProcInv'
<1> DEFINE text == IF file = 0 THEN <<>> ELSE ReadCapped(Texts[file])
<1>1. proc' = WithText(proc, "gathered", text)
  BY DEF ReadFile, WithText
<1>2. proc.phase = "checked" /\ UNCHANGED <<file, table>> /\ file \in 0 .. Len(Texts)
  BY DEF ReadFile, ProcInv
<1>3. IsWhole(text)
  <2> USE DEF IsWhole
  <2> SUFFICES ASSUME text # <<>>
               PROVE  \E i \in DOMAIN Texts : text = <<Texts[i]>> /\ Len(Texts[i]) <= MaxBytes
    OBVIOUS
  <2>1. file # 0 /\ text = ReadCapped(Texts[file])
    OBVIOUS
  <2>2. Texts \in Seq(AnyText)
    BY TextsAssumption
  <2>3. file \in DOMAIN Texts /\ Texts[file] \in AnyText
    BY <1>2, <2>1, <2>2
  <2>4. Len(Texts[file]) \in Nat
    BY <2>3 DEF AnyText
  <2>5. ~(Len(Texts[file]) > MaxBytes)
    BY <2>1 DEF ReadCapped
  <2>6. text = <<Texts[file]>>
    BY <2>1, <2>5 DEF ReadCapped
  <2>7. Len(Texts[file]) <= MaxBytes
    BY <2>4, <2>5, BoundsAssumption
  <2>8. QED
    BY <2>3, <2>6, <2>7
<1> HIDE DEF text
<1>4. proc.phase \in {"started", "checked"}
  BY <1>2
<1>5. QED
  BY <1>1, <1>2, <1>3, <1>4, ReadInv

(* The rules a process gathers are entries, each from its own line of the  *)
(* variable or of the file.                                                *)
LEMMA OwnType ==
  ASSUME TableInv, ProcInv, proc.phase # "none"
  PROVE  /\ CallersRules(proc.inline, proc.text) \in Seq(TableEntries)
         /\ \A k \in 1 .. Len(CallersRules(proc.inline, proc.text)) :
              IsOwn(CallersRules(proc.inline, proc.text)[k], proc.inline, proc.text)
         /\ proc.text = <<>> => CallersRules(proc.inline, proc.text) = table
<1>1. PICK rules \in Seq(MadeRules) : table = InVariable(rules)
  BY DEF TableInv
<1>2. IsRead(proc.text)
  BY DEF ProcInv, IsRead
<1>3. proc.inline = Display(InVariable(rules))
  BY <1>1 DEF ProcInv
<1>4. QED
  BY <1>1, <1>2, <1>3, CallersAre

(* run keeps ProcInv: what it leaves is the resolution of the rules that   *)
(* were gathered, applied to what was given.                               *)
LEMMA ApplyInv ==
  ASSUME TableInv, ProcInv, Apply
  PROVE  ProcInv'
<1>0. /\ IsProcess(proc) /\ DOMAIN proc.unix = Names /\ DOMAIN proc.block = Blocks
      /\ file \in 0 .. Len(Texts) /\ proc.inline = Display(table) /\ proc.phase = "gathered"
      /\ (proc.text # <<>> =>
            \E i \in DOMAIN Texts : proc.text = <<Texts[i]>> /\ Len(Texts[i]) <= MaxBytes)
  BY DEF ProcInv, Apply
<1> DEFINE rules == CallersRules(proc.inline, proc.text)
           res == FoldDerivedEnv(Resolve(BuiltInTable \o rules, Image(proc.image, proc.block)))
           cmd == AppendArguments(proc.cmd, Texts1(res.arguments))
           steps == EnvSteps(res.env, Has(proc.unix, proc.block))
           entries == AppliedEntries(steps)
           block == MergeEnv(proc.block, entries)
<1>1. PICK refused \in SUBSET {"cmd", "block"} :
        proc' = Rewritten(rules, res, cmd, steps, entries, block, refused)
  BY ZenonT(60) DEF Apply, Texts1
<1>2. UNCHANGED <<file, table>>
  BY DEF Apply
<1>3. rules \in Seq(TableEntries)
  BY <1>0, OwnType
<1> HIDE DEF rules
<1>4. res.env \in Seq(FinalItems)
  BY <1>3, DerivedResolution
<1> HIDE DEF res
<1>5. entries \in Seq(StepItems)
  BY <1>4, AppliedEntriesAre
<1> HIDE DEF steps, entries
<1>6. DOMAIN block = Blocks /\ DOMAIN UnixEnv(proc.unix, entries) = Names
  BY <1>0, <1>5, MergeEnvType
<1> HIDE DEF block, cmd
<1> DEFINE given == [cmd |-> proc.cmd, unix |-> proc.unix, block |-> proc.block]
           newcmd == IF "cmd" \in refused THEN proc.cmd ELSE cmd
           newblock == IF "block" \in refused THEN proc.block ELSE block
           p == [phase |-> "running", image |-> proc.image, inline |-> proc.inline,
                 text |-> proc.text, cmd |-> newcmd, unix |-> UnixEnv(proc.unix, entries),
                 block |-> newblock, given |-> <<given>>, rules |-> rules, res |-> res,
                 steps |-> steps, refused |-> refused]
<1>7. proc' = p
  BY <1>0, <1>1 DEF IsProcess, Rewritten
<1>8. DOMAIN newblock = Blocks
  BY <1>0, <1>6
<1>9. given.cmd = proc.cmd /\ given.unix = proc.unix /\ given.block = proc.block
      /\ <<given>>[1] = given
  OBVIOUS
<1> HIDE DEF given, newcmd, newblock
<1>10. IsProcess(p) /\ p.phase = "running" /\ p.image = proc.image /\ p.inline = proc.inline
       /\ p.text = proc.text /\ p.cmd = newcmd /\ p.unix = UnixEnv(proc.unix, entries)
       /\ p.block = newblock /\ p.given = <<given>> /\ p.rules = rules /\ p.res = res
       /\ p.steps = steps /\ p.refused = refused
  BY DEF IsProcess
<1> HIDE DEF p
<1>11. p.given[1] = given
  BY <1>9, <1>10
<1>12. Applied(p)
  <2>1. p.given = <<p.given[1]>>
    BY <1>10, <1>11
  <2>2. DOMAIN p.given[1].unix = Names /\ DOMAIN p.given[1].block = Blocks
    BY <1>0, <1>9, <1>11
  <2>3. p.rules = CallersRules(p.inline, p.text)
    BY <1>10 DEF rules
  <2>4. p.res = FoldDerivedEnv(Resolve(BuiltInTable \o p.rules, Image(p.image, p.given[1].block)))
    BY <1>9, <1>10, <1>11 DEF res
  <2>5. p.steps = EnvSteps(p.res.env, Has(p.given[1].unix, p.given[1].block))
    BY <1>9, <1>10, <1>11 DEF steps
  <2>6. p.cmd = IF "cmd" \in p.refused THEN p.given[1].cmd
                ELSE AppendArguments(p.given[1].cmd, Texts1(p.res.arguments))
    BY <1>9, <1>10, <1>11 DEF cmd, newcmd
  <2>7. p.block = IF "block" \in p.refused THEN p.given[1].block
                  ELSE MergeEnv(p.given[1].block, AppliedEntries(p.steps))
    BY <1>9, <1>10, <1>11 DEF block, newblock, entries
  <2>8. p.unix = UnixEnv(p.given[1].unix, AppliedEntries(p.steps))
    BY <1>9, <1>10, <1>11 DEF entries
  <2>9. QED
    BY <2>1, <2>2, <2>3, <2>4, <2>5, <2>6, <2>7, <2>8 DEF Applied
<1>13. IsProcess(proc') /\ Applied(proc')
  BY <1>7, <1>10, <1>12
<1>14. QED
  BY <1>0, <1>2, <1>6, <1>7, <1>8, <1>10, <1>13 DEF ProcInv, Phases

(* The counters keep to their bounds.                                      *)
CountInv ==
  /\ changes \in 0 .. MaxChanges /\ failures \in 0 .. MaxFailures /\ depth \in 0 .. MaxDepth

(* Every step keeps ProcInv.                                               *)
LEMMA NextProcInv == TableInv /\ ProcInv /\ [Next]_vars => ProcInv'
<1> SUFFICES ASSUME TableInv, ProcInv, [Next]_vars
             PROVE  ProcInv'
  OBVIOUS
<1>0. file \in 0 .. Len(Texts)
  BY DEF ProcInv
<1>1. ASSUME NEW rule \in Catalog, Push(rule)
      PROVE  ProcInv'
  BY <1>0, <1>1 DEF Push, ProcInv
<1>2. ASSUME NEW image \in Images, NEW export \in Exports, StartWine(image, export)
      PROVE  ProcInv'
  BY <1>2, StartWineInv
<1>3. ASSUME NEW image \in Images, NEW app, StartChild(image, app)
      PROVE  ProcInv'
  BY <1>3, StartChildInv
<1>4. ASSUME NEW i \in 0 .. Len(Texts), FileChanges(i)
      PROVE  ProcInv'
  <2>1. UNCHANGED <<proc, table>> /\ file' \in 0 .. Len(Texts)
    BY <1>4 DEF FileChanges
  <2>2. QED
    BY <2>1, SameProcInv
<1>5. CASE CheckFile
  BY <1>5, CheckFileInv
<1>6. CASE ReadFile
  BY <1>6, ReadFileInv
<1>7. CASE Apply
  BY <1>7, ApplyInv
<1>8. CASE UNCHANGED vars
  <2>1. UNCHANGED <<proc, table>> /\ file' \in 0 .. Len(Texts)
    BY <1>0, <1>8 DEF vars
  <2>2. QED
    BY <2>1, SameProcInv
<1>9. QED
  BY <1>1, <1>2, <1>3, <1>4, <1>5, <1>6, <1>7, <1>8 DEF Next

(* The rewrites that fail are counted by a number.                         *)
LEMMA RefusedCount ==
  ASSUME NEW refused \in SUBSET {"cmd", "block"}
  PROVE  Cardinality(refused) \in Nat
<1>1. IsFiniteSet({"cmd", "block"})
  <2>1. IsFiniteSet({}) /\ IsFiniteSet({} \cup {"cmd"})
    BY FS_EmptySet, FS_AddElement
  <2>2. IsFiniteSet(({} \cup {"cmd"}) \cup {"block"})
    BY <2>1, FS_AddElement
  <2>3. ({} \cup {"cmd"}) \cup {"block"} = {"cmd", "block"}
    OBVIOUS
  <2>4. QED
    BY <2>2, <2>3
<1>2. IsFiniteSet(refused)
  BY <1>1, FS_Subset
<1>3. QED
  BY <1>2, FS_CardinalityType

(* Every step keeps the counters within their bounds.                      *)
LEMMA NextCountInv == CountInv /\ [Next]_vars => CountInv'
<1> SUFFICES ASSUME CountInv, [Next]_vars
             PROVE  CountInv'
  OBVIOUS
<1>1. MaxDepth \in Nat \ {0} /\ MaxChanges \in Nat /\ MaxFailures \in Nat
  BY BoundsAssumption
<1>2. ASSUME NEW image, NEW export, StartWine(image, export)
      PROVE  CountInv'
  BY <1>1, <1>2 DEF CountInv, StartWine
<1>3. ASSUME NEW image, NEW app, StartChild(image, app)
      PROVE  CountInv'
  BY <1>1, <1>3 DEF CountInv, StartChild
<1>4. ASSUME NEW i, FileChanges(i)
      PROVE  CountInv'
  BY <1>1, <1>4 DEF CountInv, FileChanges
<1>5. CASE Apply
  <2>1. PICK refused \in SUBSET {"cmd", "block"} :
          /\ failures + Cardinality(refused) <= MaxFailures
          /\ failures' = failures + Cardinality(refused)
    BY <1>5, ZenonT(60) DEF Apply
  <2>2. UNCHANGED <<depth, changes>>
    BY <1>5 DEF Apply
  <2>3. Cardinality(refused) \in Nat
    BY RefusedCount
  <2>4. QED
    BY <1>1, <2>1, <2>2, <2>3 DEF CountInv
<1>6. CASE UNCHANGED <<depth, changes, failures>>
  BY <1>6 DEF CountInv
<1>7. QED
  BY <1>2, <1>3, <1>4, <1>5, <1>6 DEF Next, vars, Push, CheckFile, ReadFile

CompatInv == TableInv /\ ProcInv /\ CountInv

(* The inductive invariant of the process: the table is the launcher's,    *)
(* the process is what its phase says, the counters keep to their bounds.  *)
LEMMA CompatInvariant == Spec => []CompatInv
<1>1. Init => CompatInv
  <2>1. Init => CountInv
    BY BoundsAssumption DEF Init, CountInv
  <2>2. QED
    BY <2>1, InitTableInv, InitProcInv DEF CompatInv
<1>2. CompatInv /\ [Next]_vars => CompatInv'
  BY NextTableInv, NextProcInv, NextCountInv DEF CompatInv
<1>3. QED
  BY <1>1, <1>2, PTL DEF Spec

(* Without a resolution the place of the HUD's entries is the start.       *)
LEMMA NoHudYet == NoResolution.hudAt \in 0 .. Len(NoResolution.env)
<1>1. NoResolution \in Resolved
  BY NoResolutionType
<1> HIDE DEF NoResolution
<1>2. NoResolution.env \in Seq(EnvItems) /\ NoResolution.hudAt \in Nat
  BY <1>1 DEF Resolved, Resolutions
<1>3. NoResolution.hudAt <= Len(NoResolution.env)
  BY <1>1 DEF Resolved
<1>4. QED
  BY <1>2, <1>3

(* What is known of a process that runs.                                   *)
LEMMA RunningIs ==
  ASSUME CompatInv, Running
  PROVE  /\ Applied(proc)
         /\ proc.rules \in Seq(TableEntries)
         /\ \A k \in 1 .. Len(proc.rules) : IsOwn(proc.rules[k], proc.inline, proc.text)
         /\ proc.text = <<>> => proc.rules = table
<1>1. Applied(proc) /\ proc.rules = CallersRules(proc.inline, proc.text) /\ proc.phase # "none"
  BY DEF CompatInv, ProcInv, Running, Applied
<1>2. QED
  BY <1>1, OwnType DEF CompatInv

(* The inductive invariant implies the type invariant.                     *)
LEMMA TypeIs == CompatInv => TypeOK
<1> SUFFICES ASSUME CompatInv
             PROVE  TypeOK
  OBVIOUS
<1>1. Len(table) <= MaxRules
  <2>1. PICK rules \in Seq(MadeRules) : table = InVariable(rules) /\ Len(rules) <= MaxRules
    BY DEF CompatInv, TableInv
  <2>2. Len(table) = Len(rules)
    BY <2>1, TableIs
  <2>3. QED
    BY <2>1, <2>2
<1>2. /\ file \in 0 .. Len(Texts)
      /\ changes \in 0 .. MaxChanges /\ failures \in 0 .. MaxFailures
      /\ depth \in 0 .. MaxDepth
      /\ proc.phase \in {"none", "started", "checked", "gathered", "running"}
      /\ DOMAIN proc.unix = Names /\ DOMAIN proc.block = Blocks
  BY DEF CompatInv, ProcInv, CountInv, Phases
<1>3. proc.text # <<>> => Len(proc.text[1]) <= MaxBytes
  <2> SUFFICES ASSUME proc.text # <<>>
               PROVE  Len(proc.text[1]) <= MaxBytes
    OBVIOUS
  <2>1. PICK i \in DOMAIN Texts : proc.text = <<Texts[i]>> /\ Len(Texts[i]) <= MaxBytes
    BY DEF CompatInv, ProcInv
  <2>2. proc.text[1] = Texts[i]
    BY <2>1
  <2>3. QED
    BY <2>1, <2>2
<1>4. proc.res.hudAt \in 0 .. Len(proc.res.env)
  <2>1. CASE Running
    <3>1. proc.rules \in Seq(TableEntries)
          /\ proc.res = FoldDerivedEnv(Resolve(BuiltInTable \o proc.rules,
                                               Image(proc.image, proc.given[1].block)))
      BY <2>1, RunningIs DEF Applied
    <3>2. QED
      BY <3>1, DerivedResolution
  <2>2. CASE ~Running
    BY <2>2, NoHudYet DEF CompatInv, ProcInv, Running
  <2>3. QED
    BY <2>1, <2>2
<1>5. QED
  BY <1>1, <1>2, <1>3, <1>4 DEF TypeOK

(* Types of a process that reads its rules and applies them: the bounds,   *)
(* whole environments, a text of the file never over the limit, and the    *)
(* HUD's place within the environment (lib.rs, run; rules_file).           *)
THEOREM CompatTypeCorrect == Spec => []TypeOK
<1>1. QED
  BY TypeIs, CompatInvariant, PTL

(* The inductive invariant implies that the log's lines are right.         *)
LEMMA HomeIs == CompatInv => LinesPointHome
<1> SUFFICES ASSUME CompatInv, Running
             PROVE  \A i \in DOMAIN proc.rules :
                      LET e == proc.rules[i]
                          text == IF e.source.text = "file" THEN proc.text[1] ELSE proc.inline
                          lines == Split(text, "newline")
                      IN /\ e.source.line \in DOMAIN lines
                         /\ ReadRecord(lines[e.source.line]).rule = <<e.rule>>
  BY DEF LinesPointHome
<1>1. proc.rules \in Seq(TableEntries)
      /\ \A k \in 1 .. Len(proc.rules) : IsOwn(proc.rules[k], proc.inline, proc.text)
  BY RunningIs
<1>2. DOMAIN proc.rules = 1 .. Len(proc.rules)
  BY <1>1
<1>3. QED
  BY <1>1, <1>2, Zenon DEF IsOwn, LineOf

(* The line the log names for a rule holds that rule, in the variable or   *)
(* in the file, whatever lines the parser skipped before it (wire.rs,      *)
(* parse; Source).                                                         *)
THEOREM LoggedLinesAreHome == Spec => []LinesPointHome
<1>1. QED
  BY HomeIs, CompatInvariant, PTL

(* The inductive invariant implies that the preview is what runs.          *)
LEMMA PreviewIs == CompatInv => PreviewIsWhatRuns
<1> SUFFICES ASSUME CompatInv, Running, proc.text = <<>>, App(Given.block) = <<>>
             PROVE  proc.res = Preview(Defaults \o Programs, table, Image(proc.image, Given.block))
  BY DEF PreviewIsWhatRuns
<1>1. proc.res = FoldDerivedEnv(Resolve(BuiltInTable \o table, Image(proc.image, Given.block)))
  BY RunningIs DEF Applied, Given
<1>2. Sent(table) = table
  <2>1. PICK rules \in Seq(MadeRules) : table = InVariable(rules)
    BY DEF CompatInv, TableInv
  <2>2. QED
    BY <2>1, TableIs
<1>3. Image(proc.image, Given.block) = [Image(proc.image, Given.block) EXCEPT !.app = <<>>]
  BY DEF Image
<1>4. Preview(Defaults \o Programs, table, Image(proc.image, Given.block))
        = FoldDerivedEnv(Resolve(BuiltIn(Defaults \o Programs) \o Sent(table),
                                 [Image(proc.image, Given.block) EXCEPT !.app = <<>>]))
  BY Zenon DEF Preview
<1>5. QED
  BY <1>1, <1>2, <1>3, <1>4, Zenon DEF BuiltInTable

(* The launcher's preview of a program is what that program's process      *)
(* resolves to, origins included, when no file adds rules and no Steam app *)
(* is named (Table::preview; lib.rs, run).                                 *)
THEOREM PreviewRuns == Spec => []PreviewIsWhatRuns
<1>1. QED
  BY PreviewIs, CompatInvariant, PTL

(***************************************************************************)
(* The key Table::resolve sorts by (resolve.rs:540-575), with the position *)
(* in the table that a stable sort keeps among equals, is the documented   *)
(* order of any two rules, for any table.                                  *)
(***************************************************************************)
THEOREM PlaceIsTheDocumentedOrder ==
  ASSUME NEW i \in Nat, NEW j \in Nat
  PROVE  Beats(i, j) <=>
           \/ Place(EntryAt(i)) > Place(EntryAt(j))
           \/ Place(EntryAt(i)) = Place(EntryAt(j)) /\ i > j
<1> DEFINE e == EntryAt(i)
           f == EntryAt(j)
<1>1. Beats(i, j) <=>
        \/ e.rule.exe # AnyExe /\ f.rule.exe = AnyExe
        \/ /\ (e.rule.exe # AnyExe) <=> (f.rule.exe # AnyExe)
           /\ \/ e.source.text # "built-in" /\ f.source.text = "built-in"
              \/ /\ (e.source.text # "built-in") <=> (f.source.text # "built-in")
                 /\ \/ Pinned(e.rule) /\ ~Pinned(f.rule)
                    \/ (Pinned(e.rule) <=> Pinned(f.rule)) /\ i > j
  BY DEF Beats, RuleAt, Pinned
<1> HIDE DEF e, f
<1>2. Place(e) > Place(f) <=>
        \/ e.rule.exe # AnyExe /\ f.rule.exe = AnyExe
        \/ /\ (e.rule.exe # AnyExe) <=> (f.rule.exe # AnyExe)
           /\ \/ e.source.text # "built-in" /\ f.source.text = "built-in"
              \/ /\ (e.source.text # "built-in") <=> (f.source.text # "built-in")
                 /\ Pinned(e.rule) /\ ~Pinned(f.rule)
  BY PlaceIsThreeBits
<1>3. Place(e) = Place(f) <=>
        /\ (e.rule.exe # AnyExe) <=> (f.rule.exe # AnyExe)
        /\ (e.source.text # "built-in") <=> (f.source.text # "built-in")
        /\ Pinned(e.rule) <=> Pinned(f.rule)
  BY PlaceIsThreeBits
<1>4. QED
  BY <1>1, <1>2, <1>3 DEF e, f

MatchesIn(t, image) == {i \in DOMAIN t : Matches(t[i].rule, image)}

(* The rules that match are sorted by place, and by position in it.        *)
LEMMA MatchingRanked ==
  ASSUME NEW t \in Seq(TableEntries), NEW image
  PROVE  \E at : IsRanked(Matching(t, image), t, MatchesIn(t, image), 8, at)
<1> DEFINE H == MatchesIn(t, image)
           parts == [p \in 1 .. 8 |-> Selected(t, Placed(t, H, p - 1))]
           none == <<>>
           st == Joining!States(none, parts)
<1>1. Matching(t, image) = st[8]
  <2>1. Matching(t, image) = Flat(parts)
    BY Zenon DEF Matching, MatchesIn, Placed
  <2>2. Len(parts) = 8
    OBVIOUS
  <2>3. Flat(parts) = st[Len(parts)]
    BY Zenon DEF Flat, Joining!Fold
  <2> HIDE DEF parts
  <2>4. QED
    BY <2>1, <2>2, <2>3
<1>2. H \subseteq 1 .. Len(t)
  BY DEF MatchesIn
<1>3. /\ st[0] = <<>>
      /\ \A p \in 1 .. 8 : st[p] = st[p - 1] \o Selected(t, Placed(t, H, p - 1))
  <2>1. Len(parts) = 8 /\ 8 \in Nat /\ \A p \in 1 .. 8 : parts[p] = Selected(t, Placed(t, H, p - 1))
    OBVIOUS
  <2> HIDE DEF parts, H, none
  <2>2. /\ st[0] = none
        /\ \A p \in 1 .. 8 : st[p] = Joined(st[p - 1], parts[p])
    BY <2>1, Joining!StatesStep
  <2> HIDE DEF st
  <2>3. QED
    BY <2>1, <2>2 DEF Joined, none
<1> HIDE DEF H, parts, st
<1> DEFINE Q(p) == st[p] \in Seq(TableEntries) /\ \E at : IsRanked(st[p], t, H, p, at)
           T == {p \in Nat : p <= 8 => Q(p)}
<1>4. 0 \in T
  <2> DEFINE c == st[0]
  <2>1. c \in Seq(TableEntries) /\ Len(c) = 0
    BY <1>3
  <2>2. \A i : Place(t[i]) \in Nat
    BY DEF Place
  <2> HIDE DEF c
  <2>3. \A at : IsRanked(c, t, H, 0, at)
    BY <2>1, <2>2 DEF IsRanked
  <2>4. QED
    BY <2>1, <2>3 DEF c
<1>5. ASSUME NEW p \in Nat, p \in T
      PROVE  p + 1 \in T
  <2> SUFFICES ASSUME p + 1 <= 8
               PROVE  Q(p + 1)
    OBVIOUS
  <2>1. p <= 8 /\ p + 1 \in 1 .. 8 /\ (p + 1) - 1 = p
    OBVIOUS
  <2>2. PICK at1 : st[p] \in Seq(TableEntries) /\ IsRanked(st[p], t, H, p, at1)
    BY <1>5, <2>1
  <2> DEFINE c == Selected(t, Placed(t, H, p))
  <2>3. PICK at2 : IsPlaced(c, t, Placed(t, H, p), at2)
    BY SelectedInOrder
  <2>4. c \in Seq(TableEntries)
    BY SelectedType
  <2> HIDE DEF c
  <2>5. \E at : IsRanked(st[p] \o c, t, H, p + 1, at)
    BY <1>2, <2>2, <2>3, <2>4, RankedMore
  <2>6. st[p + 1] = st[p] \o c
    BY <1>3, <2>1 DEF c
  <2>7. st[p] \o c \in Seq(TableEntries)
    BY <2>2, <2>4
  <2>8. QED
    BY <2>5, <2>6, <2>7
<1>6. 8 \in T
  <2> HIDE DEF T
  <2>1. QED
    BY <1>4, <1>5, Joining!Induction
<1>7. QED
  BY <1>1, <1>6 DEF H

(* Positions of the rules that a process is given, as they are folded.     *)
Ranks(c, at) ==
  /\ c \in Seq(TableEntries)
  /\ \A k \in 1 .. Len(c) : at[k] \in Hits /\ at[k] \in Nat /\ c[k] = EntryAt(at[k])
  /\ \A k, l \in 1 .. Len(c) : k < l <=> Beats(at[l], at[k])
  /\ \A i \in Hits : \E k \in 1 .. Len(c) : at[k] = i

Folded(c) == Rules!Fold(NoResolution, c)

(* Of two rules only one follows the other in the order they are folded    *)
(* in.                                                                     *)
LEMMA FollowsOneWay ==
  ASSUME NEW t, NEW i \in Nat, NEW j \in Nat
  PROVE  ~(Follows(t, i, j) /\ Follows(t, j, i))
<1>1. Place(t[i]) \in Nat /\ Place(t[j]) \in Nat
  BY DEF Place
<1>2. QED
  BY <1>1 DEF Follows

(* A process that runs has the rules that match it folded in the order of  *)
(* the documented ranking: a rule that beats another is folded after it.   *)
LEMMA RunningRanks ==
  ASSUME CompatInv, Running
  PROVE  \E c, at : Ranks(c, at) /\ proc.res = FoldDerivedEnv(Folded(c)) /\ Folded(c) \in Resolved
<1> DEFINE image == Image(proc.image, Given.block)
           b == BuiltInTable
           own == proc.rules
           t == b \o own
           c == Matching(t, image)
           H == MatchesIn(t, image)
<1>1. own \in Seq(TableEntries)
      /\ proc.res = FoldDerivedEnv(Resolve(t, image))
  BY RunningIs DEF Applied, Given
<1>2. b \in Seq(TableEntries)
  BY BuiltInType
<1> HIDE DEF b, own, image
<1>3. t \in Seq(TableEntries) /\ Len(t) = Len(b) + Len(own)
      /\ (\A i \in 1 .. Len(b) : t[i] = b[i])
      /\ \A i \in 1 .. Len(own) : t[Len(b) + i] = own[i]
  BY <1>1, <1>2
<1> HIDE DEF t
<1>4. \A i \in 1 .. Len(t) : t[i] = EntryAt(i)
  <2>1. ASSUME NEW i \in 1 .. Len(t)
        PROVE  t[i] = EntryAt(i)
    <3>0. Len(b) \in Nat /\ Len(own) \in Nat
      BY <1>1, <1>2
    <3>1. CASE i <= Len(b)
      BY <1>3, <3>0, <3>1 DEF EntryAt, b
    <3>2. CASE ~(i <= Len(b))
      <4> DEFINE j == i - Len(b)
      <4>1. j \in 1 .. Len(own) /\ i = Len(b) + j
        BY <1>3, <3>0, <3>2
      <4>2. EntryAt(i) = own[j]
        BY <3>2 DEF EntryAt, own, b
      <4> HIDE DEF j
      <4>3. QED
        BY <1>3, <4>1, <4>2
    <3>3. QED
      BY <3>1, <3>2
  <2>2. QED
    BY <2>1
<1>5. DOMAIN t = 1 .. Len(t)
  BY <1>3
<1>6. Hits = H
  <2>1. Hits = {i \in 1 .. Len(t) : Matches(EntryAt(i).rule, image)}
    BY <1>3, Zenon DEF Hits, RuleAt, image, b, own
  <2>2. H = {i \in 1 .. Len(t) : Matches(t[i].rule, image)}
    BY <1>5 DEF MatchesIn
  <2>3. QED
    BY <1>4, <2>1, <2>2
<1>7. PICK at : IsRanked(c, t, H, 8, at)
  BY <1>3, MatchingRanked
<1>8. c \in Seq(TableEntries)
  BY <1>3, MatchingType
<1>9. Resolve(t, image) = Folded(c) /\ Folded(c) \in Resolved
  <2>1. Resolve(t, image) = Folded(c)
    BY Zenon DEF Resolve, Folded
  <2>2. Resolve(t, image) \in Resolved
    BY <1>3, ResolveType
  <2>3. QED
    BY <2>1, <2>2
<1>10. H \subseteq 1 .. Len(t)
  BY <1>5 DEF MatchesIn
<1> HIDE DEF c, H
<1>11. \A k \in 1 .. Len(c) : at[k] \in H /\ at[k] \in Nat /\ c[k] = t[at[k]]
  BY <1>7 DEF IsRanked
<1>12. \A k \in 1 .. Len(c) : c[k] = EntryAt(at[k])
  BY <1>4, <1>10, <1>11
<1>13. \A i, j \in H : Follows(t, i, j) <=> Beats(i, j)
  <2> SUFFICES ASSUME NEW i \in H, NEW j \in H
               PROVE  Follows(t, i, j) <=> Beats(i, j)
    OBVIOUS
  <2>1. t[i] = EntryAt(i) /\ t[j] = EntryAt(j) /\ i \in Nat /\ j \in Nat
    BY <1>4, <1>10
  <2>2. Beats(i, j) <=>
           \/ Place(EntryAt(i)) > Place(EntryAt(j))
           \/ Place(EntryAt(i)) = Place(EntryAt(j)) /\ i > j
    BY <2>1, PlaceIsTheDocumentedOrder
  <2>3. QED
    BY <2>1, <2>2 DEF Follows
<1>14. ASSUME NEW k \in 1 .. Len(c), NEW l \in 1 .. Len(c)
       PROVE  k < l <=> Beats(at[l], at[k])
  <2>0. at[k] \in Nat /\ at[l] \in Nat /\ at[k] \in H /\ at[l] \in H
    BY <1>11
  <2>1. CASE k < l
    <3>1. Follows(t, at[l], at[k])
      BY <1>7, <2>1 DEF IsRanked
    <3>2. QED
      BY <1>13, <2>0, <2>1, <3>1
  <2>2. CASE k = l
    <3>1. ~Follows(t, at[l], at[k])
      BY <2>0, <2>2, FollowsOneWay
    <3>2. QED
      BY <1>13, <2>0, <2>2, <3>1
  <2>3. CASE l < k
    <3>1. Follows(t, at[k], at[l])
      BY <1>7, <2>3 DEF IsRanked
    <3>2. ~Follows(t, at[l], at[k])
      BY <2>0, <3>1, FollowsOneWay
    <3>3. QED
      BY <1>13, <2>0, <2>3, <3>2
  <2>4. QED
    BY <2>1, <2>2, <2>3
<1>15. \A i \in H : \E k \in 1 .. Len(c) : at[k] = i
  <2>1. \A i : Place(t[i]) \in 0 .. 7
    BY DEF Place
  <2>2. \A i : Place(t[i]) < 8
    BY <2>1
  <2>3. QED
    BY <1>7, <2>2 DEF IsRanked
<1>16. Ranks(c, at)
  BY <1>6, <1>8, <1>11, <1>12, <1>14, <1>15 DEF Ranks
<1>17. QED
  BY <1>1, <1>9, <1>16

(* What the rules have folded into after each of them.                     *)
Folds(c) == Rules!States(NoResolution, c)

(* The resolution after each number of rules.                              *)
LEMMA FoldsAre ==
  ASSUME NEW c \in Seq(TableEntries)
  PROVE  /\ Folds(c)[0] = NoResolution /\ Folded(c) = Folds(c)[Len(c)]
         /\ \A k \in 1 .. Len(c) : Folds(c)[k] = FoldRule(Folds(c)[k - 1], c[k])
         /\ \A k \in 0 .. Len(c) : Folds(c)[k] \in Resolved
<1> DEFINE none == NoResolution
           st == Rules!States(none, c)
<1>1. Len(c) \in Nat /\ \A k \in 1 .. Len(c) : c[k] \in TableEntries
  OBVIOUS
<1>2. none \in Resolved
  BY NoResolutionType
<1> HIDE DEF none
<1>3. st[0] = none /\ \A k \in 1 .. Len(c) : st[k] = FoldRule(st[k - 1], c[k])
  BY <1>1, Rules!StatesStep
<1>4. Folded(c) = st[Len(c)]
  BY Zenon DEF Folded, Rules!Fold, none
<1> HIDE DEF st
<1> DEFINE T == {k \in Nat : k <= Len(c) => st[k] \in Resolved}
<1>5. 0 \in T
  BY <1>2, <1>3
<1>6. ASSUME NEW k \in Nat, k \in T
      PROVE  k + 1 \in T
  <2> SUFFICES ASSUME k + 1 <= Len(c)
               PROVE  st[k + 1] \in Resolved
    OBVIOUS
  <2>1. k <= Len(c) /\ k + 1 \in 1 .. Len(c) /\ (k + 1) - 1 = k
    BY <1>1
  <2>2. st[k] \in Resolved /\ c[k + 1] \in TableEntries
    BY <1>1, <1>6, <2>1
  <2>3. FoldRule(st[k], c[k + 1]) \in Resolved
    BY <2>2, FoldRuleType
  <2>4. st[k + 1] = FoldRule(st[k], c[k + 1])
    BY <1>3, <2>1
  <2>5. QED
    BY <2>3, <2>4
<1>7. \A k \in Nat : k \in T
  <2> HIDE DEF T
  <2>1. QED
    BY <1>5, <1>6, Joining!Induction
<1>8. \A k \in 0 .. Len(c) : st[k] \in Resolved
  BY <1>1, <1>7
<1>9. QED
  BY <1>3, <1>4, <1>8 DEF Folds, st, none

SaysOf(e, s) == e.rule.scalars[s] # Unset
Saying(e, s) == [value |-> e.rule.scalars[s], by |-> Origin(e)]
Unsaid == [value |-> Unset, by |-> NoOrigin]

(* Of the first k rules the last one that says something has said v.       *)
LastSays(c, s, k, v) ==
  \/ v = Unsaid /\ \A j \in 1 .. k : ~SaysOf(c[j], s)
  \/ \E j \in 1 .. k :
       /\ SaysOf(c[j], s) /\ v = Saying(c[j], s)
       /\ \A i \in 1 .. k : SaysOf(c[i], s) => i <= j

(* What rules say of a setting, with one rule more: the last that says     *)
(* something of it counts.                                                 *)
LEMMA LastSaysMore ==
  ASSUME NEW c, NEW s, NEW k \in Nat, NEW v, LastSays(c, s, k, v)
  PROVE  LastSays(c, s, k + 1, IF SaysOf(c[k + 1], s) THEN Saying(c[k + 1], s) ELSE v)
<1>0. \A i \in 1 .. k + 1 : i \in 1 .. k \/ i = k + 1
  OBVIOUS
<1>1. CASE SaysOf(c[k + 1], s)
  <2> DEFINE w == Saying(c[k + 1], s)
  <2>1. k + 1 \in 1 .. k + 1 /\ \A i \in 1 .. k + 1 : i <= k + 1
    OBVIOUS
  <2>2. LastSays(c, s, k + 1, w)
    BY <1>1, <2>1 DEF LastSays
  <2>3. QED
    BY <1>1, <2>2
<1>2. CASE ~SaysOf(c[k + 1], s)
  <2>1. \A i \in 1 .. k + 1 : SaysOf(c[i], s) => i \in 1 .. k
    BY <1>0, <1>2
  <2>2. CASE v = Unsaid /\ \A j \in 1 .. k : ~SaysOf(c[j], s)
    <3>1. LastSays(c, s, k + 1, v)
      BY <2>1, <2>2 DEF LastSays
    <3>2. QED
      BY <1>2, <3>1
  <2>3. ASSUME NEW j \in 1 .. k, SaysOf(c[j], s), v = Saying(c[j], s),
               \A i \in 1 .. k : SaysOf(c[i], s) => i <= j
        PROVE  LastSays(c, s, k + 1, v)
    <3>1. j \in 1 .. k + 1
      OBVIOUS
    <3>2. QED
      BY <2>1, <2>3, <3>1 DEF LastSays
  <2>4. LastSays(c, s, k + 1, v)
    BY <2>2, <2>3, <1>2 DEF LastSays
  <2>5. QED
    BY <1>2, <2>4
<1>3. QED
  BY <1>1, <1>2

(* A setting of a resolution is what the last of the folded rules says     *)
(* that says something of it.                                              *)
LEMMA ScalarsAre ==
  ASSUME NEW c \in Seq(TableEntries), NEW s \in Scalars
  PROVE  LastSays(c, s, Len(c), Folded(c).scalars[s])
<1> DEFINE st == Folds(c)
           v(k) == st[k].scalars[s]
           T == {k \in Nat : k <= Len(c) => LastSays(c, s, k, v(k))}
<1>0. Len(c) \in Nat
  OBVIOUS
<1>1. /\ st[0] = NoResolution /\ Folded(c) = st[Len(c)]
      /\ \A k \in 1 .. Len(c) : st[k] = FoldRule(st[k - 1], c[k])
  BY FoldsAre
<1> HIDE DEF st
<1>2. 0 \in T
  <2>1. v(0) = Unsaid
    BY <1>1 DEF NoResolution, Unsaid
  <2>2. LastSays(c, s, 0, Unsaid)
    BY DEF LastSays
  <2>3. QED
    BY <2>1, <2>2
<1>3. ASSUME NEW k \in Nat, k \in T
      PROVE  k + 1 \in T
  <2> SUFFICES ASSUME k + 1 <= Len(c)
               PROVE  LastSays(c, s, k + 1, v(k + 1))
    OBVIOUS
  <2>1. k <= Len(c) /\ k + 1 \in 1 .. Len(c) /\ (k + 1) - 1 = k
    BY <1>0
  <2>2. LastSays(c, s, k, v(k))
    BY <1>3, <2>1
  <2>3. st[k + 1] = FoldRule(st[k], c[k + 1])
    BY <1>1, <2>1
  <2>4. FoldRule(st[k], c[k + 1]).scalars = FoldScalars(st[k].scalars, c[k + 1])
    BY DEF FoldRule
  <2>5. v(k + 1) = FoldScalars(st[k].scalars, c[k + 1])[s]
    BY <2>3, <2>4
  <2>6. v(k + 1) = IF SaysOf(c[k + 1], s) THEN Saying(c[k + 1], s) ELSE v(k)
    BY <2>5 DEF FoldScalars, SaysOf, Saying
  <2> HIDE DEF v
  <2>7. QED
    BY <2>2, <2>6, LastSaysMore
<1>4. \A k \in Nat : k \in T
  <2> HIDE DEF T
  <2>1. QED
    BY <1>2, <1>3, Joining!Induction
<1>5. QED
  BY <1>0, <1>1, <1>4

(* The inductive invariant implies that the narrowest rule wins.           *)
LEMMA NarrowestIs == CompatInv => NarrowestRuleWins
<1> SUFFICES ASSUME CompatInv, Running, NEW s \in Scalars
             PROVE  LET says == {i \in Hits : RuleAt(i).scalars[s] # Unset}
                    IN \/ says = {} /\ proc.res.scalars[s].value = Unset
                       \/ \E i \in says :
                            /\ \A j \in says \ {i} : Beats(i, j)
                            /\ proc.res.scalars[s] =
                                 [value |-> RuleAt(i).scalars[s], by |-> Origin(EntryAt(i))]
  BY DEF NarrowestRuleWins
<1> DEFINE says == {i \in Hits : RuleAt(i).scalars[s] # Unset}
<1>1. PICK c, at : Ranks(c, at) /\ proc.res = FoldDerivedEnv(Folded(c)) /\ Folded(c) \in Resolved
  BY RunningRanks
<1>2. proc.res.scalars = Folded(c).scalars
  BY <1>1, DerivedIs
<1>3. c \in Seq(TableEntries) /\ Len(c) \in Nat
  BY <1>1 DEF Ranks
<1> DEFINE v == proc.res.scalars[s]
<1>4. LastSays(c, s, Len(c), v)
  BY <1>2, <1>3, ScalarsAre
<1> HIDE DEF v
<1>5. /\ \A k \in 1 .. Len(c) : at[k] \in Hits /\ at[k] \in Nat /\ c[k] = EntryAt(at[k])
      /\ \A k, l \in 1 .. Len(c) : k < l <=> Beats(at[l], at[k])
      /\ \A i \in Hits : \E k \in 1 .. Len(c) : at[k] = i
  BY <1>1 DEF Ranks
<1>6. \A k \in 1 .. Len(c) : at[k] \in says <=> SaysOf(c[k], s)
  BY <1>5 DEF SaysOf, RuleAt
<1>7. \A i \in says : \E k \in 1 .. Len(c) : at[k] = i /\ SaysOf(c[k], s)
  <2> SUFFICES ASSUME NEW i \in says
               PROVE  \E k \in 1 .. Len(c) : at[k] = i /\ SaysOf(c[k], s)
    OBVIOUS
  <2>1. PICK k \in 1 .. Len(c) : at[k] = i
    BY <1>5
  <2>2. QED
    BY <1>6, <2>1
<1> HIDE DEF says
<1>8. CASE v = Unsaid /\ \A k \in 1 .. Len(c) : ~SaysOf(c[k], s)
  <2>1. says = {}
    BY <1>7, <1>8
  <2>2. v.value = Unset
    BY <1>8 DEF Unsaid
  <2>3. QED
    BY <2>1, <2>2 DEF says, v
<1>9. ASSUME NEW k \in 1 .. Len(c), SaysOf(c[k], s), v = Saying(c[k], s),
             \A i \in 1 .. Len(c) : SaysOf(c[i], s) => i <= k
      PROVE  \E i \in says : (\A j \in says \ {i} : Beats(i, j)) /\ v = Saying(EntryAt(i), s)
  <2>1. at[k] \in says /\ v = Saying(EntryAt(at[k]), s)
    BY <1>5, <1>6, <1>9
  <2>2. ASSUME NEW j \in says \ {at[k]}
        PROVE  Beats(at[k], j)
    <3>1. PICK l \in 1 .. Len(c) : at[l] = j /\ SaysOf(c[l], s)
      BY <1>7
    <3>2. l <= k /\ l # k
      BY <1>9, <3>1
    <3>3. l < k
      BY <3>2
    <3>4. QED
      BY <1>5, <3>1, <3>3
  <2>3. QED
    BY <2>1, <2>2
<1>10. CASE \E i \in says : (\A j \in says \ {i} : Beats(i, j)) /\ v = Saying(EntryAt(i), s)
  BY <1>10 DEF says, v, Saying, RuleAt
<1>11. QED
  BY <1>4, <1>8, <1>9, <1>10 DEF LastSays

(* Every setting of a process is what the rule says that beats all others  *)
(* that match and say something of it, and the log names that rule         *)
(* (resolve.rs, Resolution::resolve and fold).                             *)
THEOREM NarrowestWins == Spec => []NarrowestRuleWins
<1>1. QED
  BY NarrowestIs, CompatInvariant, PTL

HasText(arguments, text) == \E n \in 1 .. Len(arguments) : arguments[n].text = text
Replaces(e) == e.rule.override # <<>> /\ ~IsSteamApp(e.rule.exe)

(* Are a rule's arguments among these?                                     *)
HasArguments(arguments, e) ==
  \A m \in 1 .. Len(e.rule.arguments) : HasText(arguments, e.rule.arguments[m])

(* A rule's arguments are there once it is folded, and those before it too *)
(* unless it replaces them.                                                *)
LEMMA ArgumentsFold ==
  ASSUME NEW a \in Seq(Sayings), NEW e \in TableEntries
  PROVE  /\ HasArguments(FoldArguments(a, e), e)
         /\ ~Replaces(e) => \A text : HasText(a, text) => HasText(FoldArguments(a, e), text)
<1> DEFINE b == IF e.rule.override = <<>> \/ IsSteamApp(e.rule.exe) THEN a
                ELSE From(e.rule.override[1], e)
           new == From(e.rule.arguments, e)
           f == FoldArguments(a, e)
<1>1. b \in Seq(Sayings)
  <2>1. CASE Replaces(e)
    <3>1. e.rule.override[1] \in Seq(AnyText)
      BY <2>1, RuleType DEF Replaces
    <3>2. From(e.rule.override[1], e) \in Seq(Sayings)
      BY <3>1, FromType
    <3>3. QED
      BY <2>1, <3>2 DEF Replaces
  <2>2. CASE ~Replaces(e)
    BY <2>2 DEF Replaces
  <2>3. QED
    BY <2>1, <2>2
<1> DEFINE args == e.rule.arguments
<1>2. /\ new \in Seq(Sayings) /\ Len(new) = Len(args) /\ args \in Seq(AnyText)
      /\ \A i \in 1 .. Len(args) : new[i].text = args[i]
  <2>1. args \in Seq(AnyText)
    BY RuleType
  <2>2. /\ new \in Seq(Sayings) /\ Len(new) = Len(args)
        /\ \A i \in 1 .. Len(args) : new[i] = [text |-> args[i], from |-> Origin(e)]
    BY <2>1, FromType
  <2> HIDE DEF new, args
  <2>3. ASSUME NEW i \in 1 .. Len(args)
        PROVE  new[i].text = args[i]
    <3>1. new[i] = [text |-> args[i], from |-> Origin(e)]
      BY <2>2
    <3>2. QED
      BY ONLY <3>1
  <2>4. QED
    BY <2>1, <2>2, <2>3
<1>3. f = b \o new
  BY Zenon DEF FoldArguments
<1>4. ~Replaces(e) => b = a
  BY DEF Replaces
<1> HIDE DEF b, new, f, args
<1>5. Len(f) = Len(b) + Len(new) /\ Len(b) \in Nat /\ Len(new) \in Nat
      /\ (\A i \in 1 .. Len(b) : f[i] = b[i])
      /\ \A i \in 1 .. Len(new) : f[Len(b) + i] = new[i]
  <2>1. b \in Seq(Sayings) /\ new \in Seq(Sayings)
    BY <1>1, <1>2
  <2>2. QED
    BY ONLY <1>3, <2>1
<1>6. ASSUME NEW m \in 1 .. Len(args)
      PROVE  HasText(f, args[m])
  <2>1. Len(b) + m \in 1 .. Len(f)
    BY <1>2, <1>5
  <2>2. f[Len(b) + m].text = args[m]
    BY <1>2, <1>5
  <2>3. QED
    BY <2>1, <2>2 DEF HasText
<1>7. ASSUME ~Replaces(e), NEW text, HasText(a, text)
      PROVE  HasText(f, text)
  <2>1. PICK n \in 1 .. Len(b) : b[n].text = text
    BY <1>4, <1>7 DEF HasText
  <2>2. n \in 1 .. Len(f) /\ f[n].text = text
    BY <1>5, <2>1
  <2>3. QED
    BY <2>2 DEF HasText
<1>8. QED
  BY <1>6, <1>7 DEF f, HasArguments, args

(* After k rules: the arguments of each but those replaced since.          *)
ArgumentsStay(c, k, arguments) ==
  \A i \in 1 .. k : (\A j \in i + 1 .. k : ~Replaces(c[j])) => HasArguments(arguments, c[i])

(* Arguments that were there stay with one rule more unless it replaces    *)
(* them.                                                                   *)
LEMMA ArgumentsStayMore ==
  ASSUME NEW c, NEW k \in Nat, c[k + 1] \in TableEntries, NEW a \in Seq(Sayings),
         ArgumentsStay(c, k, a)
  PROVE  ArgumentsStay(c, k + 1, FoldArguments(a, c[k + 1]))
<1> DEFINE e == c[k + 1]
           f == FoldArguments(a, e)
<1>1. /\ HasArguments(f, e)
      /\ ~Replaces(e) => \A text : HasText(a, text) => HasText(f, text)
  BY ArgumentsFold
<1> HIDE DEF f
<1>2. ASSUME NEW i \in 1 .. k + 1, \A j \in i + 1 .. k + 1 : ~Replaces(c[j])
      PROVE  HasArguments(f, c[i])
  <2>1. CASE i = k + 1
    BY <1>1, <2>1
  <2>2. CASE i # k + 1
    <3>1. i \in 1 .. k /\ k + 1 \in i + 1 .. k + 1 /\ \A j \in i + 1 .. k : j \in i + 1 .. k + 1
      BY <2>2
    <3>2. HasArguments(a, c[i])
      BY <1>2, <3>1 DEF ArgumentsStay
    <3>3. \A text : HasText(a, text) => HasText(f, text)
      BY <1>1, <1>2, <3>1
    <3>4. QED
      BY <3>2, <3>3, Zenon DEF HasArguments
  <2>3. QED
    BY <2>1, <2>2
<1>3. QED
  BY <1>2 DEF ArgumentsStay, f

(* The arguments of a resolution: those of every rule that no later one    *)
(* replaces.                                                               *)
LEMMA ArgumentsAre ==
  ASSUME NEW c \in Seq(TableEntries)
  PROVE  ArgumentsStay(c, Len(c), Folded(c).arguments)
<1> DEFINE st == Folds(c)
           v(k) == st[k].arguments
           T == {k \in Nat : k <= Len(c) => ArgumentsStay(c, k, v(k))}
<1>0. Len(c) \in Nat /\ \A k \in 1 .. Len(c) : c[k] \in TableEntries
  OBVIOUS
<1>1. /\ st[0] = NoResolution /\ Folded(c) = st[Len(c)]
      /\ \A k \in 1 .. Len(c) : st[k] = FoldRule(st[k - 1], c[k])
      /\ \A k \in 0 .. Len(c) : st[k] \in Resolved
  BY FoldsAre
<1> HIDE DEF st
<1>2. 0 \in T
  <2> HIDE DEF v
  <2>1. ArgumentsStay(c, 0, v(0))
    BY DEF ArgumentsStay
  <2>2. QED
    BY <2>1
<1>3. ASSUME NEW k \in Nat, k \in T
      PROVE  k + 1 \in T
  <2> SUFFICES ASSUME k + 1 <= Len(c)
               PROVE  ArgumentsStay(c, k + 1, v(k + 1))
    OBVIOUS
  <2>1. k <= Len(c) /\ k + 1 \in 1 .. Len(c) /\ (k + 1) - 1 = k /\ k \in 0 .. Len(c)
    BY <1>0
  <2>2. ArgumentsStay(c, k, v(k))
    BY <1>3, <2>1
  <2>3. st[k + 1] = FoldRule(st[k], c[k + 1])
    BY <1>1, <2>1
  <2>4. v(k + 1) = FoldArguments(v(k), c[k + 1])
    BY <2>3 DEF FoldRule
  <2>5. v(k) \in Seq(Sayings)
    <3>1. st[k] \in Resolved
      BY <1>1, <2>1
    <3>2. QED
      BY <3>1 DEF Resolved, Resolutions
  <2>6. c[k + 1] \in TableEntries
    BY <1>0, <2>1
  <2> HIDE DEF v
  <2>7. QED
    BY <2>2, <2>4, <2>5, <2>6, ArgumentsStayMore
<1>4. \A k \in Nat : k \in T
  <2> HIDE DEF T
  <2>1. QED
    BY <1>2, <1>3, Joining!Induction
<1>5. QED
  BY <1>0, <1>1, <1>4

(* The inductive invariant implies that arguments are kept.                *)
LEMMA KeepIs == CompatInv => AppsKeepArguments
<1> DEFINE texts == {a.text : a \in ToSet(proc.res.arguments)}
           replaces(j) == RuleAt(j).override # <<>> /\ ~IsSteamApp(RuleAt(j).exe)
<1> SUFFICES ASSUME CompatInv, Running, NEW i \in Hits,
                    \A j \in Hits : replaces(j) => ~Beats(j, i)
             PROVE  ToSet(RuleAt(i).arguments) \subseteq texts
  BY DEF AppsKeepArguments
<1>1. PICK c, at : Ranks(c, at) /\ proc.res = FoldDerivedEnv(Folded(c)) /\ Folded(c) \in Resolved
  BY RunningRanks
<1>2. proc.res.arguments = Folded(c).arguments
  BY <1>1, DerivedIs
<1>3. c \in Seq(TableEntries) /\ Len(c) \in Nat
  BY <1>1 DEF Ranks
<1> DEFINE v == proc.res.arguments
<1>4. ArgumentsStay(c, Len(c), v) /\ v \in Seq(Sayings)
  <2>1. ArgumentsStay(c, Len(c), v)
    BY <1>2, <1>3, ArgumentsAre
  <2>2. v \in Seq(Sayings)
    BY <1>1, <1>2 DEF Resolved, Resolutions
  <2>3. QED
    BY <2>1, <2>2
<1> HIDE DEF v
<1>5. /\ \A k \in 1 .. Len(c) : at[k] \in Hits /\ at[k] \in Nat /\ c[k] = EntryAt(at[k])
      /\ \A k, l \in 1 .. Len(c) : k < l <=> Beats(at[l], at[k])
  BY <1>1 DEF Ranks
<1>6. PICK k \in 1 .. Len(c) : at[k] = i
  BY <1>1 DEF Ranks
<1>7. ASSUME NEW j \in k + 1 .. Len(c)
      PROVE  ~Replaces(c[j])
  <2>1. j \in 1 .. Len(c) /\ k < j
    BY <1>3
  <2>2. Beats(at[j], i) /\ at[j] \in Hits /\ c[j] = EntryAt(at[j])
    BY <1>5, <1>6, <2>1
  <2>3. ~replaces(at[j])
    BY <2>2
  <2>4. QED
    BY <2>2, <2>3 DEF Replaces, RuleAt
<1>8. HasArguments(v, EntryAt(i))
  <2>1. HasArguments(v, c[k])
    BY <1>4, <1>7 DEF ArgumentsStay
  <2>2. QED
    BY <1>5, <1>6, <2>1
<1>9. EntryAt(i) \in TableEntries
  <2>1. c[k] \in TableEntries /\ c[k] = EntryAt(i)
    BY <1>3, <1>5, <1>6
  <2>2. QED
    BY <2>1
<1>10. RuleAt(i).arguments \in Seq(AnyText)
  BY <1>9, RuleType DEF RuleAt
<1>11. ASSUME NEW m \in 1 .. Len(RuleAt(i).arguments)
       PROVE  RuleAt(i).arguments[m] \in texts
  <2>1. PICK n \in 1 .. Len(v) : v[n].text = RuleAt(i).arguments[m]
    BY <1>8 DEF HasArguments, HasText, RuleAt
  <2>2. v[n] \in ToSet(v)
    BY <1>4 DEF ToSet
  <2>3. QED
    BY <2>1, <2>2 DEF v
<1>12. QED
  BY <1>10, <1>11 DEF ToSet

(* What a rule adds to the command line stays unless a rule for one        *)
(* program that beats it has an override; a rule for a Steam app takes no  *)
(* argument away (resolve.rs, fold of arguments_override).                 *)
THEOREM ArgumentsAreKept == Spec => []AppsKeepArguments
<1>1. QED
  BY KeepIs, CompatInvariant, PTL

(* The HUD's place: before the entries of the rule that sets it and of     *)
(* those that beat it.                                                     *)
HudPlaced(c, k, env, hudAt, of) ==
  \A j \in 1 .. k :
    /\ SaysOf(c[j], "metal_hud") /\ c[j].rule.scalars["metal_hud"] # Default
    /\ \A i \in j + 1 .. k : ~SaysOf(c[i], "metal_hud")
    => \A i \in 1 .. Len(env) : i <= hudAt <=> of[i] < j

(* The HUD's entries are placed before those of the rule that set the HUD, *)
(* and stay there with one rule more.                                      *)
LEMMA HudMore ==
  ASSUME NEW c, NEW k \in Nat, NEW r \in Resolved, NEW of1, NEW at1,
         IsListed(r.env, c, k, of1, at1), HudPlaced(c, k, r.env, r.hudAt, of1),
         NEW env, NEW of, Len(env) \in Nat, Len(env) >= Len(r.env),
         \A i \in 1 .. Len(r.env) : of[i] = of1[i],
         \A i \in 1 .. Len(env) : i > Len(r.env) => of[i] = k + 1
  PROVE  HudPlaced(c, k + 1, env, HudAt(r, c[k + 1]), of)
<1> DEFINE e == c[k + 1]
           a == Len(r.env)
           h == r.hudAt
<1>1. a \in Nat /\ h \in 0 .. a
  <2>1. r.env \in Seq(EnvItems) /\ r.hudAt \in Nat /\ r.hudAt <= Len(r.env)
    BY DEF Resolved, Resolutions
  <2>2. QED
    BY <2>1
<1>2. \A i \in 1 .. a : of1[i] \in 1 .. k
  BY DEF IsListed
<1> SUFFICES ASSUME NEW j \in 1 .. k + 1,
                    SaysOf(c[j], "metal_hud"), c[j].rule.scalars["metal_hud"] # Default,
                    \A i \in j + 1 .. k + 1 : ~SaysOf(c[i], "metal_hud"),
                    NEW i \in 1 .. Len(env)
             PROVE  i <= HudAt(r, e) <=> of[i] < j
  BY DEF HudPlaced
<1>3. CASE j = k + 1
  <2>1. HudAt(r, e) = a
    BY <1>3 DEF HudAt, SaysOf
  <2>2. CASE i <= a
    BY <1>2, <1>3, <2>1, <2>2
  <2>3. CASE ~(i <= a)
    <3>1. of[i] = k + 1
      BY <1>1, <2>3
    <3>2. QED
      BY <1>3, <2>1, <2>3, <3>1
  <2>4. QED
    BY <2>2, <2>3
<1>4. CASE j # k + 1
  <2>1. j \in 1 .. k /\ k + 1 \in j + 1 .. k + 1 /\ \A l \in j + 1 .. k : l \in j + 1 .. k + 1
    BY <1>4
  <2>2. ~SaysOf(e, "metal_hud")
    BY <2>1
  <2>3. HudAt(r, e) = h
    BY <2>2 DEF HudAt, SaysOf
  <2>4. \A l \in 1 .. a : l <= h <=> of1[l] < j
    BY <2>1 DEF HudPlaced
  <2>5. CASE i <= a
    <3>1. i \in 1 .. a
      BY <1>1, <2>5
    <3>2. QED
      BY <2>3, <2>4, <3>1
  <2>6. CASE ~(i <= a)
    <3>1. of[i] = k + 1 /\ ~(i <= h)
      BY <1>1, <2>6
    <3>2. ~(k + 1 < j)
      BY <2>1
    <3>3. QED
      BY <2>3, <3>1, <3>2
  <2>7. QED
    BY <2>5, <2>6
<1>5. QED
  BY <1>3, <1>4

(* The environment of a resolution: the entries of the folded rules, in    *)
(* their order, and the HUD's place before those of the rule that set it.  *)
LEMMA EnvIs ==
  ASSUME NEW c \in Seq(TableEntries)
  PROVE  \E of, at : /\ IsListed(Folded(c).env, c, Len(c), of, at)
                     /\ HudPlaced(c, Len(c), Folded(c).env, Folded(c).hudAt, of)
<1> DEFINE st == Folds(c)
           env(k) == st[k].env
           hud(k) == st[k].hudAt
           Q(k) == \E of, at : IsListed(env(k), c, k, of, at) /\ HudPlaced(c, k, env(k), hud(k), of)
           T == {k \in Nat : k <= Len(c) => Q(k)}
<1>0. Len(c) \in Nat /\ \A k \in 1 .. Len(c) : c[k] \in TableEntries
  OBVIOUS
<1>1. /\ st[0] = NoResolution /\ Folded(c) = st[Len(c)]
      /\ \A k \in 1 .. Len(c) : st[k] = FoldRule(st[k - 1], c[k])
      /\ \A k \in 0 .. Len(c) : st[k] \in Resolved
  BY FoldsAre
<1> HIDE DEF st
<1>2. 0 \in T
  <2>1. Len(env(0)) = 0
    BY <1>1 DEF NoResolution
  <2> HIDE DEF env, hud
  <2>2. \A of, at : IsListed(env(0), c, 0, of, at) /\ HudPlaced(c, 0, env(0), hud(0), of)
    BY <2>1 DEF IsListed, HudPlaced
  <2>3. QED
    BY <2>2
<1>3. ASSUME NEW k \in Nat, k \in T
      PROVE  k + 1 \in T
  <2> SUFFICES ASSUME k + 1 <= Len(c)
               PROVE  Q(k + 1)
    OBVIOUS
  <2>1. k <= Len(c) /\ k + 1 \in 1 .. Len(c) /\ (k + 1) - 1 = k /\ k \in 0 .. Len(c)
    BY <1>0
  <2>2. PICK of1, at1 : IsListed(env(k), c, k, of1, at1) /\ HudPlaced(c, k, env(k), hud(k), of1)
    BY <1>3, <2>1
  <2> DEFINE e == c[k + 1]
  <2>3. st[k + 1] = FoldRule(st[k], e)
    BY <1>1, <2>1
  <2>4. env(k + 1) = env(k) \o EnvOf(e) /\ hud(k + 1) = HudAt(st[k], e)
    <3> DEFINE x == st[k].env \o EnvOf(e)
               y == HudAt(st[k], e)
               scalars == FoldScalars(st[k].scalars, e)
               dlls == FoldDlls(st[k].dlls, e)
               arguments == FoldArguments(st[k].arguments, e)
               ignored == IgnoredEntry(st[k], e)
               channels == st[k].channels \o From(e.rule.channels, e)
    <3>1. FoldRule(st[k], e) =
            [scalars |-> scalars, dlls |-> dlls, arguments |-> arguments, ignored |-> ignored,
             channels |-> channels, hudAt |-> y, env |-> x]
      BY FoldRuleIs, Zenon
    <3> HIDE DEF x, y, scalars, dlls, arguments, ignored, channels, e
    <3>2. st[k + 1].env = x /\ st[k + 1].hudAt = y
      BY <2>3, <3>1
    <3>3. QED
      BY <3>2, Zenon DEF x, y
  <2>5. st[k] \in Resolved /\ env(k) \in Seq(EnvItems) /\ e \in TableEntries
    <3>1. st[k] \in Resolved /\ e \in TableEntries
      BY <1>0, <1>1, <2>1
    <3>2. QED
      BY <3>1 DEF Resolved, Resolutions
  <2>6. PICK of, at : /\ IsListed(env(k) \o EnvOf(e), c, k + 1, of, at)
                      /\ \A i \in 1 .. Len(env(k)) : of[i] = of1[i]
                      /\ \A i \in 1 .. Len(env(k) \o EnvOf(e)) : i > Len(env(k)) => of[i] = k + 1
    <3> HIDE DEF env, hud
    <3>1. QED
      BY <2>2, <2>5, ListedMore
  <2> DEFINE new == env(k + 1)
             old == env(k)
  <2>7. Len(new) \in Nat /\ Len(new) >= Len(old)
    <3>1. EnvOf(e) \in Seq(EnvItems)
      BY <2>5, EnvOfIs
    <3> HIDE DEF env, hud
    <3>2. QED
      BY <2>4, <2>5, <3>1
  <2>8. HudPlaced(c, k + 1, new, HudAt(st[k], e), of)
    <3>1. \A i \in 1 .. Len(new) : i > Len(old) => of[i] = k + 1
      BY <2>4, <2>6
    <3>2. HudPlaced(c, k, st[k].env, st[k].hudAt, of1) /\ IsListed(st[k].env, c, k, of1, at1)
      BY <2>2
    <3> HIDE DEF new
    <3>3. QED
      BY <2>5, <2>6, <2>7, <3>1, <3>2, HudMore
  <2>9. QED
    BY <2>4, <2>6, <2>8
<1>4. \A k \in Nat : k \in T
  <2> HIDE DEF T
  <2>1. QED
    BY <1>2, <1>3, Joining!Induction
<1>5. QED
  BY <1>0, <1>1, <1>4

(* Of n writes, write j of val[j] to key[j], the last one to x stays.      *)
LastWrite(n, key, val, x, old, new) ==
  \/ new = old /\ \A j \in 1 .. n : key[j] # x
  \/ \E j \in 1 .. n : key[j] = x /\ new = val[j] /\ \A i \in 1 .. n : key[i] = x => i <= j

(* What a variable holds after several writes, with one write more.        *)
LEMMA LastWriteMore ==
  ASSUME NEW k \in Nat, NEW key, NEW val, NEW x, NEW old, NEW new, LastWrite(k, key, val, x, old, new)
  PROVE  LastWrite(k + 1, key, val, x, old, IF key[k + 1] = x THEN val[k + 1] ELSE new)
<1>0. \A i \in 1 .. k + 1 : i \in 1 .. k \/ i = k + 1
  OBVIOUS
<1>1. CASE key[k + 1] = x
  <2> DEFINE w == val[k + 1]
  <2>1. k + 1 \in 1 .. k + 1 /\ \A i \in 1 .. k + 1 : i <= k + 1
    OBVIOUS
  <2>2. LastWrite(k + 1, key, val, x, old, w)
    BY <1>1, <2>1 DEF LastWrite
  <2>3. QED
    BY <1>1, <2>2
<1>2. CASE key[k + 1] # x
  <2>1. \A i \in 1 .. k + 1 : key[i] = x => i \in 1 .. k
    BY <1>0, <1>2
  <2>2. CASE new = old /\ \A j \in 1 .. k : key[j] # x
    <3>1. LastWrite(k + 1, key, val, x, old, new)
      BY <2>1, <2>2 DEF LastWrite
    <3>2. QED
      BY <1>2, <3>1
  <2>3. ASSUME NEW j \in 1 .. k, key[j] = x, new = val[j],
               \A i \in 1 .. k : key[i] = x => i <= j
        PROVE  LastWrite(k + 1, key, val, x, old, new)
    <3>1. j \in 1 .. k + 1
      OBVIOUS
    <3>2. QED
      BY <2>1, <2>3, <3>1 DEF LastWrite
  <2>4. LastWrite(k + 1, key, val, x, old, new)
    BY <2>2, <2>3, <1>2 DEF LastWrite
  <2>5. QED
    BY <1>2, <2>4
<1>3. QED
  BY <1>1, <1>2

(* A variable holds what the last write to it wrote, or what it held.      *)
LEMMA LastWriteStays ==
  ASSUME NEW n \in Nat, NEW key, NEW val, NEW f, NEW x \in DOMAIN f[0],
         \A k \in 1 .. n : f[k] = [f[k - 1] EXCEPT ![key[k]] = val[k]]
  PROVE  LastWrite(n, key, val, x, f[0][x], f[n][x])
<1> DEFINE old == f[0][x]
           T == {k \in Nat : k <= n => x \in DOMAIN f[k] /\ LastWrite(k, key, val, x, old, f[k][x])}
<1>1. 0 \in T
  <2>1. LastWrite(0, key, val, x, old, old)
    BY DEF LastWrite
  <2>2. QED
    BY <2>1
<1>2. ASSUME NEW k \in Nat, k \in T
      PROVE  k + 1 \in T
  <2> SUFFICES ASSUME k + 1 <= n
               PROVE  x \in DOMAIN f[k + 1] /\ LastWrite(k + 1, key, val, x, old, f[k + 1][x])
    OBVIOUS
  <2> DEFINE g == f[k]
             h == f[k + 1]
  <2>1. x \in DOMAIN g /\ LastWrite(k, key, val, x, old, g[x])
    BY <1>2
  <2>2. h = [g EXCEPT ![key[k + 1]] = val[k + 1]]
    <3>1. k + 1 \in 1 .. n /\ (k + 1) - 1 = k
      OBVIOUS
    <3>2. QED
      BY <3>1
  <2> HIDE DEF g, h, old
  <2>3. x \in DOMAIN h /\ h[x] = IF key[k + 1] = x THEN val[k + 1] ELSE g[x]
    BY <2>1, <2>2
  <2>4. LastWrite(k + 1, key, val, x, old, h[x])
    BY <2>1, <2>3, LastWriteMore
  <2>5. QED
    BY <2>3, <2>4 DEF h
<1>3. \A k \in Nat : k \in T
  <2> HIDE DEF T
  <2>1. QED
    BY <1>1, <1>2, Joining!Induction
<1>4. QED
  BY <1>3

(* The entries of some steps that apply, in order.                         *)
Entered(all) == Selected(all, {i \in DOMAIN all : all[i].applied})

(* What is at x in the end: what was there, or the value of the last of    *)
(* the entries with that key that apply.                                   *)
LastEntered(all, key, x, old, new) ==
  \/ new = old /\ \A i \in 1 .. Len(all) : all[i].applied => key[i] # x
  \/ \E i \in 1 .. Len(all) :
       /\ all[i].applied /\ key[i] = x /\ new = Value(all[i])
       /\ \A j \in 1 .. Len(all) : all[j].applied /\ key[j] = x => j <= i

(* The last write among the applied entries is the last entry that is      *)
(* applied and has the key.                                                *)
LEMMA EnteredIs ==
  ASSUME NEW all \in Seq(StepItems), NEW key, NEW x, NEW old, NEW new, NEW at,
         IsPlaced(Entered(all), all, {i \in DOMAIN all : all[i].applied}, at),
         LastWrite(Len(Entered(all)), [k \in 1 .. Len(Entered(all)) |-> key[at[k]]],
                   [k \in 1 .. Len(Entered(all)) |-> Value(Entered(all)[k])], x, old, new)
  PROVE  LastEntered(all, key, x, old, new)
<1> DEFINE es == Entered(all)
           n == Len(es)
           I == {i \in DOMAIN all : all[i].applied}
           ky == [k \in 1 .. n |-> key[at[k]]]
           vl == [k \in 1 .. n |-> Value(es[k])]
<1>1. /\ n \in Nat
      /\ \A k \in 1 .. n : at[k] \in 1 .. Len(all) /\ at[k] \in I /\ es[k] = all[at[k]]
      /\ \A k, l \in 1 .. n : k < l => at[k] < at[l]
      /\ \A i \in 1 .. Len(all) : i \in I => \E k \in 1 .. n : at[k] = i
  <2> HIDE DEF I, es
  <2>1. IsPlaced(es, all, I, at)
    BY DEF I, es
  <2>2. QED
    BY <2>1 DEF IsPlaced
<1>2. DOMAIN all = 1 .. Len(all) /\ Len(all) \in Nat
  OBVIOUS
<1>3. \A i : i \in I <=> i \in 1 .. Len(all) /\ all[i].applied
  BY <1>2
<1>4. LastWrite(n, ky, vl, x, old, new)
  OBVIOUS
<1>5. /\ \A k \in 1 .. n : ky[k] = key[at[k]] /\ vl[k] = Value(all[at[k]])
  BY <1>1
<1> HIDE DEF es, n, I, ky, vl
<1>6. CASE new = old /\ \A j \in 1 .. n : ky[j] # x
  <2>1. ASSUME NEW i \in 1 .. Len(all), all[i].applied
        PROVE  key[i] # x
    <3>1. PICK k \in 1 .. n : at[k] = i
      BY <1>1, <1>3, <2>1
    <3>2. QED
      BY <1>5, <1>6, <3>1
  <2>2. QED
    BY <1>6, <2>1 DEF LastEntered
<1>7. ASSUME NEW k \in 1 .. n, ky[k] = x, new = vl[k], \A i \in 1 .. n : ky[i] = x => i <= k
      PROVE  LastEntered(all, key, x, old, new)
  <2>1. at[k] \in 1 .. Len(all) /\ all[at[k]].applied /\ key[at[k]] = x /\ new = Value(all[at[k]])
    BY <1>1, <1>3, <1>5, <1>7
  <2>2. ASSUME NEW j \in 1 .. Len(all), all[j].applied, key[j] = x
        PROVE  j <= at[k]
    <3>1. PICK l \in 1 .. n : at[l] = j
      BY <1>1, <1>3, <2>2
    <3>2. l <= k
      BY <1>5, <1>7, <2>2, <3>1
    <3>3. CASE l < k
      <4>1. at[l] < at[k]
        BY <1>1, <3>3
      <4>2. QED
        BY <2>1, <3>1, <4>1
    <3>4. CASE l = k
      BY <2>1, <3>1, <3>4
    <3>5. QED
      BY <3>2, <3>3, <3>4
  <2>3. QED
    BY <2>1, <2>2 DEF LastEntered
<1>8. QED
  BY <1>4, <1>6, <1>7 DEF LastWrite

VariablesOf(all) == [i \in 1 .. Len(all) |-> Variable[all[i].name]]
NamesOf(all) == [i \in 1 .. Len(all) |-> all[i].name]

(* What the block holds after merge_env: the value of the last applied     *)
(* entry for the variable, or what it held.                                *)
LEMMA BlockIs ==
  ASSUME NEW all \in Seq(StepItems), NEW block, NEW v \in DOMAIN block
  PROVE  LastEntered(all, VariablesOf(all), v, block[v], MergeEnv(block, Entered(all))[v])
<1> DEFINE es == Entered(all)
           n == Len(es)
           f == InBlock!States(block, es)
           I == {i \in DOMAIN all : all[i].applied}
           key == VariablesOf(all)
<1>1. PICK at : IsPlaced(es, all, I, at)
  BY SelectedInOrder DEF Entered
<1>2. es \in Seq(StepItems)
  BY SelectedType DEF Entered
<1>3. MergeEnv(block, es) = f[n]
  BY Zenon DEF MergeEnv, InBlock!Fold
<1> HIDE DEF es
<1>4. n \in Nat
  BY <1>2
<1>5. f[0] = block /\ \A k \in 1 .. n : f[k] = MergeEntry(f[k - 1], es[k])
  BY <1>4, InBlock!StatesStep
<1> DEFINE ky == [k \in 1 .. n |-> key[at[k]]]
           vl == [k \in 1 .. n |-> Value(es[k])]
<1>6. \A k \in 1 .. n : ky[k] = Variable[es[k].name] /\ vl[k] = Value(es[k])
  <2>1. \A k \in 1 .. n : at[k] \in 1 .. Len(all) /\ es[k] = all[at[k]]
    BY <1>1 DEF IsPlaced
  <2>2. \A i \in 1 .. Len(all) : key[i] = Variable[all[i].name]
    BY DEF VariablesOf
  <2> HIDE DEF key
  <2>3. QED
    BY <2>1, <2>2
<1> HIDE DEF f, n, ky, vl, key
<1>7. \A k \in 1 .. n : f[k] = [f[k - 1] EXCEPT ![ky[k]] = vl[k]]
  BY <1>5, <1>6 DEF MergeEntry
<1>8. v \in DOMAIN f[0]
  BY <1>5
<1>9. LastWrite(n, ky, vl, v, f[0][v], f[n][v])
  BY <1>4, <1>7, <1>8, LastWriteStays
<1> DEFINE new == f[n][v]
           old == block[v]
<1>10. LastWrite(n, ky, vl, v, old, new)
  BY <1>5, <1>9
<1> HIDE DEF new, old
<1>11. LastEntered(all, key, v, old, new)
  BY <1>1, <1>10, EnteredIs DEF n, ky, vl, es
<1>12. QED
  BY <1>3, <1>11 DEF new, old, key, es

(* What the unix environment holds after setenv and unsetenv: the value of *)
(* the last applied entry for the name, or what it held.                   *)
LEMMA UnixIs ==
  ASSUME NEW all \in Seq(StepItems), NEW unix, NEW v \in DOMAIN unix
  PROVE  LastEntered(all, NamesOf(all), v, unix[v], UnixEnv(unix, Entered(all))[v])
<1> DEFINE es == Entered(all)
           n == Len(es)
           f == InUnix!States(unix, es)
           I == {i \in DOMAIN all : all[i].applied}
           key == NamesOf(all)
<1>1. PICK at : IsPlaced(es, all, I, at)
  BY SelectedInOrder DEF Entered
<1>2. es \in Seq(StepItems)
  BY SelectedType DEF Entered
<1>3. UnixEnv(unix, es) = f[n]
  BY Zenon DEF UnixEnv, InUnix!Fold
<1> HIDE DEF es
<1>4. n \in Nat
  BY <1>2
<1>5. f[0] = unix /\ \A k \in 1 .. n : f[k] = SetEnv(f[k - 1], es[k])
  BY <1>4, InUnix!StatesStep
<1> DEFINE ky == [k \in 1 .. n |-> key[at[k]]]
           vl == [k \in 1 .. n |-> Value(es[k])]
<1>6. \A k \in 1 .. n : ky[k] = es[k].name /\ vl[k] = Value(es[k])
  <2>1. \A k \in 1 .. n : at[k] \in 1 .. Len(all) /\ es[k] = all[at[k]]
    BY <1>1 DEF IsPlaced
  <2>2. \A i \in 1 .. Len(all) : key[i] = all[i].name
    BY DEF NamesOf
  <2> HIDE DEF key
  <2>3. QED
    BY <2>1, <2>2
<1> HIDE DEF f, n, ky, vl, key
<1>7. \A k \in 1 .. n : f[k] = [f[k - 1] EXCEPT ![ky[k]] = vl[k]]
  BY <1>5, <1>6 DEF SetEnv
<1>8. v \in DOMAIN f[0]
  BY <1>5
<1>9. LastWrite(n, ky, vl, v, f[0][v], f[n][v])
  BY <1>4, <1>7, <1>8, LastWriteStays
<1> DEFINE new == f[n][v]
           old == unix[v]
<1>10. LastWrite(n, ky, vl, v, old, new)
  BY <1>5, <1>9
<1> HIDE DEF new, old
<1>11. LastEntered(all, key, v, old, new)
  BY <1>1, <1>10, EnteredIs DEF n, ky, vl, es
<1>12. QED
  BY <1>3, <1>11 DEF new, old, key, es

(* What is known of the environments of a process that runs.               *)
EnvIsEntered(all) ==
  /\ all \in Seq(StepItems)
  /\ \A n \in Names : LastEntered(all, NamesOf(all), n, Given.unix[n], proc.unix[n])
  /\ \A v \in Blocks : "block" \notin proc.refused =>
       LastEntered(all, VariablesOf(all), v, Given.block[v], proc.block[v])
  /\ "block" \in proc.refused => proc.block = Given.block

(* A process that runs has its log's steps from the resolution's           *)
(* environment, and its two environments from the steps that are applied.  *)
LEMMA RunningEnv ==
  ASSUME CompatInv, Running
  PROVE  LET has == Has(Given.unix, Given.block)
         IN /\ proc.res.env \in Seq(FinalItems)
            /\ proc.steps = EnvSteps(proc.res.env, has)
            /\ EnvIsEntered(AllSteps(proc.res.env, has))
<1> DEFINE env == proc.res.env
           has == Has(Given.unix, Given.block)
           all == AllSteps(env, has)
<1>1. /\ proc.rules \in Seq(TableEntries)
      /\ proc.res = FoldDerivedEnv(Resolve(BuiltInTable \o proc.rules,
                                           Image(proc.image, Given.block)))
      /\ proc.steps = EnvSteps(env, has)
      /\ DOMAIN Given.unix = Names /\ DOMAIN Given.block = Blocks
      /\ proc.block = IF "block" \in proc.refused THEN Given.block
                      ELSE MergeEnv(Given.block, AppliedEntries(proc.steps))
      /\ proc.unix = UnixEnv(Given.unix, AppliedEntries(proc.steps))
  BY RunningIs DEF Applied, Given
<1>2. env \in Seq(FinalItems)
  BY <1>1, DerivedResolution
<1> HIDE DEF env, has
<1>3. AppliedEntries(proc.steps) = Entered(all)
  BY <1>1, <1>2, AppliedEntriesAre DEF Entered
<1>4. all \in Seq(StepItems)
  BY <1>2, EnvStepsAre
<1> HIDE DEF all
<1>5. \A n \in Names : LastEntered(all, NamesOf(all), n, Given.unix[n], proc.unix[n])
  BY <1>1, <1>3, <1>4, UnixIs
<1>6. ASSUME NEW v \in Blocks, "block" \notin proc.refused
      PROVE  LastEntered(all, VariablesOf(all), v, Given.block[v], proc.block[v])
  <2>1. proc.block = MergeEnv(Given.block, Entered(all))
    BY <1>1, <1>3, <1>6
  <2>2. QED
    BY <1>1, <1>4, <2>1, BlockIs
<1>7. QED
  BY <1>1, <1>2, <1>4, <1>5, <1>6 DEF EnvIsEntered, env, has, all

(* Each entry in the end is a rule's, the renderer's or one of the HUD's.  *)
LEMMA FinalCases ==
  ASSUME NEW r \in Resolved, NEW i \in 1 .. Len(FinalEnv(r))
  PROVE  \/ \E j \in 1 .. Len(r.env) : FinalEnv(r)[i] = r.env[j]
         \/ \E j \in 1 .. Len(DerivedConfig(r)) : FinalEnv(r)[i] = DerivedConfig(r)[j]
         \/ \E j \in 1 .. Len(DerivedHud(r)) : FinalEnv(r)[i] = DerivedHud(r)[j]
<1> DEFINE n == Len(AllEnv(r))
           h == r.hudAt
           l == Len(DerivedHud(r))
           f == FinalEnv(r)
           m == Len(r.env)
           c == DerivedConfig(r)
<1>1. /\ n \in Nat /\ h \in 0 .. n /\ l \in Nat /\ Len(f) = n + l
      /\ \A k \in 1 .. h : f[k] = AllEnv(r)[k]
      /\ \A k \in 1 .. l : f[h + k] = DerivedHud(r)[k]
      /\ \A k \in h + 1 .. n : f[l + k] = AllEnv(r)[k]
  BY FinalEnvIs
<1>2. /\ n = m + Len(c) /\ m \in Nat /\ Len(c) \in Nat
      /\ \A k \in 1 .. m : AllEnv(r)[k] = r.env[k]
      /\ \A k \in 1 .. Len(c) : AllEnv(r)[m + k] = c[k]
  <2>1. c \in Seq(FinalItems) /\ r.env \in Seq(FinalItems)
    BY DerivedConfigType, AllEnvType
  <2>2. m \in Nat /\ Len(c) \in Nat
    BY <2>1
  <2>3. QED
    BY <2>2, AllEnvType
<1> HIDE DEF n, h, l, f, m, c
<1>3. i \in 1 .. n + l
  BY <1>1 DEF f
<1>4. ASSUME NEW k \in 1 .. n
      PROVE  (\E j \in 1 .. m : AllEnv(r)[k] = r.env[j]) \/ \E j \in 1 .. Len(c) : AllEnv(r)[k] = c[j]
  <2>1. CASE k <= m
    BY <1>2, <2>1
  <2>2. CASE ~(k <= m)
    <3>1. k - m \in 1 .. Len(c) /\ m + (k - m) = k
      BY <1>2, <2>2
    <3>2. QED
      BY <1>2, <3>1
  <2>3. QED
    BY <2>1, <2>2
<1>5. (\E k \in 1 .. n : f[i] = AllEnv(r)[k]) \/ \E k \in 1 .. l : f[i] = DerivedHud(r)[k]
  <2>1. CASE i <= h
    BY <1>1, <1>3, <2>1
  <2>2. CASE h < i /\ i <= h + l
    <3>1. i - h \in 1 .. l /\ h + (i - h) = i
      BY <1>1, <1>3, <2>2
    <3>2. QED
      BY <1>1, <3>1
  <2>3. CASE h + l < i
    <3>1. i - l \in h + 1 .. n /\ i - l \in 1 .. n /\ l + (i - l) = i
      BY <1>1, <1>3, <2>3
    <3>2. QED
      BY <1>1, <3>1
  <2>4. QED
    BY <1>1, <1>3, <2>1, <2>2, <2>3
<1>6. QED
  BY <1>4, <1>5 DEF f, m, c, l

(* The origin of an entry is never mistaken for none.                      *)
LEMMA OriginIsReal ==
  ASSUME NEW e \in TableEntries
  PROVE  Origin(e) # NoOrigin
<1>1. e.source.text \in {"built-in", "variable", "file"}
  BY DEF TableEntries, Sources
<1>2. Origin(e).text = e.source.text /\ NoOrigin.text = "none"
  BY DEF Origin, NoOrigin
<1>3. QED
  BY <1>1, <1>2

(* The rule that a setting comes from is known. *)
LEMMA SaidByRule ==
  ASSUME NEW c \in Seq(TableEntries), NEW s \in Scalars, Said(Folded(c), s)
  PROVE  \E j \in 1 .. Len(c) :
           /\ SaysOf(c[j], s) /\ Folded(c).scalars[s] = Saying(c[j], s)
           /\ \A i \in 1 .. Len(c) : SaysOf(c[i], s) => i <= j
<1> DEFINE v == Folded(c).scalars[s]
<1>1. LastSays(c, s, Len(c), v)
  BY ScalarsAre
<1>2. v.value # Unset
  BY DEF Said
<1> HIDE DEF v
<1>3. v # Unsaid
  BY <1>2 DEF Unsaid
<1>4. QED
  BY <1>1, <1>3 DEF LastSays, v

(* Every entry of the final environment has an origin, so none looks as if *)
(* nothing replaced it.                                                    *)
LEMMA FinalFrom ==
  ASSUME NEW c \in Seq(TableEntries), Folded(c) \in Resolved,
         NEW i \in 1 .. Len(FinalEnv(Folded(c)))
  PROVE  FinalEnv(Folded(c))[i].from # NoOrigin
<1> DEFINE r == Folded(c)
           x == FinalEnv(r)[i]
<1>0. \A k \in 1 .. Len(c) : c[k] \in TableEntries
  OBVIOUS
<1>1. \/ \E j \in 1 .. Len(r.env) : x = r.env[j]
      \/ \E j \in 1 .. Len(DerivedConfig(r)) : x = DerivedConfig(r)[j]
      \/ \E j \in 1 .. Len(DerivedHud(r)) : x = DerivedHud(r)[j]
  BY FinalCases
<1>2. ASSUME NEW s \in Scalars, Said(r, s)
      PROVE  r.scalars[s].by # NoOrigin
  <2>1. PICK j \in 1 .. Len(c) : r.scalars[s] = Saying(c[j], s)
    BY <1>2, SaidByRule
  <2>2. r.scalars[s].by = Origin(c[j])
    BY <2>1 DEF Saying
  <2>3. QED
    BY <1>0, <2>2, OriginIsReal
<1>3. PICK of, at : IsListed(r.env, c, Len(c), of, at)
  BY EnvIs
<1> HIDE DEF r, x
<1>4. ASSUME NEW j \in 1 .. Len(r.env), x = r.env[j]
      PROVE  x.from # NoOrigin
  <2>1. of[j] \in 1 .. Len(c) /\ x = EnvItem(c[of[j]], at[j])
    BY <1>3, <1>4 DEF IsListed
  <2>2. x.from = Origin(c[of[j]])
    BY <2>1 DEF EnvItem
  <2>3. QED
    BY <1>0, <2>1, <2>2, OriginIsReal
<1>5. ASSUME NEW j \in 1 .. Len(DerivedConfig(r)), x = DerivedConfig(r)[j]
      PROVE  x.from # NoOrigin
  <2>0. r \in Resolved
    BY DEF r
  <2>1. CASE ~Said(r, "wined3d")
    <3> DEFINE d == DerivedConfig(r)
    <3>1. d = <<>>
      BY <2>0, <2>1, DerivedConfigType
    <3>2. Len(d) = 0
      BY <3>1
    <3>3. QED
      BY <3>2
  <2>2. CASE Said(r, "wined3d")
    <3>1. Len(DerivedConfig(r)) = 1
          /\ DerivedConfig(r)[1] = FinalEntry(ConfigEntry(r), r.scalars["wined3d"].by)
      BY <2>0, <2>2, DerivedConfigType
    <3>2. x = FinalEntry(ConfigEntry(r), r.scalars["wined3d"].by)
      BY <1>5, <3>1
    <3>3. x.from = r.scalars["wined3d"].by
      BY <3>2 DEF FinalEntry
    <3>4. "wined3d" \in Scalars
      BY RulesAssumption
    <3>5. QED
      BY <1>2, <2>2, <3>3, <3>4
  <2>3. QED
    BY <2>1, <2>2
<1>6. ASSUME NEW j \in 1 .. Len(DerivedHud(r)), x = DerivedHud(r)[j]
      PROVE  x.from # NoOrigin
  <2>0. r \in Resolved
    BY DEF r
  <2>1. CASE ~Said(r, "metal_hud")
    <3> DEFINE d == DerivedHud(r)
    <3>1. d = <<>>
      BY <2>0, <2>1, DerivedHudType
    <3>2. Len(d) = 0
      BY <3>1
    <3>3. QED
      BY <3>2
  <2>2. CASE Said(r, "metal_hud")
    <3> DEFINE by == r.scalars["metal_hud"].by
               env == MetalHudEnv(r.scalars["metal_hud"].value = "true")
    <3>1. Len(DerivedHud(r)) = 3
          /\ \A k \in 1 .. 3 : DerivedHud(r)[k] = FinalEntry(env[k], by)
      BY <2>0, <2>2, DerivedHudType
    <3> HIDE DEF env, by
    <3>2. x = FinalEntry(env[j], by)
      BY <1>6, <3>1
    <3>3. x.from = by
      BY <3>2 DEF FinalEntry
    <3>4. "metal_hud" \in Scalars
      BY RulesAssumption
    <3>5. QED
      BY <1>2, <2>2, <3>3, <3>4 DEF by
  <2>3. QED
    BY <2>1, <2>2
<1>7. QED
  BY <1>1, <1>4, <1>5, <1>6 DEF x, r

(* There is a later entry for the same variable, or there is none.         *)
LEMMA LastIs ==
  ASSUME NEW steps, NEW a \in Nat, NEW b \in Nat, NEW s, a >= 1
  PROVE  /\ LastStep(steps, a, b, s) = 0 \/ LastStep(steps, a, b, s) \in a .. b
         /\ \A j \in a .. b : SameVariable(steps[j], s) => LastStep(steps, a, b, s) # 0
<1> DEFINE I == {j \in a .. b : SameVariable(steps[j], s)}
<1>1. LastStep(steps, a, b, s) = LastOf(I)
  BY DEF LastStep, SelectLastInSubSeq, LastOf
<1>2. I \subseteq 1 .. b
  OBVIOUS
<1> HIDE DEF I
<1>3. /\ I = {} => LastOf(I) = 0
      /\ I # {} => LastOf(I) \in I /\ LastOf(I) \in 1 .. b
  BY <1>2, LargestIn
<1>4. \A j \in a .. b : SameVariable(steps[j], s) => j \in I
  BY DEF I
<1>5. \A j \in I : j \in a .. b
  BY DEF I
<1>6. QED
  BY <1>1, <1>3, <1>4, <1>5

(* Of the steps of a process, one that applies and is not replaced is the  *)
(* last that applies to its variable.                                      *)
LEMMA NotReplaced ==
  ASSUME CompatInv, Running
  PROVE  LET all == AllSteps(proc.res.env, Has(Given.unix, Given.block))
         IN /\ DOMAIN proc.steps = 1 .. Len(all)
            /\ \A i \in 1 .. Len(all) : proc.steps[i].step = all[i]
            /\ \A i, j \in 1 .. Len(all) :
                 proc.steps[i].replacedBy = NoOrigin /\ SameVariable(all[j], all[i]) => j <= i
<1> DEFINE env == proc.res.env
           has == Has(Given.unix, Given.block)
           all == AllSteps(env, has)
           steps == proc.steps
<1>1. env \in Seq(FinalItems) /\ steps = EnvSteps(env, has)
  BY RunningEnv
<1>2. \A i \in 1 .. Len(env) : env[i].from # NoOrigin
  <2>1. PICK c, at : Ranks(c, at) /\ proc.res = FoldDerivedEnv(Folded(c)) /\ Folded(c) \in Resolved
    BY RunningRanks
  <2>2. env = FinalEnv(Folded(c)) /\ c \in Seq(TableEntries)
    BY <2>1, DerivedIs DEF Ranks
  <2>3. \A i \in 1 .. Len(FinalEnv(Folded(c))) : FinalEnv(Folded(c))[i].from # NoOrigin
    BY <2>1, <2>2, FinalFrom
  <2>4. QED
    BY <2>2, <2>3
<1> HIDE DEF env, has, steps
<1> DEFINE later(i) == LastStep(all, i + 1, Len(all), all[i])
<1>3. /\ DOMAIN steps = 1 .. Len(env) /\ Len(env) \in Nat
      /\ all \in Seq(StepItems) /\ Len(all) = Len(env)
      /\ \A i \in 1 .. Len(env) :
           /\ all[i] = StepOf(env[i], has)
           /\ steps[i].step = all[i]
           /\ steps[i].replacedBy = IF later(i) = 0 THEN NoOrigin ELSE all[later(i)].from
  BY <1>1, EnvStepsAre
<1> HIDE DEF all
<1>4. \A i \in 1 .. Len(all) : all[i].from # NoOrigin
  <2>1. ASSUME NEW i \in 1 .. Len(env)
        PROVE  all[i].from = env[i].from
    <3>1. all[i] = StepOf(env[i], has)
      BY <1>3
    <3>2. StepOf(env[i], has).from = env[i].from
      BY DEF StepOf
    <3>3. QED
      BY <3>1, <3>2
  <2>2. QED
    BY <1>2, <1>3, <2>1
<1>5. ASSUME NEW i \in 1 .. Len(all), NEW j \in 1 .. Len(all),
             steps[i].replacedBy = NoOrigin, SameVariable(all[j], all[i])
      PROVE  j <= i
  <2>1. SUFFICES ASSUME ~(j <= i)
                 PROVE  FALSE
    OBVIOUS
  <2>2. j \in i + 1 .. Len(all) /\ i + 1 \in Nat /\ i + 1 >= 1 /\ Len(all) \in Nat
    BY <1>3, <2>1
  <2>3. /\ later(i) = 0 \/ later(i) \in i + 1 .. Len(all)
        /\ later(i) # 0
    BY <1>5, <2>2, LastIs
  <2> HIDE DEF later
  <2>4. later(i) \in 1 .. Len(all)
    BY <2>2, <2>3
  <2>5. steps[i].replacedBy = all[later(i)].from
    BY <1>3, <2>3
  <2>6. QED
    BY <1>4, <1>5, <2>4, <2>5
<1>6. QED
  BY <1>3, <1>5 DEF all, steps, env, has

(* The inductive invariant implies that the log is right about the         *)
(* environment.                                                            *)
LEMMA LoggedIs == CompatInv => EnvAsLogged
<1> DEFINE steps == proc.steps
           applied == {i \in DOMAIN steps : steps[i].step.applied}
           vars1 == {Variable[steps[i].step.name] : i \in applied}
<1> SUFFICES ASSUME CompatInv, Running
             PROVE  /\ \A i \in applied :
                         steps[i].replacedBy = NoOrigin =>
                           /\ proc.unix[steps[i].step.name] = Value(steps[i].step)
                           /\ "block" \notin proc.refused =>
                                proc.block[Variable[steps[i].step.name]] = Value(steps[i].step)
                    /\ \A v \in Blocks \ vars1 :
                         /\ proc.block[v] = Given.block[v]
                         /\ \A n \in Names : Variable[n] = v => proc.unix[n] = Given.unix[n]
  BY Zenon DEF EnvAsLogged
<1> DEFINE all == AllSteps(proc.res.env, Has(Given.unix, Given.block))
<1>1. /\ DOMAIN steps = 1 .. Len(all)
      /\ \A i \in 1 .. Len(all) : steps[i].step = all[i]
      /\ \A i, j \in 1 .. Len(all) :
           steps[i].replacedBy = NoOrigin /\ SameVariable(all[j], all[i]) => j <= i
  BY NotReplaced
<1>2. EnvIsEntered(all)
  BY RunningEnv
<1> HIDE DEF all, steps
<1>3. /\ all \in Seq(StepItems) /\ Len(all) \in Nat
      /\ \A i \in 1 .. Len(all) : all[i].name \in Names /\ Variable[all[i].name] \in Blocks
  <2>1. all \in Seq(StepItems)
    BY <1>2 DEF EnvIsEntered
  <2>2. \A i \in 1 .. Len(all) : all[i] \in StepItems
    BY <2>1
  <2>3. \A i \in 1 .. Len(all) : all[i].name \in Names
    BY <2>2 DEF StepItems
  <2>4. QED
    BY <2>1, <2>3 DEF Blocks
<1>4. \A i : i \in applied <=> i \in 1 .. Len(all) /\ all[i].applied
  BY <1>1
<1>5. vars1 = {Variable[all[i].name] : i \in applied}
  BY <1>1, <1>4
<1>6. \A i \in 1 .. Len(all) : VariablesOf(all)[i] = Variable[all[i].name] /\ NamesOf(all)[i] = all[i].name
  BY DEF VariablesOf, NamesOf
<1> HIDE DEF applied, vars1
<1>7. ASSUME NEW i \in 1 .. Len(all), all[i].applied, steps[i].replacedBy = NoOrigin
      PROVE  /\ proc.unix[all[i].name] = Value(all[i])
             /\ "block" \notin proc.refused => proc.block[Variable[all[i].name]] = Value(all[i])
  <2> DEFINE n == all[i].name
             v == Variable[n]
  <2>1. n \in Names /\ v \in Blocks
    BY <1>3
  <2>2. \A j \in 1 .. Len(all) : all[j].applied /\ Variable[all[j].name] = v => j <= i
    BY <1>1, <1>7 DEF SameVariable
  <2>3. proc.unix[n] = Value(all[i])
    <3>1. LastEntered(all, NamesOf(all), n, Given.unix[n], proc.unix[n])
      BY <1>2, <2>1 DEF EnvIsEntered
    <3>2. PICK j \in 1 .. Len(all) :
            /\ all[j].applied /\ NamesOf(all)[j] = n /\ proc.unix[n] = Value(all[j])
            /\ \A k \in 1 .. Len(all) : all[k].applied /\ NamesOf(all)[k] = n => k <= j
      BY <1>6, <1>7, <3>1 DEF LastEntered
    <3>3. i <= j
      BY <1>6, <1>7, <3>2
    <3>4. j <= i
      BY <1>6, <2>2, <3>2
    <3>5. QED
      BY <3>2, <3>3, <3>4
  <2>4. ASSUME "block" \notin proc.refused
        PROVE  proc.block[v] = Value(all[i])
    <3>1. LastEntered(all, VariablesOf(all), v, Given.block[v], proc.block[v])
      BY <1>2, <2>1, <2>4 DEF EnvIsEntered
    <3>2. PICK j \in 1 .. Len(all) :
            /\ all[j].applied /\ VariablesOf(all)[j] = v /\ proc.block[v] = Value(all[j])
            /\ \A k \in 1 .. Len(all) : all[k].applied /\ VariablesOf(all)[k] = v => k <= j
      BY <1>6, <1>7, <3>1 DEF LastEntered
    <3>3. i <= j
      BY <1>6, <1>7, <3>2
    <3>4. j <= i
      BY <1>6, <2>2, <3>2
    <3>5. QED
      BY <3>2, <3>3, <3>4
  <2>5. QED
    BY <2>3, <2>4
<1>8. ASSUME NEW v \in Blocks \ vars1
      PROVE  proc.block[v] = Given.block[v]
  <2>0. \A i \in 1 .. Len(all) : all[i].applied => Variable[all[i].name] # v
    BY <1>4, <1>5
  <2>1. CASE "block" \in proc.refused
    BY <1>2, <2>1 DEF EnvIsEntered
  <2>2. CASE "block" \notin proc.refused
    <3>1. LastEntered(all, VariablesOf(all), v, Given.block[v], proc.block[v])
      BY <1>2, <2>2 DEF EnvIsEntered
    <3>2. QED
      BY <1>6, <2>0, <3>1 DEF LastEntered
  <2>3. QED
    BY <2>1, <2>2
<1>9. ASSUME NEW v \in Blocks \ vars1, NEW n \in Names, Variable[n] = v
      PROVE  proc.unix[n] = Given.unix[n]
  <2>0. \A i \in 1 .. Len(all) : all[i].applied => all[i].name # n
    BY <1>4, <1>5, <1>9
  <2>1. LastEntered(all, NamesOf(all), n, Given.unix[n], proc.unix[n])
    BY <1>2 DEF EnvIsEntered
  <2>2. QED
    BY <1>6, <2>0, <2>1 DEF LastEntered
<1>10. \A i \in applied : steps[i].step = all[i] /\ i \in 1 .. Len(all) /\ all[i].applied
  BY <1>1, <1>4
<1>11. QED
  BY <1>7, <1>8, <1>9, <1>10

(* An entry that the log calls applied and not replaced is what both       *)
(* environments hold, and a variable none applies to is as it was (lib.rs, *)
(* env_steps, merge_env and setenv).                                       *)
THEOREM EnvIsAsLogged == Spec => []EnvAsLogged
<1>1. QED
  BY LoggedIs, CompatInvariant, PTL

(* A default changes one variable.                                         *)
OnlyDefault(env) == \A i \in 1 .. Len(env) : env[i].default => env[i].name = Reduced

(* A built-in rule for every process has no entry for the environment but  *)
(* for FEX_X87REDUCEDPRECISION.                                            *)
LEMMA BuiltInDefault ==
  \A i \in 1 .. Len(BuiltInTable) : IsDefault(BuiltInTable[i].rule)
<1> DEFINE rules == Defaults \o Programs
<1>1. Len(rules) = 15 /\ DOMAIN rules = 1 .. 15
      /\ (\A i \in 1 .. 8 : rules[i] = Defaults[i])
      /\ \A i \in 1 .. 7 : rules[8 + i] = Programs[i]
  <2>1. /\ \A i \in 1 .. 8 : rules[i] = Defaults[i]
        /\ \A i \in 1 .. 7 : rules[8 + i] = Programs[i]
        /\ Len(rules) = 15
    BY DEF Defaults, Programs
  <2>2. DOMAIN rules = 1 .. Len(rules)
    BY DEF Defaults, Programs
  <2> HIDE DEF rules
  <2>3. QED
    BY <2>1, <2>2
<1>2. BuiltInTable = [i \in DOMAIN rules |-> [source |-> [text |-> "built-in", line |-> 0],
                                             rule |-> rules[i]]]
  BY Zenon DEF BuiltInTable, BuiltIn
<1> HIDE DEF rules
<1>3. /\ DOMAIN BuiltInTable = 1 .. 15
      /\ \A i \in 1 .. 15 : BuiltInTable[i].rule = rules[i]
  BY <1>1, <1>2
<1>4. Len(BuiltInTable) = 15
  <2>1. BuiltInTable \in Seq(TableEntries)
    BY BuiltInType
  <2>2. QED
    BY <1>3, <2>1
<1>5. ASSUME NEW i \in 1 .. 15
      PROVE  IsDefault(rules[i])
  <2>1. CASE i <= 8
    BY <1>1, <2>1, DefaultsAre
  <2>2. CASE ~(i <= 8)
    <3>1. i - 8 \in 1 .. 7 /\ 8 + (i - 8) = i
      BY <2>2
    <3>2. QED
      BY <1>1, <3>1, ProgramsAre
  <2>3. QED
    BY <2>1, <2>2
<1>6. QED
  BY <1>3, <1>4, <1>5

(* A rule whose entries are defaults has them only for                     *)
(* FEX_X87REDUCEDPRECISION.                                                *)
LEMMA RuleDefault ==
  ASSUME CompatInv, Running, NEW c, NEW at, Ranks(c, at), NEW k \in 1 .. Len(c),
         EnvIsDefault(Origin(c[k])), NEW m \in 1 .. EnvCount(c[k])
  PROVE  c[k].rule.env[m].name = Reduced
<1> DEFINE i == at[k]
           e == EntryAt(i)
<1>1. c[k] = e /\ i \in Hits /\ i \in Nat
  BY DEF Ranks
<1>2. e.source.text = "built-in" /\ e.rule.exe = AnyExe
  <2> HIDE DEF e
  <2>1. Origin(e).text = e.source.text
    BY DEF Origin
  <2>2. Origin(e).matchers =
          IF e.source.text # "built-in" \/ (e.rule.exe = AnyExe /\ ~Pinned(e.rule))
          THEN <<>> ELSE <<e.rule.exe, e.rule.pins>>
    BY DEF Origin
  <2>3. Origin(e).text = "built-in" /\ Origin(e).matchers = <<>>
    BY <1>1 DEF EnvIsDefault
  <2> DEFINE two == <<e.rule.exe, e.rule.pins>>
             none == <<>>
  <2>4. Len(two) = 2 /\ Len(none) = 0
    OBVIOUS
  <2>5. two # none
    BY <2>4
  <2>6. e.rule.exe = AnyExe
    <3>1. CASE e.rule.exe # AnyExe
      <4>1. Origin(e).matchers = two
        BY <2>1, <2>2, <2>3, <3>1
      <4>2. QED
        BY <2>3, <2>5, <4>1
    <3>2. QED
      BY <3>1
  <2>7. QED
    BY <2>1, <2>3, <2>6
<1>3. i \in 1 .. Len(BuiltInTable) + Len(proc.rules)
  <2>1. Hits \subseteq 1 .. Len(BuiltInTable) + Len(proc.rules)
    BY DEF Hits
  <2>2. QED
    BY <1>1, <2>1
<1>4. /\ Len(BuiltInTable) \in Nat /\ Len(proc.rules) \in Nat
      /\ \A j \in 1 .. Len(proc.rules) : proc.rules[j].source.text # "built-in"
  <2>1. BuiltInTable \in Seq(TableEntries)
    BY BuiltInType
  <2>2. proc.rules \in Seq(TableEntries)
        /\ \A j \in 1 .. Len(proc.rules) : IsOwn(proc.rules[j], proc.inline, proc.text)
    BY RunningIs
  <2>3. \A j \in 1 .. Len(proc.rules) : proc.rules[j].source.text # "built-in"
    BY <2>2, Zenon DEF IsOwn
  <2>4. QED
    BY <2>1, <2>2, <2>3
<1>5. i <= Len(BuiltInTable)
  <2>1. SUFFICES ASSUME ~(i <= Len(BuiltInTable))
                 PROVE  FALSE
    OBVIOUS
  <2> DEFINE j == i - Len(BuiltInTable)
  <2>2. j \in 1 .. Len(proc.rules)
    BY <1>3, <1>4, <2>1
  <2>3. e = proc.rules[j]
    BY <2>1 DEF EntryAt
  <2> HIDE DEF j, e
  <2>4. QED
    BY <1>2, <1>4, <2>2, <2>3
<1>6. e = BuiltInTable[i] /\ i \in 1 .. Len(BuiltInTable)
  BY <1>3, <1>4, <1>5 DEF EntryAt
<1> HIDE DEF e, i
<1>7. IsDefault(e.rule)
  BY <1>6, BuiltInDefault
<1>8. QED
  BY <1>1, <1>2, <1>7 DEF IsDefault, EnvCount

(* In the final environment only the one variable is set as a default.     *)
LEMMA FinalDefault ==
  ASSUME CompatInv, Running
  PROVE  OnlyDefault(proc.res.env)
<1>1. PICK c, at : Ranks(c, at) /\ proc.res = FoldDerivedEnv(Folded(c)) /\ Folded(c) \in Resolved
  BY RunningRanks
<1>2. proc.res.env = FinalEnv(Folded(c)) /\ c \in Seq(TableEntries)
  BY <1>1, DerivedIs DEF Ranks
<1> DEFINE r == Folded(c)
           f == FinalEnv(r)
<1>3. PICK of, at2 : IsListed(r.env, c, Len(c), of, at2)
  BY <1>2, EnvIs
<1> SUFFICES ASSUME NEW i \in 1 .. Len(f), f[i].default
             PROVE  f[i].name = Reduced
  BY <1>2 DEF OnlyDefault
<1> DEFINE x == f[i]
<1>4. \/ \E j \in 1 .. Len(r.env) : x = r.env[j]
      \/ \E j \in 1 .. Len(DerivedConfig(r)) : x = DerivedConfig(r)[j]
      \/ \E j \in 1 .. Len(DerivedHud(r)) : x = DerivedHud(r)[j]
  BY <1>1, FinalCases
<1>0. r \in Resolved /\ x.default
  BY <1>1
<1> HIDE DEF r, x, f
<1>5. ASSUME NEW j \in 1 .. Len(r.env), x = r.env[j]
      PROVE  x.name = Reduced
  <2> DEFINE e == c[of[j]]
  <2>1. of[j] \in 1 .. Len(c) /\ at2[j] \in 1 .. EnvCount(e) /\ x = EnvItem(e, at2[j])
    BY <1>3, <1>5 DEF IsListed
  <2> HIDE DEF e
  <2>2. x.default = EnvIsDefault(Origin(e)) /\ x.name = e.rule.env[at2[j]].name
    BY <2>1 DEF EnvItem
  <2>3. EnvIsDefault(Origin(e))
    BY <1>0, <2>2, Zenon
  <2>4. e.rule.env[at2[j]].name = Reduced
    BY <1>1, <2>1, <2>3, RuleDefault DEF e
  <2>5. QED
    BY <2>2, <2>4
<1>6. ASSUME NEW j \in 1 .. Len(DerivedConfig(r)), x = DerivedConfig(r)[j]
      PROVE  FALSE
  <2>1. CASE ~Said(r, "wined3d")
    <3> DEFINE d == DerivedConfig(r)
    <3>1. d = <<>>
      BY <1>0, <2>1, DerivedConfigType
    <3>2. Len(d) = 0
      BY <3>1
    <3>3. QED
      BY <3>2
  <2>2. CASE Said(r, "wined3d")
    <3>1. Len(DerivedConfig(r)) = 1
          /\ DerivedConfig(r)[1] = FinalEntry(ConfigEntry(r), r.scalars["wined3d"].by)
      BY <1>0, <2>2, DerivedConfigType
    <3>2. x = FinalEntry(ConfigEntry(r), r.scalars["wined3d"].by)
      BY <1>6, <3>1
    <3>3. x.default = FALSE
      BY <3>2 DEF FinalEntry
    <3>4. QED
      BY <1>0, <3>3
  <2>3. QED
    BY <2>1, <2>2
<1>7. ASSUME NEW j \in 1 .. Len(DerivedHud(r)), x = DerivedHud(r)[j]
      PROVE  FALSE
  <2>1. CASE ~Said(r, "metal_hud")
    <3> DEFINE d == DerivedHud(r)
    <3>1. d = <<>>
      BY <1>0, <2>1, DerivedHudType
    <3>2. Len(d) = 0
      BY <3>1
    <3>3. QED
      BY <3>2
  <2>2. CASE Said(r, "metal_hud")
    <3> DEFINE by == r.scalars["metal_hud"].by
               env == MetalHudEnv(r.scalars["metal_hud"].value = "true")
    <3>1. Len(DerivedHud(r)) = 3
          /\ \A k \in 1 .. 3 : DerivedHud(r)[k] = FinalEntry(env[k], by)
      BY <1>0, <2>2, DerivedHudType
    <3> HIDE DEF env, by
    <3>2. x = FinalEntry(env[j], by)
      BY <1>7, <3>1
    <3>3. x.default = FALSE
      BY <3>2 DEF FinalEntry
    <3>4. QED
      BY <1>0, <3>3
  <2>3. QED
    BY <2>1, <2>2
<1>8. QED
  BY <1>4, <1>5, <1>6, <1>7 DEF x, f

(* The inductive invariant implies that a caller's export wins.            *)
LEMMA ExportIs == CompatInv => CallerExportWins
<1> DEFINE env == proc.res.env
           default(n) == /\ \E i \in DOMAIN env : env[i].name = n
                         /\ \A i \in DOMAIN env : Variable[env[i].name] = Variable[n] => env[i].default
           exported(n) == Given.unix[n] # Absent \/ Given.block[Variable[n]] # Absent
           has == Has(Given.unix, Given.block)
           all == AllSteps(env, has)
<1> SUFFICES ASSUME CompatInv, Running, NEW n \in Names, default(n), exported(n)
             PROVE  /\ proc.unix[n] = Given.unix[n]
                    /\ proc.block[Variable[n]] = Given.block[Variable[n]]
  BY Zenon DEF CallerExportWins
<1>1. env \in Seq(FinalItems) /\ EnvIsEntered(all)
  BY RunningEnv
<1>2. OnlyDefault(env)
  BY FinalDefault
<1>3. n \in has
  BY DEF Has
<1> HIDE DEF env, has
<1>4. DOMAIN env = 1 .. Len(env) /\ Len(env) \in Nat
  BY <1>1
<1>5. n = Reduced
  <2>1. PICK i \in 1 .. Len(env) : env[i].name = n
    BY <1>4
  <2>2. env[i].default
    BY <1>4, <2>1
  <2>3. QED
    BY <1>2, <2>1, <2>2 DEF OnlyDefault
<1>6. Len(all) = Len(env) /\ \A i \in 1 .. Len(env) : all[i] = StepOf(env[i], has)
  BY <1>1, EnvStepsAre
<1> HIDE DEF all
<1>7. \A i \in 1 .. Len(env) : all[i].name = env[i].name
                             /\ all[i].applied = ~(env[i].default /\ env[i].name \in has)
  <2>1. \A i \in 1 .. Len(env) :
          /\ StepOf(env[i], has).name = env[i].name
          /\ StepOf(env[i], has).applied = ~(env[i].default /\ env[i].name \in has)
    BY DEF StepOf
  <2>2. QED
    BY <1>6, <2>1
<1>8. ASSUME NEW i \in 1 .. Len(all), Variable[all[i].name] = Variable[n]
      PROVE  ~all[i].applied
  <2>1. i \in 1 .. Len(env) /\ Variable[env[i].name] = Variable[n]
    BY <1>6, <1>7, <1>8
  <2>2. env[i].default
    BY <1>4, <2>1
  <2>3. env[i].name = n
    BY <1>2, <1>5, <2>1, <2>2 DEF OnlyDefault
  <2>4. QED
    BY <1>3, <1>7, <2>1, <2>2, <2>3
<1>9. \A i \in 1 .. Len(all) : VariablesOf(all)[i] = Variable[all[i].name] /\ NamesOf(all)[i] = all[i].name
  BY DEF VariablesOf, NamesOf
<1>10. proc.unix[n] = Given.unix[n]
  <2>1. LastEntered(all, NamesOf(all), n, Given.unix[n], proc.unix[n])
    BY <1>1 DEF EnvIsEntered
  <2>2. QED
    BY <1>8, <1>9, <2>1 DEF LastEntered
<1>11. proc.block[Variable[n]] = Given.block[Variable[n]]
  <2> DEFINE v == Variable[n]
  <2>0. v \in Blocks
    BY DEF Blocks
  <2>1. CASE "block" \in proc.refused
    BY <1>1, <2>1 DEF EnvIsEntered
  <2>2. CASE "block" \notin proc.refused
    <3>1. LastEntered(all, VariablesOf(all), v, Given.block[v], proc.block[v])
      BY <1>1, <2>0, <2>2 DEF EnvIsEntered
    <3>2. QED
      BY <1>8, <1>9, <3>1 DEF LastEntered
  <2>3. QED
    BY <2>1, <2>2
<1>12. QED
  BY <1>10, <1>11

(* A variable the caller exported, to the block or to the unix environment *)
(* alone, stays as it is where only defaults name it (lib.rs, has).        *)
THEOREM CallersExportStays == Spec => []CallerExportWins
<1>1. QED
  BY ExportIs, CompatInvariant, PTL

(* An entry that is no default applies.                                    *)
LEMMA EntryApplies ==
  ASSUME NEW env \in Seq(FinalItems), NEW has
  PROVE  LET all == AllSteps(env, has)
         IN /\ Len(all) = Len(env) /\ Len(env) \in Nat
            /\ \A i \in 1 .. Len(env) :
                 /\ all[i].name = env[i].name /\ all[i].value = env[i].value
                 /\ ~env[i].default => all[i].applied
<1> DEFINE all == AllSteps(env, has)
<1>1. /\ Len(all) = Len(env) /\ Len(env) \in Nat
      /\ \A i \in 1 .. Len(env) : all[i] = StepOf(env[i], has)
  BY EnvStepsAre
<1> HIDE DEF all
<1>2. \A i \in 1 .. Len(env) :
        /\ StepOf(env[i], has).name = env[i].name /\ StepOf(env[i], has).value = env[i].value
        /\ ~env[i].default => StepOf(env[i], has).applied
  BY DEF StepOf
<1>3. QED
  BY <1>1, <1>2 DEF all

(* The last of the entries for a variable that is no default's is what it  *)
(* is in the end.                                                          *)
LastFinal(env, v, i) ==
  /\ i \in 1 .. Len(env) /\ Variable[env[i].name] = v /\ ~env[i].default
  /\ \A j \in 1 .. Len(env) : Variable[env[j].name] = v => j <= i

(* The last entry of the final environment for a variable is what the      *)
(* block holds, and the unix environment too where the names are the same. *)
LEMMA LastDecides ==
  ASSUME CompatInv, Running, "block" \notin proc.refused,
         NEW v, NEW i, LastFinal(proc.res.env, v, i)
  PROVE  /\ proc.block[v] = Value(proc.res.env[i])
         /\ proc.res.env[i].name = v => proc.unix[v] = Value(proc.res.env[i])
<1> DEFINE env == proc.res.env
           has == Has(Given.unix, Given.block)
           all == AllSteps(env, has)
<1>1. env \in Seq(FinalItems) /\ EnvIsEntered(all)
  BY RunningEnv
<1>2. LastFinal(env, v, i)
  OBVIOUS
<1> HIDE DEF env, has
<1>3. /\ Len(all) = Len(env) /\ Len(env) \in Nat
      /\ \A j \in 1 .. Len(env) :
           /\ all[j].name = env[j].name /\ all[j].value = env[j].value
           /\ ~env[j].default => all[j].applied
  BY <1>1, EntryApplies
<1> HIDE DEF all
<1>4. /\ i \in 1 .. Len(all) /\ all[i].applied /\ Variable[all[i].name] = v
      /\ \A j \in 1 .. Len(all) : Variable[all[j].name] = v => j <= i
  BY <1>2, <1>3 DEF LastFinal
<1>5. env[i].name \in Names /\ v \in Blocks
  <2>1. env[i] \in FinalItems
    BY <1>1, <1>3, <1>4
  <2>2. env[i].name \in Names
    BY <2>1 DEF FinalItems
  <2>3. QED
    BY <1>3, <1>4, <2>2 DEF Blocks
<1>6. \A j \in 1 .. Len(all) : VariablesOf(all)[j] = Variable[all[j].name] /\ NamesOf(all)[j] = all[j].name
  BY DEF VariablesOf, NamesOf
<1>7. Value(all[i]) = Value(env[i])
  BY <1>3, <1>4 DEF Value
<1>8. proc.block[v] = Value(env[i])
  <2>1. LastEntered(all, VariablesOf(all), v, Given.block[v], proc.block[v])
    BY <1>1, <1>5 DEF EnvIsEntered
  <2>2. PICK j \in 1 .. Len(all) :
          /\ all[j].applied /\ VariablesOf(all)[j] = v /\ proc.block[v] = Value(all[j])
          /\ \A k \in 1 .. Len(all) : all[k].applied /\ VariablesOf(all)[k] = v => k <= j
    BY <1>4, <1>6, <2>1 DEF LastEntered
  <2>3. i <= j /\ j <= i
    BY <1>4, <1>6, <2>2
  <2>4. i = j
    BY <1>3, <1>4, <2>3
  <2>5. QED
    BY <1>7, <2>2, <2>4
<1>9. ASSUME env[i].name = v
      PROVE  proc.unix[v] = Value(env[i])
  <2>1. LastEntered(all, NamesOf(all), v, Given.unix[v], proc.unix[v])
    BY <1>1, <1>5, <1>9 DEF EnvIsEntered
  <2>0. NamesOf(all)[i] = v /\ Variable[v] = v
    BY <1>3, <1>4, <1>6, <1>9
  <2>2. PICK j \in 1 .. Len(all) :
          /\ all[j].applied /\ NamesOf(all)[j] = v /\ proc.unix[v] = Value(all[j])
          /\ \A k \in 1 .. Len(all) : all[k].applied /\ NamesOf(all)[k] = v => k <= j
    BY <1>4, <2>0, <2>1 DEF LastEntered
  <2>3. i <= j
    BY <1>4, <2>0, <2>2
  <2>4. Variable[all[j].name] = v
    BY <1>6, <2>0, <2>2
  <2>5. j <= i
    BY <1>4, <2>4
  <2>6. i = j
    BY <1>3, <1>4, <2>3, <2>5
  <2>7. QED
    BY <1>7, <2>2, <2>6
<1>10. QED
  BY <1>8, <1>9 DEF env

D3dConfig == "WINE_D3D_CONFIG"

(* The renderer's entry asks for it first, and for no other.               *)
LEMMA ConfigAsks ==
  ASSUME NEW r \in Resolved
  PROVE  LET config == Wined3dConfig(r)
         IN /\ config # <<>> /\ config[1] = Option(r.scalars["wined3d"].value)
            /\ ToSet(Tail(config)) \cap RendererOptions = {}
<1> DEFINE own == OwnConfig(r)
           I == {k \in DOMAIN own : own[k] \notin RendererOptions}
           o == Option(r.scalars["wined3d"].value)
           rest == Selected(own, I)
           config == Wined3dConfig(r)
<1>1. own \in Seq(Word) /\ config = <<o>> \o rest
  BY ConfigType
<1> HIDE DEF own
<1>2. PICK at : IsPlaced(rest, own, I, at)
  BY <1>1, SelectedInOrder
<1>3. rest \in Seq(Word)
  BY <1>1, SelectedType
<1>4. \A k \in 1 .. Len(rest) : rest[k] \notin RendererOptions
  <2>1. \A k \in 1 .. Len(rest) : at[k] \in I /\ rest[k] = own[at[k]]
    BY <1>2 DEF IsPlaced
  <2> HIDE DEF rest
  <2>2. QED
    BY <2>1
<1> HIDE DEF rest, o, config
<1>5. /\ Len(<<o>> \o rest) = 1 + Len(rest) /\ Len(rest) \in Nat
      /\ (<<o>> \o rest)[1] = o
      /\ \A k \in 1 .. Len(rest) : (<<o>> \o rest)[1 + k] = rest[k]
      /\ Tail(<<o>> \o rest) = rest
  <2>1. /\ Len(<<o>> \o rest) = 1 + Len(rest) /\ Len(rest) \in Nat
        /\ (<<o>> \o rest)[1] = o
        /\ \A k \in 1 .. Len(rest) : (<<o>> \o rest)[1 + k] = rest[k]
    BY <1>3
  <2>2. Tail(<<o>> \o rest) = rest
    <3> DEFINE c == <<o>> \o rest
               S == Word \cup {o}
    <3>1. c \in Seq(S) /\ rest \in Seq(S)
      <4>1. <<o>> \in Seq(S)
        BY DEF S
      <4>2. rest \in Seq(S)
        BY <1>3, SeqSub DEF S
      <4> HIDE DEF S
      <4>3. QED
        BY <4>1, <4>2
    <3>2. Len(c) = 1 + Len(rest) /\ \A k \in 1 .. Len(rest) : c[1 + k] = rest[k]
      BY <2>1
    <3> HIDE DEF c, S
    <3>3. Tail(c) \in Seq(S) /\ Len(Tail(c)) = Len(rest)
      BY <3>1, <3>2
    <3>4. \A k \in 1 .. Len(rest) : Tail(c)[k] = c[k + 1]
      BY <3>1, <3>2
    <3>5. \A k \in 1 .. Len(rest) : Tail(c)[k] = rest[k]
      BY <1>3, <3>2, <3>4
    <3>6. Tail(c) = rest
      BY <3>1, <3>3, <3>5, Joining!SameSeq
    <3>7. QED
      BY <3>6 DEF c
  <2>3. QED
    BY <2>1, <2>2
<1>6. config[1] = o /\ Tail(config) = rest /\ Len(config) = 1 + Len(rest)
  BY <1>1, <1>5
<1>7. config # <<>>
  <2> DEFINE none == <<>>
  <2>1. Len(none) = 0
    OBVIOUS
  <2> HIDE DEF none
  <2>2. config # none
    BY <1>5, <1>6, <2>1
  <2>3. QED
    BY <2>2 DEF none
<1>8. ToSet(rest) \cap RendererOptions = {}
  <2>1. DOMAIN rest = 1 .. Len(rest)
    BY <1>3
  <2>2. QED
    BY <1>4, <2>1 DEF ToSet
<1>9. QED
  BY <1>6, <1>7, <1>8 DEF config, o

(* The inductive invariant implies that the renderer decides.              *)
LEMMA RendererIs == CompatInv => RendererDecides
<1> DEFINE option == Option(proc.res.scalars["wined3d"].value)
           asks(config) == config[1] = option /\ ToSet(Tail(config)) \cap RendererOptions = {}
<1> SUFFICES ASSUME CompatInv, Running, Said(proc.res, "wined3d"), "block" \notin proc.refused
             PROVE  asks(proc.block["WINE_D3D_CONFIG"]) /\ asks(proc.unix["WINE_D3D_CONFIG"])
  BY DEF RendererDecides
<1>1. PICK c, at : Ranks(c, at) /\ proc.res = FoldDerivedEnv(Folded(c)) /\ Folded(c) \in Resolved
  BY RunningRanks
<1> DEFINE r == Folded(c)
           env == proc.res.env
<1>2. env = FinalEnv(r) /\ proc.res.scalars = r.scalars /\ r \in Resolved
  BY <1>1, DerivedIs
<1>3. Said(r, "wined3d")
  BY <1>2 DEF Said
<1> HIDE DEF r
<1> DEFINE config == Wined3dConfig(r)
           last == FinalEntry(ConfigEntry(r), r.scalars["wined3d"].by)
           n == Len(AllEnv(r))
           l == Len(DerivedHud(r))
           h == r.hudAt
           f == FinalEnv(r)
<1>4. asks(config) /\ config # <<>>
  BY <1>2, ConfigAsks
<1>5. AllEnv(r)[n] = last /\ h < n /\ n \in Nat
  <2> DEFINE m == Len(r.env)
             a == AllEnv(r)
             d == DerivedConfig(r)
  <2>1. Len(d) = 1 /\ d[1] = last
    BY <1>2, <1>3, DerivedConfigType
  <2>2. r.env \in Seq(FinalItems) /\ h \in 0 .. m /\ n = m + Len(d)
        /\ \A i \in 1 .. Len(d) : a[m + i] = d[i]
    BY <1>2, AllEnvType
  <2>3. m \in Nat
    BY <2>2
  <2> HIDE DEF m, a, d, n, h
  <2>4. n = m + 1 /\ a[m + 1] = d[1]
    BY <2>1, <2>2
  <2>5. n \in Nat /\ h < n
    BY <2>2, <2>3, <2>4
  <2>6. QED
    BY <2>1, <2>4, <2>5 DEF a
<1>6. /\ h \in 0 .. n /\ l \in Nat /\ Len(f) = n + l
      /\ \A i \in h + 1 .. n : f[l + i] = AllEnv(r)[i]
  BY <1>2, FinalEnvIs
<1> HIDE DEF n, l, h, f, last
<1>7. l + n \in 1 .. Len(f) /\ Len(f) = l + n /\ f[l + n] = last
  <2>1. n \in h + 1 .. n
    BY <1>5, <1>6
  <2>2. QED
    BY <1>5, <1>6, <2>1
<1>8. last.name = D3dConfig /\ last.default = FALSE /\ last.value = config
  BY DEF last, FinalEntry, ConfigEntry, D3dConfig
<1>9. Variable[D3dConfig] = D3dConfig
  BY RulesAssumption DEF OwnVariables, D3dConfig
<1>10. env = f
  BY <1>2 DEF f
<1> HIDE DEF env, config
<1>11. LastFinal(env, D3dConfig, l + n)
  <2>1. \A j \in 1 .. Len(f) : j <= l + n
    BY <1>7
  <2>2. QED
    BY <1>7, <1>8, <1>9, <1>10, <2>1 DEF LastFinal
<1>12. Value(env[l + n]) = config
  BY <1>4, <1>7, <1>8, <1>10 DEF Value
<1>13. proc.block[D3dConfig] = config /\ proc.unix[D3dConfig] = config
  <2>1. /\ proc.block[D3dConfig] = Value(env[l + n])
        /\ env[l + n].name = D3dConfig => proc.unix[D3dConfig] = Value(env[l + n])
    BY <1>11, LastDecides DEF env
  <2>2. QED
    BY <1>7, <1>8, <1>10, <1>12, <2>1
<1>14. QED
  BY <1>4, <1>13 DEF D3dConfig

(* A renderer that is set is the only one that WINE_D3D_CONFIG asks for,   *)
(* in the block and in the unix environment, whatever the rules' own       *)
(* entries and the parent process ask for (resolve.rs, fold_derived_env).  *)
THEOREM RendererIsAsked == Spec => []RendererDecides
<1>1. QED
  BY RendererIs, CompatInvariant, PTL

Hud == "metal_hud"

(* Entry m of rule at[k], for some k no earlier than j, that sets v.       *)
IsOwnEntry(c, at, j, v, e) ==
  \E k \in 1 .. Len(c) :
    /\ j <= k
    /\ \E m \in 1 .. EnvCount(c[k]) :
         Variable[c[k].rule.env[m].name] = v /\ e = <<at[k], m>>

ComesAfter(e, f) == Beats(e[1], f[1]) \/ (e[1] = f[1] /\ e[2] > f[2])

TheOneOf(says) == CHOOSE i \in says : \A x \in says \ {i} : Beats(i, x)
LatestOf(entries) == CHOOSE e \in entries : \A f \in entries \ {e} : ComesAfter(e, f)

(* The rule that no other of some matching rules beats is the last of them.*)
LEMMA TheBeating ==
  ASSUME NEW c, NEW at, Ranks(c, at), NEW says, says \subseteq Hits,
         NEW j \in 1 .. Len(c), at[j] \in says,
         \A k \in 1 .. Len(c) : at[k] \in says => k <= j
  PROVE  TheOneOf(says) = at[j]
<1> DEFINE best(i) == \A x \in says \ {i} : Beats(i, x)
<1>1. Len(c) \in Nat
  BY DEF Ranks
<1>2. ASSUME NEW x \in says, x # at[j]
      PROVE  \E k \in 1 .. Len(c) : at[k] = x /\ k < j
  <2>1. PICK k \in 1 .. Len(c) : at[k] = x
    BY DEF Ranks
  <2>2. k <= j /\ k # j
    BY <1>2, <2>1
  <2>3. QED
    BY <1>1, <2>1, <2>2
<1>3. \A k, l \in 1 .. Len(c) : k < l <=> Beats(at[l], at[k])
  BY DEF Ranks
<1>4. best(at[j])
  <2>1. ASSUME NEW x \in says, x # at[j]
        PROVE  Beats(at[j], x)
    BY <1>2, <1>3, <2>1
  <2>2. QED
    BY <2>1
<1>5. ASSUME NEW x \in says, best(x)
      PROVE  x = at[j]
  <2>1. SUFFICES ASSUME x # at[j]
                 PROVE  FALSE
    OBVIOUS
  <2>2. PICK k \in 1 .. Len(c) : at[k] = x /\ k < j
    BY <1>2, <2>1
  <2>3. Beats(x, at[j])
    BY <1>5, <2>1
  <2>4. j < k
    BY <1>3, <2>2, <2>3
  <2>5. QED
    BY <1>1, <2>2, <2>4
<1> HIDE DEF best
<1>6. (CHOOSE i \in says : best(i)) = at[j]
  BY <1>4, <1>5
<1>7. QED
  BY <1>6 DEF best, TheOneOf

(* The entries of its own that the HUD yields to.                          *)
OwnEntries(hits, by, v) ==
  UNION {{i} \X {m \in DOMAIN RuleAt(i).env : Variable[RuleAt(i).env[m].name] = v} :
           i \in {x \in hits : x = by \/ Beats(x, by)}}

(* They are those of the rule that sets the HUD and of the rules after it. *)
LEMMA OwnEntriesAre ==
  ASSUME NEW c, NEW at, Ranks(c, at), NEW j \in 1 .. Len(c), NEW v
  PROVE  \A e : e \in OwnEntries(Hits, at[j], v) <=> IsOwnEntry(c, at, j, v, e)
<1>1. Len(c) \in Nat /\ \A k, l \in 1 .. Len(c) : k < l <=> Beats(at[l], at[k])
  BY DEF Ranks
<1>2. \A k \in 1 .. Len(c) : at[k] \in Hits /\ RuleAt(at[k]) = c[k].rule
  BY DEF Ranks, RuleAt
<1>3. \A k \in 1 .. Len(c) : c[k].rule.env \in Seq([name : Names, value : AnyText])
  <2>1. ASSUME NEW k \in 1 .. Len(c)
        PROVE  c[k].rule.env \in Seq([name : Names, value : AnyText])
    <3>1. c[k] \in TableEntries
      BY DEF Ranks
    <3>2. c[k].rule \in Rule
      BY <3>1 DEF TableEntries
    <3>3. QED
      BY <3>2 DEF Rule
  <2>2. QED
    BY <2>1
<1>4. \A k \in 1 .. Len(c) : DOMAIN c[k].rule.env = 1 .. EnvCount(c[k])
  BY <1>3 DEF EnvCount
<1> DEFINE sets(i) == {m \in DOMAIN RuleAt(i).env : Variable[RuleAt(i).env[m].name] = v}
           own == {x \in Hits : x = at[j] \/ Beats(x, at[j])}
<1>5. ASSUME NEW k \in 1 .. Len(c)
      PROVE  sets(at[k]) = {m \in 1 .. EnvCount(c[k]) : Variable[c[k].rule.env[m].name] = v}
  BY <1>2, <1>4
<1>6. OwnEntries(Hits, at[j], v) = UNION {{i} \X sets(i) : i \in own}
  BY DEF OwnEntries
<1>7. ASSUME NEW i \in own
      PROVE  \E k \in 1 .. Len(c) : at[k] = i /\ j <= k
  <2>1. CASE i = at[j]
    BY <1>1, <2>1
  <2>2. CASE Beats(i, at[j])
    <3>1. PICK k \in 1 .. Len(c) : at[k] = i
      BY DEF Ranks
    <3>2. j < k
      BY <1>1, <2>2, <3>1
    <3>3. QED
      BY <1>1, <3>1, <3>2
  <2>3. QED
    BY <2>1, <2>2
<1>8. ASSUME NEW k \in 1 .. Len(c), j <= k
      PROVE  at[k] \in own
  BY <1>1, <1>2, <1>8
<1> HIDE DEF own, sets
<1>9. ASSUME NEW e \in OwnEntries(Hits, at[j], v)
      PROVE  IsOwnEntry(c, at, j, v, e)
  <2>1. PICK i \in own : e \in {i} \X sets(i)
    BY <1>6
  <2>2. PICK k \in 1 .. Len(c) : at[k] = i /\ j <= k
    BY <1>7
  <2>3. PICK m \in sets(i) : e = <<i, m>>
    BY <2>1
  <2>4. m \in 1 .. EnvCount(c[k]) /\ Variable[c[k].rule.env[m].name] = v
    BY <1>5, <2>2
  <2>5. QED
    BY <2>2, <2>3, <2>4 DEF IsOwnEntry
<1>10. ASSUME NEW e, IsOwnEntry(c, at, j, v, e)
       PROVE  e \in OwnEntries(Hits, at[j], v)
  <2>1. PICK k \in 1 .. Len(c) :
          /\ j <= k
          /\ \E m \in 1 .. EnvCount(c[k]) :
               Variable[c[k].rule.env[m].name] = v /\ e = <<at[k], m>>
    BY <1>10 DEF IsOwnEntry
  <2>2. PICK m \in 1 .. EnvCount(c[k]) :
          Variable[c[k].rule.env[m].name] = v /\ e = <<at[k], m>>
    BY <2>1
  <2>3. m \in sets(at[k])
    BY <1>5, <2>2
  <2>4. at[k] \in own
    BY <1>8, <2>1
  <2>5. QED
    BY <1>6, <2>2, <2>3, <2>4
<1>11. QED
  BY <1>9, <1>10

OwnAre(c, at, j, v, own) == \A e : e \in own <=> IsOwnEntry(c, at, j, v, e)
HudSplits(env, h, of, j) == \A i \in 1 .. Len(env) : i <= h <=> of[i] < j

(* Entry i of the rules is the last one for v, and comes after the HUD.    *)
IsLatest(env, h, v, i) ==
  /\ i \in 1 .. Len(env) /\ h < i /\ Variable[env[i].name] = v
  /\ \A k \in 1 .. Len(env) : Variable[env[k].name] = v => k <= i

(* The last of the entries after the HUD is that of the widest rule that   *)
(* is beaten by no other with one, and the last in it.                     *)
LEMMA LatestEntry ==
  ASSUME NEW c, NEW at, Ranks(c, at), NEW env, NEW of, NEW pos,
         IsListed(env, c, Len(c), of, pos), NEW h \in Nat, NEW j \in 1 .. Len(c),
         HudSplits(env, h, of, j), NEW v, NEW i, IsLatest(env, h, v, i),
         NEW own, OwnAre(c, at, j, v, own)
  PROVE  /\ <<at[of[i]], pos[i]>> \in own
         /\ LatestOf(own) = <<at[of[i]], pos[i]>>
<1> DEFINE item(k) == <<at[of[k]], pos[k]>>
           isV(k) == k \in 1 .. Len(env) /\ h < k /\ Variable[env[k].name] = v
<1> USE DEF HudSplits, OwnAre
<1>1. Len(c) \in Nat /\ \A k, l \in 1 .. Len(c) : k < l <=> Beats(at[l], at[k])
  BY DEF Ranks
<1>2. /\ Len(env) \in Nat
      /\ \A k \in 1 .. Len(env) : of[k] \in 1 .. Len(c) /\ pos[k] \in 1 .. EnvCount(c[of[k]])
                                  /\ env[k] = EnvItem(c[of[k]], pos[k])
  BY DEF IsListed
<1>3. \A k, l \in 1 .. Len(env) : k < l => of[k] < of[l] \/ (of[k] = of[l] /\ pos[k] < pos[l])
  BY DEF IsListed
<1>4. \A k \in 1 .. Len(env) : env[k].name = c[of[k]].rule.env[pos[k]].name
  <2>1. ASSUME NEW k \in 1 .. Len(env)
        PROVE  env[k].name = c[of[k]].rule.env[pos[k]].name
    <3>1. env[k] = EnvItem(c[of[k]], pos[k])
      BY <1>2
    <3> DEFINE name == c[of[k]].rule.env[pos[k]].name
               value == c[of[k]].rule.env[pos[k]].value
               from == Origin(c[of[k]])
    <3>2. EnvItem(c[of[k]], pos[k]) =
            [name |-> name, value |-> value, from |-> from, default |-> EnvIsDefault(from)]
      BY Zenon DEF EnvItem
    <3> HIDE DEF name, value, from
    <3>3. env[k].name = name
      BY <3>1, <3>2
    <3>4. QED
      BY <3>3 DEF name
  <2>2. QED
    BY <2>1
<1>5. \A k \in 1 .. Len(c) : EnvCount(c[k]) \in Nat
  BY EnvOfIs DEF Ranks
<1>6. \A k \in 1 .. Len(env) : pos[k] \in Nat /\ of[k] \in Nat
  BY <1>1, <1>2, <1>5
<1>7. ASSUME NEW k, isV(k)
      PROVE  item(k) \in own
  <2>1. j <= of[k]
    BY <1>2, <1>6, <1>7
  <2>2. IsOwnEntry(c, at, j, v, item(k))
    BY <1>2, <1>4, <1>7, <2>1 DEF IsOwnEntry
  <2>3. QED
    BY <2>2
<1>8. ASSUME NEW e \in own
      PROVE  \E k : isV(k) /\ e = item(k)
  <2>1. PICK n \in 1 .. Len(c) :
          /\ j <= n
          /\ \E m \in 1 .. EnvCount(c[n]) :
               Variable[c[n].rule.env[m].name] = v /\ e = <<at[n], m>>
    BY DEF IsOwnEntry
  <2>2. PICK m \in 1 .. EnvCount(c[n]) :
          Variable[c[n].rule.env[m].name] = v /\ e = <<at[n], m>>
    BY <2>1
  <2>3. PICK k \in 1 .. Len(env) : of[k] = n /\ pos[k] = m
    BY DEF IsListed
  <2>4. isV(k)
    <3>1. ~(of[k] < j) /\ k \in Nat
      BY <1>1, <1>2, <2>1, <2>3
    <3>2. h < k
      BY <3>1
    <3>3. Variable[env[k].name] = v
      BY <1>4, <2>2, <2>3
    <3>4. QED
      BY <3>2, <3>3
  <2>5. QED
    BY <2>2, <2>3, <2>4
<1>9. isV(i) /\ \A k : isV(k) => k <= i
  BY DEF IsLatest
<1>10. ASSUME NEW k, isV(k), k # i
       PROVE  ComesAfter(item(i), item(k)) /\ ~ComesAfter(item(k), item(i))
  <2>0. k \in 1 .. Len(env) /\ i \in 1 .. Len(env) /\ k <= i
    <3>1. isV(k) => k <= i
      BY ONLY <1>9
    <3>2. QED
      BY <1>9, <1>10, <3>1
  <2>1. k < i /\ k \in 1 .. Len(env) /\ i \in 1 .. Len(env)
    BY <1>2, <1>10, <2>0
  <2> DEFINE a == of[i]
             b == of[k]
             x == at[a]
             y == at[b]
             p == pos[i]
             q == pos[k]
  <2>2. b < a \/ (b = a /\ q < p)
    BY <1>3, <2>1
  <2>3. a \in 1 .. Len(c) /\ b \in 1 .. Len(c) /\ p \in Nat /\ q \in Nat /\ a \in Nat /\ b \in Nat
    BY <1>2, <1>6, <2>1
  <2>4. (b < a <=> Beats(x, y)) /\ (a < b <=> Beats(y, x)) /\ ~Beats(x, x) /\ ~Beats(y, y)
    BY <1>1, <2>3
  <2>5. item(i) = <<x, p>> /\ item(k) = <<y, q>>
    OBVIOUS
  <2>6. b = a => x = y
    OBVIOUS
  <2> HIDE DEF a, b, x, y, p, q, item
  <2>7. CASE b < a
    <3>1. Beats(x, y) /\ ~Beats(y, x) /\ x # y
      BY <2>3, <2>4, <2>7
    <3>2. QED
      BY <2>5, <3>1 DEF ComesAfter
  <2>8. CASE b = a /\ q < p
    <3>1. x = y /\ ~Beats(x, x) /\ ~(q > p) /\ p > q
      BY <2>3, <2>4, <2>6, <2>8
    <3>2. QED
      BY <2>5, <3>1 DEF ComesAfter
  <2>9. QED
    BY <2>2, <2>7, <2>8
<1> HIDE DEF item, isV
<1> DEFINE latest(e) == \A f \in own \ {e} : ComesAfter(e, f)
<1>11. latest(item(i)) /\ item(i) \in own
  BY <1>7, <1>8, <1>9, <1>10
<1>12. ASSUME NEW e \in own, latest(e)
       PROVE  e = item(i)
  <2>1. SUFFICES ASSUME e # item(i)
                 PROVE  FALSE
    OBVIOUS
  <2>2. PICK k : isV(k) /\ e = item(k)
    BY <1>8
  <2>3. k # i
    BY <2>1, <2>2
  <2>4. ComesAfter(e, item(i))
    BY <1>11, <1>12, <2>1
  <2>5. QED
    BY <1>10, <2>2, <2>3, <2>4
<1> HIDE DEF latest
<1>13. (CHOOSE e \in own : latest(e)) = item(i)
  BY <1>11, <1>12
<1>14. QED
  BY <1>11, <1>13 DEF item, latest, LatestOf

IsOn(r) == r.scalars["metal_hud"].value = "true"
HudName(k) == IF k = 1 THEN "MTL_HUD_ENABLED"
              ELSE IF k = 2 THEN "MTL_HUD_ALIGNMENT" ELSE "MTL_HUD_ELEMENTS"

(* What is at or after the HUD's place: the HUD, what the rules have after *)
(* it, and the renderer.                                                   *)
LEMMA AfterHud ==
  ASSUME NEW r \in Resolved, Said(r, "metal_hud")
  PROVE  LET f == FinalEnv(r)
             h == r.hudAt
             m == Len(r.env)
         IN /\ m \in Nat /\ h \in 0 .. m /\ Len(f) \in Nat /\ Len(f) >= m + 3
            /\ \A k \in 1 .. 3 : /\ f[h + k].value = MetalHudEnv(IsOn(r))[k].value
                                 /\ f[h + k].name = HudName(k) /\ f[h + k].default = FALSE
            /\ \A i \in h + 1 .. m : f[3 + i] = r.env[i]
            /\ \A q \in m + 4 .. Len(f) : f[q].name = D3dConfig
<1> DEFINE f == FinalEnv(r)
           h == r.hudAt
           m == Len(r.env)
           n == Len(AllEnv(r))
           d == DerivedConfig(r)
           hud == DerivedHud(r)
           by == r.scalars["metal_hud"].by
           es == MetalHudEnv(IsOn(r))
           a == AllEnv(r)
           env == r.env
<1>1. /\ env \in Seq(FinalItems) /\ h \in 0 .. m /\ n = m + Len(d)
      /\ \A i \in 1 .. m : a[i] = env[i]
      /\ \A i \in 1 .. Len(d) : a[m + i] = d[i]
  BY AllEnvType
<1>2. m \in Nat /\ h \in Nat
  BY <1>1
<1>3. Len(hud) = 3 /\ \A i \in 1 .. 3 : hud[i] = FinalEntry(es[i], by)
  BY DerivedHudType DEF IsOn
<1>4. \A i \in 1 .. 3 : es[i].name = HudName(i)
  BY MetalHudEnvType DEF HudName
<1>5. Len(d) \in Nat /\ \A i \in 1 .. Len(d) : d[i].name = D3dConfig
  <2>1. CASE Said(r, "wined3d")
    <3>1. Len(d) = 1 /\ d[1] = FinalEntry(ConfigEntry(r), r.scalars["wined3d"].by)
      BY <2>1, DerivedConfigType
    <3>2. d[1].name = D3dConfig
      BY <3>1 DEF FinalEntry, ConfigEntry, D3dConfig
    <3>3. QED
      BY <3>1, <3>2
  <2>2. CASE ~Said(r, "wined3d")
    <3> DEFINE none == <<>>
    <3>1. d = none
      BY <2>2, DerivedConfigType
    <3>2. Len(none) = 0
      OBVIOUS
    <3>3. QED
      BY <3>1, <3>2
  <2>3. QED
    BY <2>1, <2>2
<1>6. /\ n \in Nat /\ h \in 0 .. n
      /\ Len(f) = n + Len(hud)
      /\ \A i \in 1 .. Len(hud) : f[h + i] = hud[i]
      /\ \A i \in h + 1 .. n : f[Len(hud) + i] = a[i]
  BY FinalEnvIs
<1> HIDE DEF f, h, m, n, d, hud, by, es, a, env
<1>7. ASSUME NEW k \in 1 .. 3
      PROVE  /\ f[h + k].value = es[k].value /\ f[h + k].name = HudName(k)
             /\ f[h + k].default = FALSE
  <2>1. f[h + k] = FinalEntry(es[k], by)
    BY <1>3, <1>6
  <2>2. QED
    BY <1>4, <2>1 DEF FinalEntry
<1>8. ASSUME NEW i \in h + 1 .. m
      PROVE  f[3 + i] = env[i]
  BY <1>1, <1>2, <1>3, <1>5, <1>6
<1>9. ASSUME NEW q \in m + 4 .. Len(f)
      PROVE  f[q].name = D3dConfig
  <2> DEFINE i == q - 3
  <2>1. i \in h + 1 .. n /\ q = 3 + i /\ i - m \in 1 .. Len(d) /\ i = m + (i - m)
    BY <1>1, <1>2, <1>3, <1>5, <1>6
  <2>2. f[q] = a[i]
    BY <1>3, <1>6, <2>1
  <2>3. a[i] = d[i - m]
    BY <1>1, <2>1
  <2> HIDE DEF i
  <2>4. QED
    BY <1>5, <2>1, <2>2, <2>3
<1>10. Len(f) \in Nat /\ Len(f) >= m + 3
  BY <1>1, <1>2, <1>3, <1>5, <1>6
<1>11. QED
  BY <1>1, <1>2, <1>7, <1>8, <1>9, <1>10 DEF f, h, m, es, env

(* The HUD's names are three, none of them the renderer's, all spelled as  *)
(* the block has them.                                                     *)
LEMMA HudNames ==
  ASSUME NEW k \in 1 .. 3
  PROVE  /\ Variable[HudName(k)] = HudName(k) /\ HudName(k) # D3dConfig
         /\ Variable[D3dConfig] = D3dConfig
         /\ HudName(k) # Reduced /\ Variable[Reduced] = Reduced
         /\ \A l \in 1 .. 3 : HudName(k) = HudName(l) => k = l
<1>1. HudName(k) \in OwnVariables /\ D3dConfig \in OwnVariables
  BY DEF HudName, OwnVariables, D3dConfig
<1>2. Variable[HudName(k)] = HudName(k) /\ Variable[D3dConfig] = D3dConfig
  BY <1>1, RulesAssumption
<1>3. Variable[Reduced] = Reduced
  BY BuiltInAssumption, Zenon DEF Reduced
<1>4. HudName(k) # D3dConfig /\ HudName(k) # Reduced
  BY DEF HudName, D3dConfig, Reduced
<1>5. \A l \in 1 .. 3 : HudName(k) = HudName(l) => k = l
  BY DEF HudName
<1>6. QED
  BY <1>2, <1>3, <1>4, <1>5

(* Entry q of some entries is the last one for v.                          *)
LastSpot(f, v, q) ==
  /\ q \in 1 .. Len(f) /\ Variable[f[q].name] = v
  /\ \A j \in 1 .. Len(f) : Variable[f[j].name] = v => j <= q

(* Of the entries for one of the HUD's variables the last one is the last  *)
(* that the rules have after the HUD's place, or else the HUD's own.       *)
LEMMA HudSpot ==
  ASSUME NEW r \in Resolved, Said(r, "metal_hud"), NEW k \in 1 .. 3
  PROVE  /\ \A i : IsLatest(r.env, r.hudAt, HudName(k), i) => LastSpot(FinalEnv(r), HudName(k), 3 + i)
         /\ (\A i \in 1 .. Len(r.env) : r.hudAt < i => Variable[r.env[i].name] # HudName(k))
              => LastSpot(FinalEnv(r), HudName(k), r.hudAt + k)
<1> DEFINE f == FinalEnv(r)
           h == r.hudAt
           env == r.env
           m == Len(env)
           v == HudName(k)
<1>1. /\ m \in Nat /\ h \in 0 .. m /\ Len(f) \in Nat /\ Len(f) >= m + 3
      /\ \A l \in 1 .. 3 : f[h + l].name = HudName(l)
      /\ \A i \in h + 1 .. m : f[3 + i] = env[i]
      /\ \A q \in m + 4 .. Len(f) : f[q].name = D3dConfig
  BY AfterHud
<1>2. /\ Variable[v] = v /\ v # D3dConfig /\ Variable[D3dConfig] = D3dConfig
      /\ \A l \in 1 .. 3 : v = HudName(l) => k = l
      /\ \A l \in 1 .. 3 : Variable[HudName(l)] = HudName(l)
  BY HudNames
<1> HIDE DEF f, h, env, m, v
<1>3. ASSUME NEW q \in 1 .. Len(f), Variable[f[q].name] = v
      PROVE  \/ q <= h
             \/ q = h + k
             \/ q - 3 \in h + 1 .. m /\ Variable[env[q - 3].name] = v
  <2>1. CASE q <= h
    BY <2>1
  <2>2. CASE q \in h + 1 .. h + 3
    <3> DEFINE l == q - h
    <3>1. l \in 1 .. 3 /\ q = h + l
      BY <1>1, <2>2
    <3> HIDE DEF l
    <3>2. f[q].name = HudName(l)
      BY <1>1, <3>1
    <3>3. HudName(l) = v
      BY <1>2, <1>3, <3>1, <3>2
    <3>4. l = k
      BY <1>2, <3>1, <3>3
    <3>5. QED
      BY <3>1, <3>4
  <2>3. CASE q \in h + 4 .. m + 3
    <3> DEFINE i == q - 3
    <3>1. i \in h + 1 .. m /\ q = 3 + i
      BY <1>1, <2>3
    <3>2. f[q] = env[i]
      BY <1>1, <3>1
    <3> HIDE DEF i
    <3>3. Variable[env[i].name] = v
      BY <1>3, <3>2
    <3>4. QED
      BY <3>1, <3>3 DEF i
  <2>4. CASE q \in m + 4 .. Len(f)
    <3>1. f[q].name = D3dConfig
      BY <1>1, <2>4
    <3>2. QED
      BY <1>2, <1>3, <3>1
  <2>5. QED
    BY <1>1, <2>1, <2>2, <2>3, <2>4
<1>4. ASSUME NEW i, IsLatest(env, h, v, i)
      PROVE  LastSpot(f, v, 3 + i)
  <2>1. i \in 1 .. m /\ h < i /\ Variable[env[i].name] = v
        /\ \A l \in 1 .. m : Variable[env[l].name] = v => l <= i
    BY <1>4 DEF IsLatest, m
  <2>2. i \in h + 1 .. m /\ 3 + i \in 1 .. Len(f)
    BY <1>1, <2>1
  <2>3. Variable[f[3 + i].name] = v
    BY <1>1, <2>1, <2>2
  <2>4. ASSUME NEW q \in 1 .. Len(f), Variable[f[q].name] = v
        PROVE  q <= 3 + i
    <3>1. q <= h \/ q = h + k \/ (q - 3 \in h + 1 .. m /\ Variable[env[q - 3].name] = v)
      BY <1>3, <2>4
    <3>2. CASE q <= h \/ q = h + k
      BY <1>1, <2>1, <3>2
    <3>3. CASE q - 3 \in h + 1 .. m /\ Variable[env[q - 3].name] = v
      <4>1. q - 3 \in 1 .. m
        BY <1>1, <3>3
      <4>2. q - 3 <= i
        BY <2>1, <3>3, <4>1
      <4>3. QED
        BY <1>1, <2>1, <4>2
    <3>4. QED
      BY <3>1, <3>2, <3>3
  <2>5. QED
    BY <2>2, <2>3, <2>4 DEF LastSpot
<1>5. ASSUME \A i \in 1 .. m : h < i => Variable[env[i].name] # v
      PROVE  LastSpot(f, v, h + k)
  <2>1. h + k \in 1 .. Len(f) /\ Variable[f[h + k].name] = v
    <3>1. f[h + k].name = v
      BY <1>1 DEF v
    <3>2. QED
      BY <1>1, <1>2, <3>1
  <2>2. ASSUME NEW q \in 1 .. Len(f), Variable[f[q].name] = v
        PROVE  q <= h + k
    <3>1. q <= h \/ q = h + k \/ (q - 3 \in h + 1 .. m /\ Variable[env[q - 3].name] = v)
      BY <1>3, <2>2
    <3>2. ~(q - 3 \in h + 1 .. m /\ Variable[env[q - 3].name] = v)
      <4>1. q - 3 \in h + 1 .. m => q - 3 \in 1 .. m /\ h < q - 3
        BY <1>1
      <4>2. QED
        BY <1>5, <4>1
    <3>3. QED
      BY <1>1, <3>1, <3>2
  <2>3. QED
    BY <2>1, <2>2 DEF LastSpot
<1>6. QED
  BY <1>4, <1>5 DEF f, h, env, m, v

Sayers == {i \in Hits : RuleAt(i).scalars["metal_hud"] # Unset}
Setter == TheOneOf(Sayers)

(* The rule that sets the HUD is the last that says anything of it.        *)
LEMMA SetterIs ==
  ASSUME NEW c, NEW at, Ranks(c, at), Said(Folded(c), "metal_hud")
  PROVE  \E j \in 1 .. Len(c) :
           /\ Setter = at[j]
           /\ SaysOf(c[j], "metal_hud") /\ c[j].rule.scalars["metal_hud"] # Default
           /\ \A i \in j + 1 .. Len(c) : ~SaysOf(c[i], "metal_hud")
<1> DEFINE s == "metal_hud"
<1>1. c \in Seq(TableEntries) /\ s \in Scalars
  BY RulesAssumption DEF Ranks
<1>2. Len(c) \in Nat
  BY <1>1
<1>3. PICK j \in 1 .. Len(c) :
        /\ SaysOf(c[j], s) /\ Folded(c).scalars[s] = Saying(c[j], s)
        /\ \A i \in 1 .. Len(c) : SaysOf(c[i], s) => i <= j
  <2> HIDE DEF s
  <2>1. Said(Folded(c), s)
    BY DEF s
  <2>2. QED
    BY <1>1, <2>1, SaidByRule
<1>4. c[j].rule.scalars[s] # Default
  <2> DEFINE word == c[j].rule.scalars[s]
             e == c[j]
  <2>1. Folded(c).scalars[s].value = word
    BY <1>3 DEF Saying
  <2>2. Folded(c).scalars[s].value # Default
    BY DEF Said
  <2>3. QED
    BY <2>1, <2>2
<1>5. \A k \in 1 .. Len(c) : at[k] \in Hits /\ RuleAt(at[k]) = c[k].rule
  BY DEF Ranks, RuleAt
<1>6. \A k \in 1 .. Len(c) : at[k] \in Sayers <=> SaysOf(c[k], s)
  BY <1>5 DEF Sayers, SaysOf
<1>7. Sayers \subseteq Hits
  BY DEF Sayers
<1>8. Setter = at[j]
  <2> DEFINE says == Sayers
  <2>1. at[j] \in says /\ says \subseteq Hits /\ \A k \in 1 .. Len(c) : at[k] \in says => k <= j
    BY <1>3, <1>6, <1>7
  <2> HIDE DEF says
  <2>2. TheOneOf(says) = at[j]
    BY <2>1, TheBeating
  <2>3. QED
    BY <2>2 DEF says, Setter
<1>9. \A i \in j + 1 .. Len(c) : ~SaysOf(c[i], s)
  BY <1>2, <1>3
<1>10. QED
  BY <1>3, <1>4, <1>8, <1>9

(* One of the HUD's variables is the setting's, but for the entries that   *)
(* the HUD yields to.                                                      *)
LEMMA OneHudYields ==
  ASSUME CompatInv, Running, Said(proc.res, "metal_hud"), "block" \notin proc.refused,
         NEW k \in 1 .. 3
  PROVE  LET hud == MetalHudEnv(IsOn(proc.res))[k]
             entries == OwnEntries(Hits, Setter, hud.name)
             last == LatestOf(entries)
         IN proc.block[hud.name] =
              IF entries = {} THEN Value(hud) ELSE Value(RuleAt(last[1]).env[last[2]])
<1>1. PICK c, at : Ranks(c, at) /\ proc.res = FoldDerivedEnv(Folded(c)) /\ Folded(c) \in Resolved
  BY RunningRanks
<1> DEFINE r == Folded(c)
           f == proc.res.env
           v == HudName(k)
           h == r.hudAt
           env == r.env
           hud == MetalHudEnv(IsOn(proc.res))[k]
           entries == OwnEntries(Hits, Setter, v)
           last == LatestOf(entries)
<1>2. f = FinalEnv(r) /\ proc.res.scalars = r.scalars /\ r \in Resolved
  BY <1>1, DerivedIs
<1>3. Said(r, "metal_hud") /\ IsOn(r) = IsOn(proc.res)
  BY <1>2 DEF Said, IsOn
<1>4. PICK j \in 1 .. Len(c) :
        /\ Setter = at[j]
        /\ SaysOf(c[j], "metal_hud") /\ c[j].rule.scalars["metal_hud"] # Default
        /\ \A i \in j + 1 .. Len(c) : ~SaysOf(c[i], "metal_hud")
  BY <1>1, <1>3, SetterIs
<1>5. PICK of, pos : IsListed(env, c, Len(c), of, pos) /\ HudPlaced(c, Len(c), env, h, of)
  <2>1. c \in Seq(TableEntries)
    BY <1>1 DEF Ranks
  <2>2. QED
    BY <2>1, EnvIs
<1>6. \A i \in 1 .. Len(env) : i <= h <=> of[i] < j
  BY <1>4, <1>5 DEF HudPlaced
<1>7. \A e : e \in entries <=> IsOwnEntry(c, at, j, v, e)
  <2>1. \A e : e \in OwnEntries(Hits, at[j], v) <=> IsOwnEntry(c, at, j, v, e)
    BY <1>1, OwnEntriesAre
  <2>2. QED
    BY <1>4, <2>1
<1>8. hud.name = v /\ f[h + k].value = hud.value /\ f[h + k].default = FALSE
      /\ h \in Nat /\ Len(env) \in Nat
      /\ \A i \in h + 1 .. Len(env) : f[3 + i] = env[i]
  <2>1. /\ Len(env) \in Nat /\ h \in 0 .. Len(env)
        /\ FinalEnv(r)[h + k].value = MetalHudEnv(IsOn(r))[k].value
        /\ FinalEnv(r)[h + k].default = FALSE
        /\ \A i \in h + 1 .. Len(env) : FinalEnv(r)[3 + i] = env[i]
    BY <1>2, <1>3, AfterHud
  <2>2. MetalHudEnv(IsOn(proc.res))[k].name = HudName(k)
    BY MetalHudEnvType DEF HudName
  <2> HIDE DEF r
  <2>3. QED
    BY <1>2, <1>3, <2>1, <2>2
<1>9. OnlyDefault(f)
  BY FinalDefault
<1>10. ASSUME NEW q, LastSpot(f, v, q)
       PROVE  proc.block[v] = Value(f[q])
  <2>1. f[q].name # Reduced
    BY <1>10, HudNames DEF LastSpot
  <2>2. ~f[q].default
    BY <1>9, <1>10, <2>1 DEF LastSpot, OnlyDefault
  <2>3. LastFinal(f, v, q)
    BY <1>10, <2>2 DEF LastSpot, LastFinal
  <2>4. QED
    BY <2>3, LastDecides
<1>11. /\ \A i : IsLatest(env, h, v, i) => LastSpot(f, v, 3 + i)
       /\ (\A i \in 1 .. Len(env) : h < i => Variable[env[i].name] # v) => LastSpot(f, v, h + k)
  <2>1. /\ \A i : IsLatest(env, h, v, i) => LastSpot(FinalEnv(r), v, 3 + i)
        /\ (\A i \in 1 .. Len(env) : h < i => Variable[env[i].name] # v)
              => LastSpot(FinalEnv(r), v, h + k)
    BY <1>2, <1>3, HudSpot
  <2>2. QED
    BY <1>2, <2>1
<1>12. ASSUME NEW i \in 1 .. Len(env)
       PROVE  env[i].value = RuleAt(at[of[i]]).env[pos[i]].value
  <2>1. of[i] \in 1 .. Len(c) /\ env[i] = EnvItem(c[of[i]], pos[i])
    BY <1>5 DEF IsListed
  <2>2. RuleAt(at[of[i]]) = c[of[i]].rule
    BY <1>1, <2>1 DEF Ranks, RuleAt
  <2> DEFINE name == c[of[i]].rule.env[pos[i]].name
             value == c[of[i]].rule.env[pos[i]].value
             from == Origin(c[of[i]])
  <2>3. EnvItem(c[of[i]], pos[i]) =
          [name |-> name, value |-> value, from |-> from, default |-> EnvIsDefault(from)]
    BY Zenon DEF EnvItem
  <2> HIDE DEF name, value, from
  <2>4. env[i].value = value
    BY <2>1, <2>3
  <2>5. QED
    BY <2>2, <2>4 DEF value
<1> HIDE DEF r, f, v, h, env, hud, entries, last
<1>13. CASE \E i \in 1 .. Len(env) : h < i /\ Variable[env[i].name] = v
  <2> DEFINE I == {i \in 1 .. Len(env) : h < i /\ Variable[env[i].name] = v}
  <2>1. PICK i \in I : \A l \in I : l <= i
    <3>1. I \subseteq 1 .. Len(env) /\ I # {}
      BY <1>13
    <3> HIDE DEF I
    <3>2. LastOf(I) \in I /\ \A l \in I : l <= LastOf(I)
      BY <1>8, <3>1, LargestIn
    <3>3. QED
      BY <3>2
  <2>2. IsLatest(env, h, v, i)
    <3>1. \A l \in 1 .. Len(env) : Variable[env[l].name] = v => l <= i
      <4>1. ASSUME NEW l \in 1 .. Len(env), Variable[env[l].name] = v
            PROVE  l <= i
        <5>1. CASE h < l
          BY <2>1, <4>1, <5>1
        <5>2. CASE ~(h < l)
          BY <1>8, <5>2
        <5>3. QED
          BY <5>1, <5>2
      <4>2. QED
        BY <4>1
    <3>2. QED
      BY <3>1 DEF IsLatest
  <2>3. <<at[of[i]], pos[i]>> \in entries /\ last = <<at[of[i]], pos[i]>>
    <3>1. /\ <<at[of[i]], pos[i]>> \in entries
          /\ LatestOf(entries) = <<at[of[i]], pos[i]>>
      <4>1. /\ Ranks(c, at) /\ IsListed(env, c, Len(c), of, pos) /\ h \in Nat /\ j \in 1 .. Len(c)
            /\ HudSplits(env, h, of, j) /\ IsLatest(env, h, v, i) /\ OwnAre(c, at, j, v, entries)
        BY <1>1, <1>5, <1>6, <1>7, <1>8, <2>2 DEF HudSplits, OwnAre
      <4>2. QED
        BY ONLY <4>1, LatestEntry
    <3>2. QED
      BY <3>1 DEF last
  <2>4. proc.block[v] = Value(f[3 + i])
    BY <1>10, <1>11, <2>2
  <2>5. f[3 + i] = env[i]
    BY <1>8
  <2>6. last[1] = at[of[i]] /\ last[2] = pos[i] /\ entries # {}
    BY <2>3
  <2>7. env[i].value = RuleAt(last[1]).env[last[2]].value
    BY <1>12, <2>6
  <2>8. proc.block[v] = Value(RuleAt(last[1]).env[last[2]])
    BY <2>4, <2>5, <2>7 DEF Value
  <2>9. QED
    BY <1>8, <2>6, <2>8 DEF hud, entries, last
<1>14. CASE \A i \in 1 .. Len(env) : ~(h < i /\ Variable[env[i].name] = v)
  <2>1. proc.block[v] = Value(f[h + k])
    BY <1>10, <1>11, <1>14
  <2>2. Value(f[h + k]) = Value(hud)
    BY <1>8 DEF Value
  <2>3. entries = {}
    <3>1. ASSUME NEW e \in entries
          PROVE  FALSE
      <4>1. PICK n \in 1 .. Len(c) :
              /\ j <= n
              /\ \E m \in 1 .. EnvCount(c[n]) :
                   Variable[c[n].rule.env[m].name] = v /\ e = <<at[n], m>>
        BY <1>7 DEF IsOwnEntry
      <4>2. PICK m \in 1 .. EnvCount(c[n]) : Variable[c[n].rule.env[m].name] = v
        BY <4>1
      <4>3. PICK i \in 1 .. Len(env) : of[i] = n /\ pos[i] = m
        BY <1>5 DEF IsListed
      <4>4. env[i] = EnvItem(c[n], m)
        BY <1>5, <4>3 DEF IsListed
      <4>5. Variable[env[i].name] = v
        <5> DEFINE name == c[n].rule.env[m].name
                   value == c[n].rule.env[m].value
                   from == Origin(c[n])
        <5>1. EnvItem(c[n], m) =
                [name |-> name, value |-> value, from |-> from, default |-> EnvIsDefault(from)]
          BY Zenon DEF EnvItem
        <5>2. Variable[name] = v
          BY <4>2
        <5> HIDE DEF name, value, from
        <5>3. QED
          BY <4>4, <5>1, <5>2
      <4>6. h < i
        <5>1. ~(n < j)
          BY <4>1
        <5>2. ~(i <= h)
          BY <1>6, <4>3, <5>1
        <5>3. QED
          BY <1>8, <5>2
      <4>7. QED
        BY <1>14, <4>5, <4>6
    <3>2. QED
      BY <3>1
  <2>4. QED
    BY <1>8, <2>1, <2>2, <2>3 DEF hud, entries, last
<1>15. QED
  BY <1>13, <1>14

(* The inductive invariant implies that the HUD yields.                    *)
LEMMA HudIs == CompatInv => HudYields
<1> SUFFICES ASSUME CompatInv, Running, Said(proc.res, "metal_hud"), "block" \notin proc.refused
             PROVE  \A k \in 1 .. 3 :
                      LET hud == MetalHudEnv(IsOn(proc.res))[k]
                          entries == OwnEntries(Hits, Setter, hud.name)
                          last == LatestOf(entries)
                      IN proc.block[hud.name] =
                           IF entries = {} THEN Value(hud) ELSE Value(RuleAt(last[1]).env[last[2]])
  <2>1. DOMAIN MetalHudEnv(IsOn(proc.res)) = 1 .. 3
    BY MetalHudEnvType
  <2>2. QED
    BY <2>1, ZenonT(40) DEF HudYields, IsOn, OwnEntries, Setter, Sayers, TheOneOf, LatestOf, ComesAfter
<1>1. QED
  BY OneHudYields

(* The HUD's variables are the setting's, but for those that the rule that *)
(* set it, or one that beats it, has an entry of its own for: that entry's *)
(* value is what the program sees (resolve.rs, fold_derived_env).          *)
THEOREM HudYieldsToEntries == Spec => []HudYields
<1>1. QED
  BY HudIs, CompatInvariant, PTL

(* What the rules say of a module is what the last entry that names it says. *)
LEMMA DllsAre ==
  ASSUME NEW c \in Seq(TableEntries), NEW m
  PROVE  \E order : OrderIs(Folded(c).dlls, m, order) /\ LastOfAll(c, m, Len(c), order)
<1> DEFINE st == Folds(c)
           Good(k) == \E order : OrderIs(st[k].dlls, m, order) /\ LastOfAll(c, m, k, order)
           T == {k \in Nat : k <= Len(c) => Good(k)}
<1>0. Len(c) \in Nat /\ \A k \in 1 .. Len(c) : c[k] \in TableEntries
  OBVIOUS
<1>1. /\ st[0] = NoResolution /\ Folded(c) = st[Len(c)]
      /\ \A k \in 1 .. Len(c) : st[k] = FoldRule(st[k - 1], c[k])
      /\ \A k \in 0 .. Len(c) : st[k] \in Resolved
  BY FoldsAre
<1> HIDE DEF st
<1>2. 0 \in T
  <2> DEFINE order == <<Default>>
             none == <<>>
  <2>1. Drops(order)
    BY DEF Drops
  <2>2. st[0].dlls = none /\ Len(none) = 0
    BY <1>1 DEF NoResolution
  <2> HIDE DEF order, none
  <2>3. OrderIs(st[0].dlls, m, order)
    BY <2>1, <2>2 DEF OrderIs
  <2>4. LastOfAll(c, m, 0, order)
    BY <2>1 DEF LastOfAll
  <2>5. QED
    BY <2>3, <2>4
<1>3. ASSUME NEW k \in Nat, k \in T
      PROVE  k + 1 \in T
  <2> SUFFICES ASSUME k + 1 <= Len(c)
               PROVE  Good(k + 1)
    OBVIOUS
  <2>1. k <= Len(c) /\ k + 1 \in 1 .. Len(c) /\ (k + 1) - 1 = k /\ k \in 0 .. Len(c)
    BY <1>0
  <2>2. PICK before : OrderIs(st[k].dlls, m, before) /\ LastOfAll(c, m, k, before)
    BY <1>3, <2>1
  <2> DEFINE e == c[k + 1]
             d == st[k].dlls
  <2>3. e \in TableEntries /\ d \in Seq(DllItems)
    <3>1. st[k] \in Resolved
      BY <1>1, <2>1
    <3>2. d \in Seq(DllItems)
      BY <3>1 DEF Resolved, Resolutions
    <3>3. QED
      BY <1>0, <2>1, <3>2
  <2>4. OrderIs(d, m, before)
    BY <2>2
  <2>5. st[k + 1].dlls = FoldDlls(d, e)
    <3>1. st[k + 1] = FoldRule(st[k], e)
      BY <1>1, <2>1
    <3>2. FoldRule(st[k], e).dlls = FoldDlls(st[k].dlls, e)
      BY DEF FoldRule
    <3>3. QED
      BY <3>1, <3>2
  <2> HIDE DEF d
  <2>6. PICK order : OrderIs(FoldDlls(d, e), m, order) /\ LastIn(e, m, DllCount(e), before, order)
    <3> HIDE DEF e
    <3>1. QED
      BY <2>3, <2>4, FoldDllsSays
  <2>7. LastOfAll(c, m, k + 1, order)
    BY <2>2, <2>6, LastOfAllMore
  <2>8. QED
    BY <2>5, <2>6, <2>7
<1>4. \A k \in Nat : k \in T
  <2> HIDE DEF T
  <2>1. QED
    BY <1>2, <1>3, Joining!Induction
<1>5. QED
  BY <1>0, <1>1, <1>4

DllNames == UNION {{i} \X DOMAIN RuleAt(i).dlls : i \in Hits}
DllText(e) == RuleAt(e[1]).dlls[e[2]]
NamedFor(m) == {e \in DllNames : Contains(Modules(DllText(e)), m)}

(* Entry q of rule at[k], which names m.                                   *)
IsNamed(c, at, m, e) ==
  \E k \in 1 .. Len(c) : \E q \in 1 .. DllCount(c[k]) : NamesAt(c[k], q, m) /\ e = <<at[k], q>>

(* The entries that name a module are those of the rules that are folded.  *)
LEMMA NamedForAre ==
  ASSUME NEW c, NEW at, Ranks(c, at), NEW m
  PROVE  /\ \A e : e \in NamedFor(m) <=> IsNamed(c, at, m, e)
         /\ \A k \in 1 .. Len(c) : \A q : DllText(<<at[k], q>>) = c[k].rule.dlls[q]
         /\ \A k \in 1 .. Len(c) : DllCount(c[k]) \in Nat
<1>1. \A k \in 1 .. Len(c) : at[k] \in Hits /\ RuleAt(at[k]) = c[k].rule
  BY DEF Ranks, RuleAt
<1>2. ASSUME NEW k \in 1 .. Len(c)
      PROVE  DllCount(c[k]) \in Nat /\ DOMAIN c[k].rule.dlls = 1 .. DllCount(c[k])
  <2>1. c[k] \in TableEntries
    BY DEF Ranks
  <2>2. c[k].rule.dlls \in Seq(AnyText)
    BY <2>1, RuleType
  <2>3. QED
    BY <2>2 DEF DllCount
<1>3. \A k \in 1 .. Len(c) : \A q : DllText(<<at[k], q>>) = c[k].rule.dlls[q]
  <2> SUFFICES ASSUME NEW k \in 1 .. Len(c), NEW q
               PROVE  DllText(<<at[k], q>>) = c[k].rule.dlls[q]
    OBVIOUS
  <2> DEFINE e == <<at[k], q>>
  <2>1. e[1] = at[k] /\ e[2] = q
    OBVIOUS
  <2> HIDE DEF e
  <2>2. DllText(e) = c[k].rule.dlls[q]
    BY <1>1, <2>1 DEF DllText
  <2>3. QED
    BY <2>2 DEF e
<1>4. ASSUME NEW e \in NamedFor(m)
      PROVE  IsNamed(c, at, m, e)
  <2>1. e \in DllNames /\ Contains(Modules(DllText(e)), m)
    BY DEF NamedFor
  <2>2. PICK i \in Hits : e \in {i} \X DOMAIN RuleAt(i).dlls
    BY <2>1 DEF DllNames
  <2>3. PICK k \in 1 .. Len(c) : at[k] = i
    BY DEF Ranks
  <2>4. PICK q \in DOMAIN RuleAt(i).dlls : e = <<i, q>>
    BY <2>2
  <2>5. q \in 1 .. DllCount(c[k]) /\ e = <<at[k], q>>
    BY <1>1, <1>2, <2>3, <2>4
  <2>6. NamesAt(c[k], q, m)
    BY <1>3, <2>1, <2>5 DEF NamesAt, Names1
  <2>7. QED
    BY <2>5, <2>6 DEF IsNamed
<1>5. ASSUME NEW e, IsNamed(c, at, m, e)
      PROVE  e \in NamedFor(m)
  <2>1. PICK k \in 1 .. Len(c) : \E q \in 1 .. DllCount(c[k]) : NamesAt(c[k], q, m) /\ e = <<at[k], q>>
    BY <1>5 DEF IsNamed
  <2>2. PICK q \in 1 .. DllCount(c[k]) : NamesAt(c[k], q, m) /\ e = <<at[k], q>>
    BY <2>1
  <2>3. q \in DOMAIN RuleAt(at[k]).dlls
    BY <1>1, <1>2
  <2>4. e \in {at[k]} \X DOMAIN RuleAt(at[k]).dlls
    BY <2>2, <2>3
  <2>5. e \in DllNames
    BY <1>1, <2>4 DEF DllNames
  <2>6. Contains(Modules(DllText(e)), m)
    BY <1>3, <2>2 DEF NamesAt, Names1
  <2>7. QED
    BY <2>5, <2>6 DEF NamedFor
<1>6. QED
  BY <1>2, <1>3, <1>4, <1>5

NamedAre(c, at, m, own) == \A e : e \in own <=> IsNamed(c, at, m, e)
IsLastName(c, m, j, q) ==
  /\ j \in 1 .. Len(c) /\ q \in 1 .. DllCount(c[j]) /\ NamesAt(c[j], q, m)
  /\ \A i \in 1 .. Len(c) : \A p \in 1 .. DllCount(c[i]) :
       NamesAt(c[i], p, m) => i < j \/ (i = j /\ p <= q)

IsTop(c, at, m, own, j, q) == Ranks(c, at) /\ NamedAre(c, at, m, own) /\ IsLastName(c, m, j, q)

(* The last entry that names a module is that of the last rule with one,   *)
(* and the last in it.                                                     *)
LEMMA LatestNamed ==
  ASSUME NEW c, NEW at, NEW m, NEW own, NEW j, NEW q, IsTop(c, at, m, own, j, q)
  PROVE  LatestOf(own) = <<at[j], q>>
<1> USE DEF IsTop
<1> DEFINE top == <<at[j], q>>
           latest(e) == \A f \in own \ {e} : ComesAfter(e, f)
<1>1. Len(c) \in Nat /\ \A k, l \in 1 .. Len(c) : k < l <=> Beats(at[l], at[k])
  BY DEF Ranks
<1>2. j \in 1 .. Len(c) /\ q \in 1 .. DllCount(c[j]) /\ NamesAt(c[j], q, m)
  BY DEF IsLastName
<1>3. \A k \in 1 .. Len(c) : DllCount(c[k]) \in Nat
  BY NamedForAre
<1>4. top \in own
  <2>1. IsNamed(c, at, m, top)
    BY <1>2 DEF IsNamed
  <2>2. QED
    BY <2>1 DEF NamedAre
<1>5. ASSUME NEW e \in own, e # top
      PROVE  ComesAfter(top, e) /\ ~ComesAfter(e, top)
  <2>1. IsNamed(c, at, m, e)
    BY DEF NamedAre
  <2>2. PICK i \in 1 .. Len(c) : \E p \in 1 .. DllCount(c[i]) : NamesAt(c[i], p, m) /\ e = <<at[i], p>>
    BY <2>1 DEF IsNamed
  <2>3. PICK p \in 1 .. DllCount(c[i]) : NamesAt(c[i], p, m) /\ e = <<at[i], p>>
    BY <2>2
  <2>4. i < j \/ (i = j /\ p <= q)
    BY <2>3 DEF IsLastName
  <2>5. p \in Nat /\ q \in Nat /\ i \in Nat /\ j \in Nat
    BY <1>1, <1>2, <1>3
  <2>6. i = j => p # q
    BY <1>5, <2>3
  <2> DEFINE x == at[j]
             y == at[i]
  <2>7. (i < j <=> Beats(x, y)) /\ (j < i <=> Beats(y, x)) /\ ~Beats(x, x) /\ (i = j => x = y)
    BY <1>1, <1>2, <2>5
  <2>8. top = <<x, q>> /\ e = <<y, p>>
    BY <2>3
  <2> HIDE DEF x, y, top
  <2>9. CASE i < j
    <3>1. Beats(x, y) /\ ~Beats(y, x) /\ x # y
      BY <2>5, <2>7, <2>9
    <3>2. QED
      BY <2>8, <3>1 DEF ComesAfter
  <2>10. CASE i = j /\ p <= q
    <3>1. x = y /\ ~Beats(x, x) /\ ~(p > q) /\ q > p
      BY <2>5, <2>6, <2>7, <2>10
    <3>2. QED
      BY <2>8, <3>1 DEF ComesAfter
  <2>11. QED
    BY <2>4, <2>9, <2>10
<1> HIDE DEF top
<1>6. latest(top)
  BY <1>5
<1>7. ASSUME NEW e \in own, latest(e)
      PROVE  e = top
  <2>1. SUFFICES ASSUME e # top
                 PROVE  FALSE
    OBVIOUS
  <2>2. ComesAfter(e, top)
    BY <1>4, <1>7, <2>1
  <2>3. QED
    BY <1>5, <2>1, <2>2
<1> HIDE DEF latest
<1>8. (CHOOSE e \in own : latest(e)) = top
  BY <1>4, <1>6, <1>7
<1>9. QED
  BY <1>4, <1>8 DEF top, latest, LatestOf

LastWith(dlls, m) == SelectLastInSeq(dlls, LAMBDA d : Contains(d.modules, m))

(* The last load order that has a module, if any has.                      *)
LEMMA LastWithIs ==
  ASSUME NEW dlls \in Seq(DllItems), NEW m, NEW order, OrderIs(dlls, m, order)
  PROVE  /\ Drops(order) => LastWith(dlls, m) = 0
         /\ ~Drops(order) => LastWith(dlls, m) # 0 /\ dlls[LastWith(dlls, m)].order = order
<1> DEFINE I == {i \in 1 .. Len(dlls) : HasModule(dlls[i], m)}
<1>1. LastWith(dlls, m) = LastOf(I)
  BY DEF LastWith, SelectLastInSeq, LastOf, HasModule
<1>2. Len(dlls) \in Nat /\ I \subseteq 1 .. Len(dlls)
  OBVIOUS
<1>3. /\ I = {} => LastOf(I) = 0
      /\ I # {} => LastOf(I) \in I /\ LastOf(I) \in 1 .. Len(dlls)
      /\ \A j \in I : j <= LastOf(I)
  <2> HIDE DEF I
  <2>1. QED
    BY <1>2, LargestIn
<1>4. CASE Drops(order)
  <2>1. I = {}
    BY <1>4 DEF OrderIs
  <2>2. QED
    BY <1>1, <1>3, <1>4, <2>1
<1>5. CASE ~Drops(order)
  <2>1. PICK i \in 1 .. Len(dlls) :
          /\ HasModule(dlls[i], m) /\ dlls[i].order = order
          /\ \A j \in 1 .. Len(dlls) : HasModule(dlls[j], m) => j <= i
    BY <1>5 DEF OrderIs
  <2>2. i \in I /\ \A j \in I : j <= i
    BY <2>1
  <2>3. LastOf(I) \in I /\ LastOf(I) \in 1 .. Len(dlls) /\ i <= LastOf(I)
    BY <1>3, <2>2
  <2>4. LastOf(I) = i
    <3>1. LastOf(I) <= i
      BY <2>2, <2>3
    <3>2. LastOf(I) \in Int /\ i \in Int
      BY <1>2, <2>3
    <3> HIDE DEF I
    <3>3. QED
      BY <2>3, <3>1, <3>2
  <2>5. LastWith(dlls, m) = i /\ i # 0
    BY <1>1, <2>4
  <2>6. QED
    BY <1>5, <2>1, <2>5
<1>6. QED
  BY <1>4, <1>5

(* What the process has of a module that some entry names is what the last *)
(* of these says.                                                          *)
LEMMA OneDllSaid ==
  ASSUME CompatInv, Running, NEW m, NamedFor(m) # {}
  PROVE  LET last == LatestOf(NamedFor(m))
             i == LastWith(proc.res.dlls, m)
         IN IF Order(DllText(last)) = <<Default>> THEN i = 0
            ELSE i # 0 /\ proc.res.dlls[i].order = Order(DllText(last))
<1> DEFINE own == NamedFor(m)
           dlls == proc.res.dlls
<1>1. PICK c, at : Ranks(c, at) /\ proc.res = FoldDerivedEnv(Folded(c)) /\ Folded(c) \in Resolved
  BY RunningRanks
<1>2. dlls = Folded(c).dlls
  BY <1>1, DerivedIs
<1>3. dlls \in Seq(DllItems)
  BY <1>1, <1>2 DEF Resolved, Resolutions
<1>4. PICK order : OrderIs(dlls, m, order) /\ LastOfAll(c, m, Len(c), order)
  <2>1. c \in Seq(TableEntries)
    BY <1>1 DEF Ranks
  <2>2. PICK o : OrderIs(Folded(c).dlls, m, o) /\ LastOfAll(c, m, Len(c), o)
    BY <2>1, DllsAre
  <2>3. QED
    BY <1>2, <2>2
<1>5. NamedAre(c, at, m, own) /\ \A k \in 1 .. Len(c) : \A q : DllText(<<at[k], q>>) = c[k].rule.dlls[q]
  BY <1>1, NamedForAre DEF NamedAre
<1>6. \E j, q : IsLastName(c, m, j, q) /\ order = OrderAt(c[j], q)
  <2>1. PICK e : e \in own
    OBVIOUS
  <2>2. IsNamed(c, at, m, e)
    BY <1>5, <2>1 DEF NamedAre
  <2>3. ~ \A j \in 1 .. Len(c) : \A q \in 1 .. DllCount(c[j]) : ~NamesAt(c[j], q, m)
    BY <2>2 DEF IsNamed
  <2>4. QED
    BY <1>4, <2>3 DEF LastOfAll, IsLastName
<1>7. PICK j, q : IsLastName(c, m, j, q) /\ order = OrderAt(c[j], q)
  BY <1>6
<1> HIDE DEF own, dlls
<1>8. LatestOf(own) = <<at[j], q>>
  <2>1. IsTop(c, at, m, own, j, q)
    BY <1>1, <1>5, <1>7 DEF IsTop
  <2>2. QED
    BY ONLY <2>1, LatestNamed
<1>9. Order(DllText(LatestOf(own))) = order
  BY <1>5, <1>7, <1>8 DEF OrderAt, IsLastName
<1>10. /\ Drops(order) => LastWith(dlls, m) = 0
       /\ ~Drops(order) => LastWith(dlls, m) # 0 /\ dlls[LastWith(dlls, m)].order = order
  BY <1>3, <1>4, LastWithIs
<1>11. QED
  BY <1>9, <1>10 DEF own, dlls, Drops

(* The inductive invariant implies that load orders are as last said.      *)
LEMMA DllsLastSaid == CompatInv => DllsAsLastSaid
<1> SUFFICES ASSUME CompatInv, Running
             PROVE  \A m \in UNION {ToSet(Modules(DllText(e))) : e \in DllNames} :
                      LET last == LatestOf(NamedFor(m))
                          i == LastWith(proc.res.dlls, m)
                      IN IF Order(DllText(last)) = <<Default>> THEN i = 0
                         ELSE i # 0 /\ proc.res.dlls[i].order = Order(DllText(last))
  BY Zenon DEF DllsAsLastSaid, DllNames, DllText, NamedFor, LatestOf, ComesAfter, LastWith
<1>1. TAKE m \in UNION {ToSet(Modules(DllText(e))) : e \in DllNames}
<1>2. NamedFor(m) # {}
  <2>1. PICK e \in DllNames : m \in ToSet(Modules(DllText(e)))
    OBVIOUS
  <2>2. Contains(Modules(DllText(e)), m)
    <3>1. e[1] \in Hits /\ e[2] \in DOMAIN RuleAt(e[1]).dlls
      BY DEF DllNames
    <3>2. DllText(e) \in AnyText
      <4>1. PICK c, at : Ranks(c, at)
        BY RunningRanks
      <4>2. PICK k \in 1 .. Len(c) : at[k] = e[1]
        BY <3>1, <4>1 DEF Ranks
      <4>3. c[k] \in TableEntries /\ RuleAt(e[1]) = c[k].rule
        BY <4>1, <4>2 DEF Ranks, RuleAt
      <4>4. c[k].rule.dlls \in Seq(AnyText)
        BY <4>3, RuleType
      <4>5. QED
        BY <3>1, <4>3, <4>4 DEF DllText
    <3>3. Modules(DllText(e)) \in AnyText
      BY <3>2, ModulesType
    <3> DEFINE s == Modules(DllText(e))
    <3>4. DOMAIN s = 1 .. Len(s)
      BY <3>3 DEF AnyText
    <3> HIDE DEF s
    <3>5. m \in ToSet(s) => Contains(s, m)
      BY <3>4 DEF ToSet, Contains
    <3>6. QED
      BY <2>1, <3>5 DEF s
  <2>3. QED
    BY <2>2 DEF NamedFor
<1>3. QED
  BY <1>2, OneDllSaid

(* The load order of every module is what the last entry that names it     *)
(* says, and none after `default`, whatever other modules its entry had    *)
(* (resolve.rs, fold of DLL overrides).                                    *)
THEOREM DllsAreAsLastSaid == Spec => []DllsAsLastSaid
<1>1. QED
  BY DllsLastSaid, CompatInvariant, PTL

CountOf(words, t) == Cardinality({k \in DOMAIN words : words[k] = t})

(* How often a word is there, and how often with a word more.              *)
LEMMA CountOfMore ==
  ASSUME NEW S, NEW words \in Seq(S), NEW t
  PROVE  /\ CountOf(words, t) \in Nat
         /\ (\A k \in 1 .. Len(words) : words[k] # t) => CountOf(words, t) = 0
         /\ \A y \in S : CountOf(words \o <<y>>, t) =
              IF y = t THEN CountOf(words, t) + 1 ELSE CountOf(words, t)
<1> DEFINE I == {k \in DOMAIN words : words[k] = t}
           n == Len(words)
<1>1. n \in Nat /\ DOMAIN words = 1 .. n
  OBVIOUS
<1>2. IsFiniteSet(I)
  <2>1. IsFiniteSet(1 .. n)
    BY <1>1, FS_Interval
  <2>2. I \subseteq 1 .. n
    BY <1>1
  <2> HIDE DEF I, n
  <2>3. QED
    BY <2>1, <2>2, FS_Subset
<1>3. Cardinality(I) \in Nat /\ (I = {} => Cardinality(I) = 0)
  <2> HIDE DEF I
  <2>1. QED
    BY <1>2, FS_CardinalityType, FS_EmptySet
<1>4. (\A k \in 1 .. n : words[k] # t) => I = {}
  BY <1>1
<1>5. ASSUME NEW y \in S
      PROVE  CountOf(words \o <<y>>, t) = IF y = t THEN Cardinality(I) + 1 ELSE Cardinality(I)
  <2> DEFINE w == words \o <<y>>
             J == {k \in DOMAIN w : w[k] = t}
  <2>1. DOMAIN w = 1 .. n + 1 /\ w[n + 1] = y /\ \A k \in 1 .. n : w[k] = words[k]
    <3>1. w \in Seq(S) /\ Len(w) = n + 1
      OBVIOUS
    <3>2. w[n + 1] = y /\ \A k \in 1 .. n : w[k] = words[k]
      OBVIOUS
    <3> HIDE DEF w
    <3>3. QED
      BY <3>1, <3>2
  <2>2. n + 1 \notin I
    BY <1>1
  <2>3. \A k : k \in 1 .. n + 1 <=> k \in 1 .. n \/ k = n + 1
    BY <1>1
  <2> HIDE DEF w
  <2>4. J = IF y = t THEN I \cup {n + 1} ELSE I
    <3>1. \A k : k \in J <=> k \in I \/ (k = n + 1 /\ y = t)
      <4>1. \A k : k \in J <=> k \in 1 .. n + 1 /\ w[k] = t
        BY <2>1
      <4>2. \A k : k \in I <=> k \in 1 .. n /\ words[k] = t
        BY <1>1
      <4> HIDE DEF I, J
      <4>3. QED
        BY <2>1, <2>3, <4>1, <4>2
    <3> HIDE DEF I, J
    <3>2. QED
      BY <3>1
  <2>5. CountOf(w, t) = Cardinality(J)
    BY DEF CountOf
  <2>6. Cardinality(I \cup {n + 1}) = Cardinality(I) + 1
    <3> HIDE DEF I
    <3>1. QED
      BY <1>2, <2>2, FS_AddElement
  <2> HIDE DEF I, J
  <2>7. QED
    BY <2>4, <2>5, <2>6 DEF w
<1>6. CountOf(words, t) = Cardinality(I)
  BY DEF CountOf
<1> HIDE DEF I, n
<1>7. (\A k \in 1 .. n : words[k] # t) => CountOf(words, t) = 0
  BY <1>3, <1>4, <1>6
<1>8. QED
  BY <1>3, <1>5, <1>6, <1>7 DEF n

(* A text that is part of another is part of a longer one.                 *)
LEMMA ContainedInMore ==
  ASSUME NEW S, NEW c \in Seq(S), NEW x \in Seq(S), NEW t \in Seq(S), ContainsText(c, t)
  PROVE  ContainsText(c \o x, t)
<1> DEFINE d == c \o x
           n == Len(c)
           l == Len(t)
<1>1. n \in Nat /\ l \in Nat /\ d \in Seq(S) /\ Len(d) \in Nat /\ Len(d) >= n
      /\ \A i \in 1 .. n : d[i] = c[i]
  OBVIOUS
<1> HIDE DEF d
<1>2. PICK i \in 0 .. n - l : SubSeq(c, i + 1, i + l) = t
  BY DEF ContainsText
<1>3. i + 1 \in 1 .. n + 1 /\ i + l \in i .. n /\ i \in Nat
  BY <1>1, <1>2
<1>4. \A k \in 1 .. l : t[k] = c[i + k]
  <2>1. \A k \in 1 .. (i + l) - (i + 1) + 1 : SubSeq(c, i + 1, i + l)[k] = c[(i + 1) + k - 1]
    <3> DEFINE a == i + 1
               b == i + l
    <3>1. a \in 1 .. Len(c) + 1 /\ b \in a - 1 .. Len(c)
      BY <1>3
    <3> HIDE DEF a, b
    <3>2. \A k \in 1 .. b - a + 1 : SubSeq(c, a, b)[k] = c[a + k - 1]
      BY <3>1, PartIs
    <3>3. QED
      BY <3>2 DEF a, b
  <2>2. (i + l) - (i + 1) + 1 = l /\ \A k \in 1 .. l : (i + 1) + k - 1 = i + k
    BY <1>1, <1>3
  <2> HIDE DEF l
  <2>3. QED
    BY <1>2, <2>1, <2>2
<1>5. SubSeq(d, i + 1, i + l) = t
  <2> DEFINE a == i + 1
             b == i + l
             s == SubSeq(d, a, b)
  <2>1. a \in 1 .. Len(d) + 1 /\ b \in a - 1 .. Len(d) /\ b - a + 1 = l
        /\ \A k \in 1 .. l : a + k - 1 = i + k /\ i + k \in 1 .. n
    BY <1>1, <1>3
  <2> HIDE DEF a, b
  <2>2. s \in Seq(S) /\ Len(s) = b - a + 1 /\ \A k \in 1 .. b - a + 1 : s[k] = d[a + k - 1]
    BY <1>1, <2>1, PartIs
  <2>3. \A k \in 1 .. l : s[k] = t[k]
    BY <1>1, <1>4, <2>1, <2>2
  <2> HIDE DEF s
  <2>4. s = t
    BY <2>1, <2>2, <2>3, Joining!SameSeq
  <2>5. QED
    BY <2>4 DEF s, a, b
<1>6. i \in 0 .. Len(d) - l
  BY <1>1, <1>3
<1>7. QED
  BY <1>5, <1>6 DEF ContainsText, d

(* A text is part of one that ends with it.                                *)
LEMMA ContainedAtEnd ==
  ASSUME NEW S, NEW c \in Seq(S), NEW t \in Seq(S)
  PROVE  ContainsText(c \o t, t)
<1> DEFINE d == c \o t
           n == Len(c)
           l == Len(t)
<1>1. n \in Nat /\ l \in Nat /\ d \in Seq(S) /\ Len(d) = n + l
      /\ \A k \in 1 .. l : d[n + k] = t[k]
  OBVIOUS
<1> HIDE DEF d
<1> DEFINE a == n + 1
           b == n + l
           s == SubSeq(d, a, b)
<1>2. a \in 1 .. Len(d) + 1 /\ b \in a - 1 .. Len(d) /\ b - a + 1 = l
      /\ \A k \in 1 .. l : a + k - 1 = n + k
  BY <1>1
<1> HIDE DEF a, b
<1>3. s \in Seq(S) /\ Len(s) = b - a + 1 /\ \A k \in 1 .. b - a + 1 : s[k] = d[a + k - 1]
  BY <1>1, <1>2, PartIs
<1>4. s = t
  <2>1. \A k \in 1 .. l : s[k] = t[k]
    BY <1>1, <1>2, <1>3
  <2> HIDE DEF s
  <2>2. QED
    BY <1>2, <1>3, <2>1, Joining!SameSeq
<1>5. n \in 0 .. Len(d) - l
  BY <1>1
<1>6. QED
  BY <1>4, <1>5 DEF ContainsText, s, a, b, d

(* A piece of a text is part of it.                                        *)
LEMMA PieceContained ==
  ASSUME NEW S, NEW c \in Seq(S), NEW separator, NEW k \in 1 .. Len(Split(c, separator))
  PROVE  ContainsText(c, Split(c, separator)[k])
<1> DEFINE cuts == Cuts(c, separator)
           a == Begins(cuts, k)
           b == Ends(cuts, Len(c), k)
           s == Split(c, separator)
<1>1. s = [j \in 1 .. Len(cuts) + 1 |-> SubSeq(c, Begins(cuts, j), Ends(cuts, Len(c), j))]
  BY SplitIs
<1>2. k \in 1 .. Len(cuts) + 1
  BY SplitType
<1>3. a \in 1 .. Len(c) + 1 /\ b \in a - 1 .. Len(c)
  BY <1>2, PartsFit
<1>4. s[k] = SubSeq(c, a, b)
  BY <1>1, <1>2
<1> HIDE DEF cuts, a, b, s
<1>5. Len(SubSeq(c, a, b)) = b - a + 1
  BY <1>3, PartIs
<1> DEFINE i == a - 1
           l == b - a + 1
<1>6. i \in 0 .. Len(c) - l /\ i + 1 = a /\ i + l = b
  BY <1>3
<1>7. QED
  BY <1>4, <1>5, <1>6 DEF ContainsText, s

(* The words of a command line.                                            *)
CmdWords == Word \cup {" ", "--type="}

CountIn(cmd, t) == CountOf(Split(cmd, " "), t)

(* What an argument more makes of a command line.                          *)
Adds(c, d, text) ==
  /\ d \in Seq(CmdWords)
  /\ ContainsText(d, text)
  /\ \A t \in Seq(CmdWords) : ContainsText(c, t) => ContainsText(d, t)
  /\ Lacks(text, " ") =>
       \A t : CountIn(d, t) = CountIn(c, t) \/ (CountIn(c, t) = 0 /\ CountIn(d, t) = 1)

(* What append_cmdline_each makes of the line with one argument: it is     *)
(* there, so is what was there, and an argument of one word is on its own  *)
(* at most once more, and only if it was not.                              *)
LEMMA ArgumentAdds ==
  ASSUME NEW c \in Seq(CmdWords), NEW text \in Seq(CmdWords)
  PROVE  Adds(c, AppendArgument(c, text), text)
<1> DEFINE d == AppendArgument(c, text)
           blank == <<" ">>
<1>1. CASE ContainsText(c, text)
  <2>1. d = c
    BY <1>1 DEF AppendArgument
  <2>2. QED
    BY <1>1, <2>1 DEF Adds
<1>2. CASE ~ContainsText(c, text)
  <2>1. " " \in CmdWords /\ blank \in Seq(CmdWords)
    <3>1. " " \in CmdWords
      BY DEF CmdWords
    <3>2. \A x \in CmdWords : <<x>> \in Seq(CmdWords)
      OBVIOUS
    <3>3. QED
      BY <3>1, <3>2
  <2> DEFINE e == c \o blank
  <2>2. d = e \o text
    BY <1>2 DEF AppendArgument
  <2> HIDE DEF d
  <2> HIDE DEF blank
  <2>3. e \in Seq(CmdWords)
    <3>1. \A r, x \in Seq(CmdWords) : r \o x \in Seq(CmdWords)
      OBVIOUS
    <3>2. QED
      BY <2>1, <3>1
  <2>4. \A t \in Seq(CmdWords) : ContainsText(c, t) => ContainsText(e, t)
    <3>1. ASSUME NEW t \in Seq(CmdWords), ContainsText(c, t)
          PROVE  ContainsText(e, t)
      BY <2>1, <3>1, ContainedInMore
    <3>2. QED
      BY <3>1
  <2> HIDE DEF e
  <2>5. d \in Seq(CmdWords)
    BY <2>2, <2>3
  <2>6. ContainsText(d, text)
    BY <2>2, <2>3, ContainedAtEnd
  <2>7. \A t \in Seq(CmdWords) : ContainsText(c, t) => ContainsText(d, t)
    <3>1. ASSUME NEW t \in Seq(CmdWords), ContainsText(e, t)
          PROVE  ContainsText(e \o text, t)
      BY <2>3, <3>1, ContainedInMore
    <3>2. QED
      BY <2>2, <2>4, <3>1
  <2>8. ASSUME Lacks(text, " "), NEW t
        PROVE  CountIn(d, t) = CountIn(c, t) \/ (CountIn(c, t) = 0 /\ CountIn(d, t) = 1)
    <3> DEFINE words == Split(c, " ")
               R == Seq(CmdWords)
    <3>1. words \in Seq(R)
      BY SplitType
    <3>2. Split(d, " ") = words \o <<text>>
      <4> DEFINE sep == " "
      <4>1. sep \in CmdWords /\ Lacks(text, sep)
        BY <2>1, <2>8
      <4>2. blank = <<sep>>
        BY DEF blank
      <4> HIDE DEF sep
      <4>3. Split((c \o <<sep>>) \o text, sep) = Split(c, sep) \o <<text>>
        BY <4>1, SplitOfOneMore
      <4>4. d = (c \o <<sep>>) \o text
        BY <2>2, <4>2 DEF e
      <4>5. Split(d, sep) = Split(c, sep) \o <<text>>
        BY <4>3, <4>4
      <4>6. QED
        BY <4>5 DEF sep
    <3>3. ASSUME NEW k \in 1 .. Len(words)
          PROVE  words[k] # text
      <4>1. ContainsText(c, words[k])
        BY PieceContained
      <4>2. QED
        BY <1>2, <4>1
    <3>4. text \in R
      OBVIOUS
    <3> HIDE DEF words, R
    <3>5. /\ CountOf(words, t) \in Nat
          /\ (\A k \in 1 .. Len(words) : words[k] # t) => CountOf(words, t) = 0
          /\ \A y \in R : CountOf(words \o <<y>>, t) =
               IF y = t THEN CountOf(words, t) + 1 ELSE CountOf(words, t)
      BY <3>1, CountOfMore
    <3>6. CountIn(c, t) = CountOf(words, t) /\ CountIn(d, t) = CountOf(words \o <<text>>, t)
      BY <3>2 DEF CountIn, words
    <3>7. CASE text = t
      <4>1. CountOf(words, t) = 0
        BY <3>3, <3>5, <3>7
      <4>2. QED
        BY <3>4, <3>5, <3>6, <3>7, <4>1
    <3>8. CASE text # t
      BY <3>4, <3>5, <3>6, <3>8
    <3>9. QED
      BY <3>7, <3>8
  <2>9. Adds(c, d, text)
    <3>1. Lacks(text, " ") =>
       \A t : CountIn(d, t) = CountIn(c, t) \/ (CountIn(c, t) = 0 /\ CountIn(d, t) = 1)
      BY <2>8
    <3>2. QED
      BY <2>5, <2>6, <2>7, <3>1 DEF Adds
  <2>10. QED
    BY <2>9 DEF d
<1>3. QED
  BY <1>1, <1>2

(* What the first k arguments make of a command line.                      *)
AddsAll(c, d, texts, k) ==
  /\ d \in Seq(CmdWords)
  /\ \A i \in 1 .. k : ContainsText(d, texts[i])
  /\ (\A i \in 1 .. k : Lacks(texts[i], " ")) =>
       \A t : CountIn(d, t) = CountIn(c, t) \/ (CountIn(c, t) = 0 /\ CountIn(d, t) = 1)

(* What several arguments make of a line, with one more.                   *)
LEMMA AddsAllMore ==
  ASSUME NEW c, NEW d, NEW e, NEW texts \in Seq(Seq(CmdWords)), NEW k \in Nat,
         k + 1 \in 1 .. Len(texts), AddsAll(c, d, texts, k), Adds(d, e, texts[k + 1])
  PROVE  AddsAll(c, e, texts, k + 1)
<1>1. e \in Seq(CmdWords)
  BY DEF Adds
<1>2. ASSUME NEW i \in 1 .. k + 1
      PROVE  ContainsText(e, texts[i])
  <2>1. CASE i \in 1 .. k
    <3>1. ContainsText(d, texts[i])
      BY <2>1 DEF AddsAll
    <3>2. texts[i] \in Seq(CmdWords)
      BY <2>1
    <3>3. QED
      BY <3>1, <3>2 DEF Adds
  <2>2. CASE i = k + 1
    BY <2>2 DEF Adds
  <2>3. QED
    BY <2>1, <2>2
<1>3. ASSUME \A i \in 1 .. k + 1 : Lacks(texts[i], " "), NEW t
      PROVE  CountIn(e, t) = CountIn(c, t) \/ (CountIn(c, t) = 0 /\ CountIn(e, t) = 1)
  <2>1. (\A i \in 1 .. k : Lacks(texts[i], " ")) /\ Lacks(texts[k + 1], " ")
    <3>1. k + 1 \in 1 .. k + 1 /\ \A i \in 1 .. k : i \in 1 .. k + 1
      OBVIOUS
    <3>2. QED
      BY <1>3, <3>1
  <2>2. CountIn(d, t) = CountIn(c, t) \/ (CountIn(c, t) = 0 /\ CountIn(d, t) = 1)
    BY <2>1 DEF AddsAll
  <2>3. CountIn(e, t) = CountIn(d, t) \/ (CountIn(d, t) = 0 /\ CountIn(e, t) = 1)
    BY <2>1 DEF Adds
  <2>4. QED
    BY <2>2, <2>3
<1>4. QED
  BY <1>1, <1>2, <1>3 DEF AddsAll

(* What append_cmdline_each makes of the line with all arguments.          *)
LEMMA ArgumentsAdd ==
  ASSUME NEW c \in Seq(CmdWords), NEW texts \in Seq(Seq(CmdWords))
  PROVE  AddsAll(c, AppendArguments(c, texts), texts, Len(texts))
<1> DEFINE n == Len(texts)
           st == Arguments!States(c, texts)
           T == {k \in Nat : k <= n => AddsAll(c, st[k], texts, k)}
<1>1. AppendArguments(c, texts) = st[n]
  <2>1. AppendArguments(c, texts) = Arguments!Fold(c, texts)
    BY DEF AppendArguments
  <2>2. Arguments!Fold(c, texts) = st[n]
    BY DEF Arguments!Fold
  <2>3. QED
    BY <2>1, <2>2
<1>2. st[0] = c /\ \A k \in 1 .. n : st[k] = AppendArgument(st[k - 1], texts[k])
  <2>1. Len(texts) \in Nat
    OBVIOUS
  <2>2. /\ st[0] = c
        /\ \A k \in 1 .. Len(texts) : st[k] = AppendArgument(st[k - 1], texts[k])
    BY <2>1, Arguments!StatesStep
  <2>3. QED
    BY <2>2
<1>3. n \in Nat
  OBVIOUS
<1> HIDE DEF st, n
<1>4. 0 \in T
  <2>1. \A i \in 1 .. 0 : FALSE
    OBVIOUS
  <2>2. AddsAll(c, c, texts, 0)
    BY <2>1 DEF AddsAll
  <2>3. QED
    BY <1>2, <2>2
<1>5. ASSUME NEW k \in Nat, k \in T
      PROVE  k + 1 \in T
  <2> SUFFICES ASSUME k + 1 <= n
               PROVE  AddsAll(c, st[k + 1], texts, k + 1)
    OBVIOUS
  <2>1. k + 1 \in 1 .. n /\ (k + 1) - 1 = k /\ k <= n
    BY <1>3
  <2>2. AddsAll(c, st[k], texts, k)
    BY <1>5, <2>1
  <2>3. st[k + 1] = AppendArgument(st[k], texts[k + 1])
    BY <1>2, <2>1
  <2> DEFINE d == st[k]
             text == texts[k + 1]
  <2>4. d \in Seq(CmdWords) /\ text \in Seq(CmdWords)
    <3>1. k + 1 \in 1 .. Len(texts)
      BY <2>1 DEF n
    <3>2. text \in Seq(CmdWords)
      BY <3>1
    <3>3. QED
      BY <2>2, <3>2 DEF AddsAll
  <2> HIDE DEF d
  <2>5. Adds(d, AppendArgument(d, text), text)
    <3> HIDE DEF text
    <3>1. QED
      BY <2>4, ArgumentAdds
  <2>6. k + 1 \in 1 .. Len(texts)
    BY <2>1 DEF n
  <2>7. Adds(d, st[k + 1], texts[k + 1])
    BY <2>3, <2>5 DEF d
  <2>8. AddsAll(c, d, texts, k)
    BY <2>2 DEF d
  <2>9. QED
    BY <2>6, <2>7, <2>8, AddsAllMore
<1>6. \A k \in Nat : k \in T
  <2> HIDE DEF T
  <2>1. QED
    BY <1>4, <1>5, Joining!Induction
<1>7. QED
  BY <1>1, <1>3, <1>6 DEF n

(* A command line is a text, and so is the one a process was given.        *)
CmdInv == proc.cmd \in Seq(CmdWords) /\ (Running => Given.cmd \in Seq(CmdWords))

(* Every text is a command line.                                           *)
LEMMA TextIsLine == AnyText \subseteq Seq(CmdWords)
<1> SUFFICES ASSUME NEW t \in AnyText
             PROVE  t \in Seq(CmdWords)
  OBVIOUS
<1>1. Word \subseteq CmdWords /\ t \in Seq(Word)
  BY DEF CmdWords, AnyText
<1>2. QED
  BY <1>1, SeqSub

(* The texts of the arguments are texts.                                   *)
LEMMA ArgumentTexts ==
  ASSUME NEW arguments \in Seq(Sayings)
  PROVE  /\ Texts1(arguments) \in Seq(Seq(CmdWords))
         /\ Len(Texts1(arguments)) = Len(arguments)
         /\ \A i \in 1 .. Len(arguments) : Texts1(arguments)[i] = arguments[i].text
<1> DEFINE n == Len(arguments)
           texts == Texts1(arguments)
<1>1. n \in Nat /\ texts = [i \in 1 .. n |-> arguments[i].text]
  BY DEF Texts1
<1>2. ASSUME NEW i \in 1 .. n
      PROVE  arguments[i].text \in Seq(CmdWords)
  <2>1. arguments[i] \in Sayings
    OBVIOUS
  <2>2. arguments[i].text \in AnyText
    BY <2>1 DEF Sayings
  <2>3. QED
    BY <2>2, TextIsLine
<1> HIDE DEF n, texts
<1>3. texts \in Seq(Seq(CmdWords)) /\ Len(texts) = n
  BY <1>1, <1>2
<1>4. QED
  BY <1>1, <1>3 DEF n, texts

(* The command line of a process that runs.                                *)
RunCmd ==
  Running =>
    /\ proc.res.arguments \in Seq(Sayings)
    /\ proc.cmd = IF "cmd" \in proc.refused THEN Given.cmd
                  ELSE AppendArguments(Given.cmd, Texts1(proc.res.arguments))

(* The command line of a process that runs is the one it was given with    *)
(* the resolution's arguments, unless its rewrite was refused.             *)
LEMMA RunningCmd == CompatInv => RunCmd
<1> SUFFICES ASSUME CompatInv, Running
             PROVE  RunCmd
  BY DEF RunCmd
<1>1. Applied(proc) /\ proc.rules \in Seq(TableEntries)
  BY RunningIs
<1>2. /\ proc.res = FoldDerivedEnv(Resolve(BuiltInTable \o proc.rules,
                                           Image(proc.image, proc.given[1].block)))
      /\ proc.cmd = IF "cmd" \in proc.refused THEN proc.given[1].cmd
                    ELSE AppendArguments(proc.given[1].cmd, Texts1(proc.res.arguments))
  BY <1>1 DEF Applied
<1> DEFINE r == Resolve(BuiltInTable \o proc.rules, Image(proc.image, proc.given[1].block))
<1>3. r \in Resolved
  BY <1>1, DerivedResolution
<1> HIDE DEF r
<1>4. FoldDerivedEnv(r).arguments = r.arguments
  BY <1>3, DerivedIs
<1>5. proc.res.arguments = r.arguments
  BY <1>2, <1>4 DEF r
<1>6. r.arguments \in Seq(Sayings)
  BY <1>3 DEF Resolved, Resolutions
<1>7. QED
  BY <1>2, <1>5, <1>6 DEF Given, RunCmd

(* CmdInv holds where there is no process yet.                             *)
LEMMA InitCmdInv == Init => CmdInv
<1> SUFFICES ASSUME Init
             PROVE  CmdInv
  OBVIOUS
<1> DEFINE none == <<>>
<1>1. NoProcess.cmd = none /\ NoProcess.phase = "none"
  BY DEF NoProcess
<1>2. none \in Seq(CmdWords)
  BY Joining!EmptyInSeq
<1>3. proc = NoProcess
  BY Zenon DEF Init
<1> HIDE DEF none
<1>4. QED
  BY <1>1, <1>2, <1>3 DEF CmdInv, Running

(* The launcher becoming Wine establishes CmdInv: the line is the          *)
(* program's name.                                                         *)
LEMMA StartWineCmd ==
  ASSUME NEW image \in Images, NEW export, StartWine(image, export)
  PROVE  CmdInv'
<1>1. proc' = Started(image, Display(table), image.exe, export.unix, export.block)
  BY DEF StartWine, NoProcess, Started
<1>2. proc'.cmd = image.exe /\ proc'.phase = "started"
  BY <1>1 DEF Started
<1>3. image.exe \in Seq(CmdWords)
  BY ImagesAssumption, TextIsLine
<1>4. QED
  BY <1>2, <1>3 DEF CmdInv, Running

(* Starting another process establishes CmdInv: its line is its program's  *)
(* name or its parent's line with a switch.                                *)
LEMMA StartChildCmd ==
  ASSUME CmdInv, NEW image \in Images, NEW app, StartChild(image, app)
  PROVE  CmdInv'
<1> DEFINE switch == <<" ", "--type=">>
           cmd == IF image = proc.image THEN proc.cmd \o switch ELSE image.exe
           block == [proc.block EXCEPT !["SteamAppId"] = app]
<1>1. proc' = Started(image, proc.inline, cmd, proc.unix, block)
  BY DEF StartChild, NoProcess, Started
<1>2. switch \in Seq(CmdWords)
  <2>1. " " \in CmdWords /\ "--type=" \in CmdWords
    BY DEF CmdWords
  <2>2. \A x, y \in CmdWords : <<x, y>> \in Seq(CmdWords)
    OBVIOUS
  <2>3. QED
    BY <2>1, <2>2
<1> HIDE DEF switch
<1>3. \A r, x \in Seq(CmdWords) : r \o x \in Seq(CmdWords)
  OBVIOUS
<1>4. image.exe \in Seq(CmdWords)
  BY ImagesAssumption, TextIsLine
<1>5. proc.cmd \o switch \in Seq(CmdWords)
  BY <1>2, <1>3 DEF CmdInv
<1>6. cmd \in Seq(CmdWords)
  BY <1>4, <1>5
<1> HIDE DEF cmd, block
<1>7. proc'.cmd = cmd /\ proc'.phase = "started"
  BY <1>1 DEF Started
<1>8. QED
  BY <1>6, <1>7 DEF CmdInv, Running

(* Reading the file leaves the command line alone.                         *)
LEMMA SamePhaseCmd ==
  ASSUME CmdInv, ProcInv, NEW phase \in {"checked", "gathered"}, NEW text,
         proc' = WithText(proc, phase, text)
  PROVE  CmdInv'
<1> DEFINE p == [phase |-> phase, image |-> proc.image, inline |-> proc.inline, text |-> text,
                 cmd |-> proc.cmd, unix |-> proc.unix, block |-> proc.block,
                 given |-> proc.given, rules |-> proc.rules, res |-> proc.res,
                 steps |-> proc.steps, refused |-> proc.refused]
<1>1. proc' = p
  BY DEF ProcInv, IsProcess, WithText
<1>2. proc'.cmd = proc.cmd /\ proc'.phase = phase
  BY <1>1
<1>3. QED
  BY <1>2 DEF CmdInv, Running

(* run keeps the command line one.                                         *)
LEMMA ApplyCmd ==
  ASSUME CmdInv, CompatInv, RunCmd', Apply
  PROVE  CmdInv'
<1>1. PICK rules, res, cmd, steps, entries, block, refused :
        proc' = Rewritten(rules, res, cmd, steps, entries, block, refused)
  BY ZenonT(60) DEF Apply
<1> DEFINE given == [cmd |-> proc.cmd, unix |-> proc.unix, block |-> proc.block]
           newcmd == IF "cmd" \in refused THEN proc.cmd ELSE cmd
           newblock == IF "block" \in refused THEN proc.block ELSE block
           newunix == UnixEnv(proc.unix, entries)
           p == [phase |-> "running", image |-> proc.image, inline |-> proc.inline,
                 text |-> proc.text, cmd |-> newcmd, unix |-> newunix,
                 block |-> newblock, given |-> <<given>>, rules |-> rules, res |-> res,
                 steps |-> steps, refused |-> refused]
<1>2. IsProcess(proc)
  BY DEF CompatInv, ProcInv
<1>3. proc' = p
  BY <1>1, <1>2 DEF IsProcess, Rewritten
<1>4. given.cmd = proc.cmd /\ <<given>>[1] = given
  OBVIOUS
<1> HIDE DEF given, newcmd, newblock, newunix
<1>5. proc'.given = <<given>> /\ proc'.phase = "running"
  BY <1>3
<1> HIDE DEF p
<1>6. Running' /\ Given'.cmd = proc.cmd
  BY <1>4, <1>5 DEF Running, Given
<1>7. Given'.cmd \in Seq(CmdWords)
  BY <1>6 DEF CmdInv
<1>8. /\ proc'.res.arguments \in Seq(Sayings)
      /\ proc'.cmd = IF "cmd" \in proc'.refused THEN Given'.cmd
                     ELSE AppendArguments(Given'.cmd, Texts1(proc'.res.arguments))
  BY <1>6 DEF RunCmd
<1> DEFINE a == proc'.res.arguments
           c == Given'.cmd
           texts == Texts1(a)
<1>9. c \in Seq(CmdWords) /\ a \in Seq(Sayings)
  BY <1>7, <1>8
<1>10. texts \in Seq(Seq(CmdWords))
  <2> HIDE DEF a
  <2>1. QED
    BY <1>9, ArgumentTexts
<1>11. proc'.cmd = IF "cmd" \in proc'.refused THEN c ELSE AppendArguments(c, texts)
  BY <1>8
<1> HIDE DEF a, c, texts
<1>12. AppendArguments(c, texts) \in Seq(CmdWords)
  BY <1>9, <1>10, ArgumentsAdd DEF AddsAll
<1>13. QED
  BY <1>7, <1>9, <1>11, <1>12 DEF CmdInv

(* Every step keeps CmdInv.                                                *)
LEMMA NextCmdInv == CmdInv /\ CompatInv /\ RunCmd' /\ [Next]_vars => CmdInv'
<1> SUFFICES ASSUME CmdInv, CompatInv, RunCmd', [Next]_vars
             PROVE  CmdInv'
  OBVIOUS
<1>0. ProcInv
  BY DEF CompatInv
<1>1. ASSUME NEW image \in Images, NEW export \in Exports, StartWine(image, export)
      PROVE  CmdInv'
  BY <1>1, StartWineCmd
<1>2. ASSUME NEW image \in Images, NEW app, StartChild(image, app)
      PROVE  CmdInv'
  BY <1>2, StartChildCmd
<1>3. CASE CheckFile
  <2>1. PICK phase \in {"checked", "gathered"} : proc' = [proc EXCEPT !.phase = phase]
    BY <1>3 DEF CheckFile
  <2>2. proc' = WithText(proc, phase, proc.text)
    BY <1>0, <2>1 DEF ProcInv, IsProcess, WithText
  <2>3. QED
    BY <1>0, <2>2, SamePhaseCmd
<1>4. CASE ReadFile
  <2>1. PICK text : proc' = WithText(proc, "gathered", text)
    BY <1>4 DEF ReadFile, WithText
  <2>2. QED
    BY <1>0, <2>1, SamePhaseCmd
<1>5. CASE Apply
  BY <1>5, ApplyCmd
<1>6. CASE UNCHANGED proc
  BY <1>6 DEF CmdInv, Running, Given
<1>7. QED
  BY <1>1, <1>2, <1>3, <1>4, <1>5, <1>6 DEF Next, vars, Push, FileChanges

(* The invariants imply that arguments are there once.                     *)
LEMMA OnceIs == CompatInv /\ CmdInv => ArgumentsOnce
<1> SUFFICES ASSUME CompatInv, CmdInv, Running, "cmd" \notin proc.refused
             PROVE  ArgumentsOnce
  BY DEF ArgumentsOnce
<1> DEFINE a == proc.res.arguments
           c == Given.cmd
           d == proc.cmd
           texts == Texts1(a)
<1>1. a \in Seq(Sayings) /\ c \in Seq(CmdWords) /\ d = AppendArguments(c, texts)
  BY RunningCmd DEF CmdInv, RunCmd
<1>2. /\ texts \in Seq(Seq(CmdWords)) /\ Len(texts) = Len(a)
      /\ \A i \in 1 .. Len(a) : texts[i] = a[i].text
  <2>1. a \in Seq(Sayings)
    BY <1>1
  <2> HIDE DEF a
  <2>2. QED
    BY <2>1, ArgumentTexts
<1>3. DOMAIN a = 1 .. Len(a) /\ Len(a) \in Nat /\ \A i \in 1 .. Len(a) : a[i].text \in AnyText
  <2>1. a \in Seq(Sayings)
    BY <1>1
  <2> HIDE DEF a
  <2>2. ASSUME NEW i \in 1 .. Len(a)
        PROVE  a[i].text \in AnyText
    <3>1. a[i] \in Sayings
      BY <2>1
    <3>2. QED
      BY <3>1 DEF Sayings
  <2>3. QED
    BY <2>1, <2>2
<1> HIDE DEF a, c, texts
<1>4. AddsAll(c, d, texts, Len(a))
  <2> HIDE DEF d
  <2>1. AddsAll(c, AppendArguments(c, texts), texts, Len(texts))
    BY <1>1, <1>2, ArgumentsAdd
  <2>2. QED
    BY <1>1, <1>2, <2>1
<1>5. ASSUME NEW i \in 1 .. Len(a)
      PROVE  ContainsText(d, a[i].text)
  BY <1>2, <1>4 DEF AddsAll
<1>6. ASSUME \A i \in DOMAIN a : ~Contains(a[i].text, " "), NEW t
      PROVE  CountIn(d, t) <= (IF CountIn(c, t) = 0 THEN 1 ELSE CountIn(c, t))
  <2>1. ASSUME NEW i \in 1 .. Len(a)
        PROVE  Lacks(texts[i], " ")
    <3>1. ~Contains(a[i].text, " ") /\ a[i].text \in Seq(Word) /\ texts[i] = a[i].text
      BY <1>2, <1>3, <1>6 DEF AnyText
    <3> DEFINE x == a[i].text
    <3>2. x \in Seq(Word) /\ ~Contains(x, " ")
      BY <3>1
    <3> HIDE DEF x
    <3>3. Lacks(x, " ")
      BY <3>2 DEF Lacks, Contains, ToSet
    <3>4. QED
      BY <3>1, <3>3 DEF x
  <2>2. CountIn(d, t) = CountIn(c, t) \/ (CountIn(c, t) = 0 /\ CountIn(d, t) = 1)
    BY <1>4, <2>1 DEF AddsAll
  <2>3. CountIn(c, t) \in Nat
    <3> DEFINE words == Split(c, " ")
    <3>1. words \in Seq(Seq(CmdWords))
      BY <1>1, SplitType
    <3> HIDE DEF words
    <3>2. CountOf(words, t) \in Nat
      BY <3>1, CountOfMore
    <3>3. QED
      BY <3>2 DEF CountIn, words
  <2>4. QED
    BY <2>2, <2>3
<1>7. ASSUME NEW i \in DOMAIN a
      PROVE  /\ ContainsText(d, a[i].text)
             /\ (\A j \in DOMAIN a : ~Contains(a[j].text, " ")) =>
                  CountIn(d, a[i].text)
                    <= (IF CountIn(c, a[i].text) = 0 THEN 1 ELSE CountIn(c, a[i].text))
  BY <1>3, <1>5, <1>6
<1>8. QED
  BY <1>7, Zenon DEF ArgumentsOnce, CountIn, CountOf, a, c

(* Every argument of the resolution is on the command line, and, when each *)
(* is one word, none is on its own there more often than on the line the   *)
(* process was given, or once: handing a line on to a child does not       *)
(* repeat them (lib.rs, append_cmdline_each).                              *)
THEOREM ArgumentsAreThereOnce == Spec => []ArgumentsOnce
<1>1. Spec => []CmdInv
  <2>1. Spec => []CompatInv
    BY CompatInvariant
  <2>2. QED
    BY <2>1, InitCmdInv, NextCmdInv, RunningCmd, PTL DEF Spec
<1>2. QED
  BY <1>1, OnceIs, CompatInvariant, PTL

============================================================================
