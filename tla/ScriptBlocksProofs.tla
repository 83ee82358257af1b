------------------------- MODULE ScriptBlocksProofs -------------------------
(***************************************************************************)
(* Theorems about the journey of a list of scripts, for lists and files of *)
(* any length.  They need induction over lines and over blocks.  The       *)
(* induction principle is stated with a set of numbers in place of a       *)
(* predicate, and follows from the well-foundedness of strict inclusion of *)
(* finite sets.                                                            *)
(***************************************************************************)
EXTENDS ScriptBlocks, FiniteSetTheorems, TLAPS

----------------------------------------------------------------------------
\* Induction.

\* A set of naturals that holds 0 and with every number the next is Nat.
LEMMA Induction ==
  ASSUME NEW S \in SUBSET Nat, 0 \in S, \A n \in S : n + 1 \in S
  PROVE  S = Nat
<1>. SUFFICES ASSUME NEW m \in Nat, m \notin S PROVE FALSE
  OBVIOUS
<1> DEFINE T == {1 .. k : k \in (0 .. m) \ S}
           R == StrictSubsetOrdering(1 .. m)
           F == FiniteSubsetsOf(1 .. m)
<1>1. \A k \in 0 .. m : 1 .. k \in F
  <2>1. \A k \in 0 .. m : IsFiniteSet(1 .. k)
    BY FS_Interval
  <2>. QED  BY <2>1 DEF FiniteSubsetsOf
<1>2. T \subseteq F /\ T # {}
  <2>1. m \in (0 .. m) \ S
    OBVIOUS
  <2>. QED  BY <1>1, <2>1
<1>3. IsWellFoundedOn(R, F)
  BY FS_StrictSubsetOrderingWellFounded
<1>4. PICK x \in T : \A y \in T : <<y, x>> \notin R
  <2>. HIDE DEF T, R, F
  <2>. QED  BY <1>2, <1>3, WFMin
<1>5. PICK k \in (0 .. m) \ S : x = 1 .. k
  OBVIOUS
<1>6. k - 1 \in (0 .. m) \ S
  BY <1>5
<1>7. 1 .. (k - 1) \in T
  BY <1>6
<1>8. <<1 .. (k - 1), 1 .. k>> \in R
  <2>1. 1 .. (k - 1) \subseteq 1 .. k /\ 1 .. k \subseteq 1 .. m
    BY <1>5, <1>6
  <2>2. k \in 1 .. k /\ k \notin 1 .. (k - 1)
    BY <1>5, <1>6
  <2>. QED  BY <2>1, <2>2 DEF StrictSubsetOrdering
<1>. QED
  BY <1>4, <1>5, <1>7, <1>8

\* The same up to a bound.
LEMMA InductionUpTo ==
  ASSUME NEW n \in Nat, NEW S, 0 \in S, \A k \in 0 .. (n - 1) : k \in S => k + 1 \in S
  PROVE  \A k \in 0 .. n : k \in S
<1> DEFINE T == {k \in Nat : k <= n => k \in S}
<1>1. 0 \in T /\ \A k \in T : k + 1 \in T
  OBVIOUS
<1>2. T \in SUBSET Nat
  OBVIOUS
<1>3. T = Nat
  <2>. HIDE DEF T
  <2>. QED  BY <1>1, <1>2, Induction
<1>. QED
  BY <1>3

----------------------------------------------------------------------------
\* ParseScripts, line by line.

\* The parser before the first line.
Start == [open |-> FALSE, cur |-> Script(<<>>, <<>>, <<>>), scripts |-> <<>>]

\* What FoldLeft computes on the first k lines, as a function of the set of
\* lines still to be folded.
Unfolds(g, lines, k) ==
  g = [s \in SUBSET (1 .. k) |->
         IF s = {} THEN Start ELSE ParseLine(g[s \ {Max(s)}], lines[Max(s)])]

\* The last line of a set that ends with line k.
LEMMA MaxIsLast ==
  ASSUME NEW k \in Nat \ {0}, NEW s \in SUBSET (1 .. k), k \in s
  PROVE  Max(s) = k
<1>1. \A y \in s : k >= y
  OBVIOUS
<1>2. \A x \in s : (\A y \in s : x >= y) => x = k
  OBVIOUS
<1>. QED
  BY <1>1, <1>2 DEF Max

\* The recursion is well defined.
LEMMA UnfoldsExists ==
  ASSUME NEW lines, NEW n \in Nat
  PROVE  \E g : Unfolds(g, lines, n)
<1> DEFINE S == {k \in Nat : \E g : Unfolds(g, lines, k)}
<1>1. 0 \in S
  <2> DEFINE g == [s \in SUBSET (1 .. 0) |-> Start]
  <2>1. \A s \in SUBSET (1 .. 0) : s = {}
    OBVIOUS
  <2>2. Unfolds(g, lines, 0)
    BY <2>1 DEF Unfolds
  <2>. QED  BY <2>2
<1>2. ASSUME NEW k \in S
      PROVE  k + 1 \in S
  <2>1. PICK g : Unfolds(g, lines, k)
    OBVIOUS
  <2> DEFINE h == [s \in SUBSET (1 .. (k + 1)) |->
                     IF k + 1 \in s THEN ParseLine(g[s \ {k + 1}], lines[k + 1]) ELSE g[s]]
  <2>2. ASSUME NEW s \in SUBSET (1 .. (k + 1))
        PROVE  h[s] = IF s = {} THEN Start ELSE ParseLine(h[s \ {Max(s)}], lines[Max(s)])
    <3>1. CASE k + 1 \in s
      <4>1. Max(s) = k + 1
        BY <3>1, MaxIsLast
      <4>2. s \ {k + 1} \in SUBSET (1 .. (k + 1)) /\ k + 1 \notin s \ {k + 1}
        OBVIOUS
      <4>3. h[s \ {k + 1}] = g[s \ {k + 1}]
        BY <4>2
      <4>4. h[s] = ParseLine(g[s \ {k + 1}], lines[k + 1])
        BY <3>1
      <4>. HIDE DEF h
      <4>. QED  BY <3>1, <4>1, <4>3, <4>4
    <3>2. CASE k + 1 \notin s
      <4>1. s \in SUBSET (1 .. k) /\ s \ {Max(s)} \in SUBSET (1 .. (k + 1))
        <5>1. \A x \in 1 .. (k + 1) : x # k + 1 => x \in 1 .. k
          OBVIOUS
        <5>. QED  BY <3>2, <5>1
      <4>2. h[s] = g[s] /\ h[s \ {Max(s)}] = g[s \ {Max(s)}]
        BY <3>2, <4>1
      <4>3. g[s] = IF s = {} THEN Start ELSE ParseLine(g[s \ {Max(s)}], lines[Max(s)])
        BY <2>1, <4>1 DEF Unfolds
      <4>. QED  BY <4>2, <4>3
    <3>. QED  BY <3>1, <3>2
  <2>3. Unfolds(h, lines, k + 1)
    <3>1. h = [s \in SUBSET (1 .. (k + 1)) |-> h[s]]
      OBVIOUS
    <3>. HIDE DEF h
    <3>. QED  BY <2>2, <3>1 DEF Unfolds
  <2>. QED  BY <2>3
<1>3. S = Nat
  <2>. HIDE DEF S
  <2>1. S \in SUBSET Nat
    BY DEF S
  <2>. QED  BY <1>1, <1>2, <2>1, Induction
<1>. QED
  BY <1>3

\* A run of the parser over lines: its state after each of them.
Parses(f, lines) ==
  /\ f[0] = Start
  /\ \A k \in 1 .. Len(lines) : f[k] = ParseLine(f[k - 1], lines[k])

\* ParseScripts is the end of such a run.
LEMMA ParseRun ==
  ASSUME NEW lines \in Seq(Line)
  PROVE  \E f : Parses(f, lines) /\ ParseScripts(lines) = f[Len(lines)].scripts
<1> DEFINE n == Len(lines)
           iter == CHOOSE g : Unfolds(g, lines, n)
           f == [k \in 0 .. n |-> iter[1 .. k]]
<1>1. n \in Nat /\ DOMAIN lines = 1 .. n
  OBVIOUS
<1>2. Unfolds(iter, lines, n)
  BY <1>1, UnfoldsExists
<1>3. ParseScripts(lines) = iter[1 .. n].scripts
  BY <1>1 DEF ParseScripts, FoldLeft, MapThenFoldSet, Start, Unfolds
<1>. HIDE DEF iter
<1>4. f[0] = Start
  <2>1. 1 .. 0 = {} /\ {} \in SUBSET (1 .. n) /\ 0 \in 0 .. n
    BY <1>1
  <2>2. iter[{}] = Start
    BY <1>2, <2>1 DEF Unfolds
  <2>. QED  BY <2>1, <2>2
<1>5. ASSUME NEW k \in 1 .. n
      PROVE  f[k] = ParseLine(f[k - 1], lines[k])
  <2>1. 1 .. k \in SUBSET (1 .. n) /\ 1 .. k # {} /\ k \in Nat \ {0}
    <3>1. k \in 1 .. k /\ k \in Nat \ {0} /\ \A x \in 1 .. k : x \in 1 .. n
      BY <1>1
    <3>. QED  BY <3>1
  <2>2. Max(1 .. k) = k
    <3>1. k \in 1 .. k
      BY <2>1
    <3>. QED  BY <2>1, <3>1, MaxIsLast
  <2>3. (1 .. k) \ {k} = 1 .. (k - 1)
    BY <2>1
  <2>4. iter[1 .. k] = ParseLine(iter[1 .. (k - 1)], lines[k])
    BY <1>2, <2>1, <2>2, <2>3 DEF Unfolds
  <2>. QED  BY <1>1, <2>4
<1>6. f[n] = iter[1 .. n]
  BY <1>1
<1>. HIDE DEF f
<1>. QED
  BY <1>3, <1>4, <1>5, <1>6 DEF Parses

----------------------------------------------------------------------------
\* What the parser can read.

PlainScript == {s \in ScriptType : Plain(s)}

ParserState == [open : BOOLEAN, cur : PlainScript, scripts : Seq(PlainScript)]

\* Sequences of no element and of one.
LEMMA ShortSeqs ==
  ASSUME NEW T
  PROVE  /\ <<>> \in Seq(T) /\ Len(<<>>) = 0 /\ DOMAIN <<>> = {}
         /\ \A x \in T : <<x>> \in Seq(T) /\ Len(<<x>>) = 1
  OBVIOUS

\* A sequence that is not empty and no longer than one.
LEMMA SomeElement ==
  ASSUME NEW T, NEW s \in Seq(T), s # <<>>, Len(s) <= 1
  PROVE  Len(s) = 1
<1>1. Len(s) # 0
  <2>1. Len(s) = 0 => s = <<>>
    OBVIOUS
  <2>. QED  BY <2>1, Zenon
<1>2. Len(s) \in Nat
  OBVIOUS
<1>. QED
  BY <1>1, <1>2

\* Two sequences one after the other.
LEMMA JoinedSeqs ==
  ASSUME NEW T, NEW s \in Seq(T), NEW t \in Seq(T)
  PROVE  /\ s \o t \in Seq(T)
         /\ Len(s \o t) = Len(s) + Len(t)
         /\ \A j \in 1 .. Len(s) : (s \o t)[j] = s[j]
         /\ \A j \in 1 .. Len(t) : (s \o t)[Len(s) + j] = t[j]
  OBVIOUS

\* a begins b.
Begins(a, b) == Len(a) <= Len(b) /\ \A j \in 1 .. Len(a) : b[j] = a[j]

\* It still does when b gets longer.
LEMMA BeginsLonger ==
  ASSUME NEW T, NEW a \in Seq(T), NEW b \in Seq(T), NEW t \in Seq(T), Begins(a, b)
  PROVE  Begins(a, b \o t)
<1>1. Len(b \o t) = Len(b) + Len(t)
  BY JoinedSeqs
<1>2. \A j \in 1 .. Len(b) : (b \o t)[j] = b[j]
  BY JoinedSeqs
<1>3. Len(a) \in Nat /\ Len(b) \in Nat /\ Len(t) \in Nat
  OBVIOUS
<1>4. \A j \in 1 .. Len(a) : j \in 1 .. Len(b)
  BY <1>3 DEF Begins
<1>5. Len(a) <= Len(b \o t)
  BY <1>1, <1>3 DEF Begins
<1>6. \A j \in 1 .. Len(a) : (b \o t)[j] = a[j]
  BY <1>2, <1>4 DEF Begins
<1>. QED
  BY <1>5, <1>6 DEF Begins

\* The default interpreter is one word.
LEMMA WithDefaultPlain ==
  ASSUME NEW s \in ScriptType
  PROVE  /\ WithDefault(s) \in ScriptType
         /\ WithDefault(s).name = s.name
         /\ WithDefault(s).content = s.content
         /\ WithDefault(s).interpreter =
               IF s.interpreter = <<>> THEN defaultInterpreter ELSE s.interpreter
         /\ Plain(s) <=> Plain(WithDefault(s))
<1> DEFINE word == IF s.interpreter = <<>> THEN defaultInterpreter ELSE s.interpreter
<1>1. word \in Seq(Word) /\ (Len(word) <= 1 <=> Len(s.interpreter) <= 1)
  <2>1. s.interpreter \in Seq(Word)
    BY DEF ScriptType
  <2>2. "/bin/sh" \in Word
    BY DEF Word
  <2>3. defaultInterpreter \in Seq(Word) /\ Len(defaultInterpreter) = 1
    BY <2>2, ShortSeqs DEF defaultInterpreter
  <2>4. CASE s.interpreter = <<>>
    <3>1. word = defaultInterpreter /\ Len(s.interpreter) = 0
      BY <2>4
    <3>2. word \in Seq(Word)
      BY <2>3, <3>1
    <3>3. Len(word) = 1
      BY <2>3, <3>1
    <3>. HIDE DEF word
    <3>. QED  BY <3>1, <3>2, <3>3
  <2>5. CASE s.interpreter # <<>>
    BY <2>1, <2>5
  <2>. QED  BY <2>4, <2>5
<1>2. WithDefault(s) = [s EXCEPT !.interpreter = word]
  BY DEF WithDefault
<1>. HIDE DEF word
<1>3. /\ WithDefault(s) \in ScriptType
      /\ WithDefault(s).name = s.name
      /\ WithDefault(s).content = s.content
      /\ WithDefault(s).interpreter = word
  BY <1>1, <1>2 DEF ScriptType
<1>. QED
  BY <1>1, <1>3 DEF Plain, word

\* At most one word is read.
LEMMA FirstWordType ==
  ASSUME NEW words \in Seq(Word)
  PROVE  /\ FirstWord(words) \in Seq(Word)
         /\ Len(FirstWord(words)) <= 1
         /\ Len(words) <= 1 => FirstWord(words) = words
<1>1. CASE words = <<>>
  <2>1. FirstWord(words) = <<>>
    BY <1>1 DEF FirstWord
  <2>2. <<>> \in Seq(Word) /\ Len(<<>>) = 0
    BY ShortSeqs
  <2>3. FirstWord(words) \in Seq(Word) /\ Len(FirstWord(words)) = 0
    BY <2>1, <2>2, Zenon
  <2>4. Len(FirstWord(words)) <= 1
    BY <2>3
  <2>. QED  BY <1>1, <2>1, <2>3, <2>4, Zenon
<1>2. CASE words # <<>>
  <2>1. FirstWord(words) = <<Head(words)>>
    BY <1>2 DEF FirstWord
  <2>2. Head(words) \in Word
    BY <1>2
  <2>3. FirstWord(words) \in Seq(Word) /\ Len(FirstWord(words)) = 1
    BY <2>1, <2>2, ShortSeqs
  <2>4. ASSUME Len(words) <= 1
        PROVE  FirstWord(words) = words
    <3>1. Len(words) = 1
      BY <1>2, <2>4, SomeElement
    <3>2. words = <<Head(words)>>
      BY <3>1
    <3>. QED  BY <2>1, <3>2
  <2>. QED  BY <2>3, <2>4
<1>. QED
  BY <1>1, <1>2

\* A header is read as a script without lines.
LEMMA HeaderPlain ==
  ASSUME NEW line \in Line
  PROVE  /\ parseScriptHeader(line) \in PlainScript
         /\ parseScriptHeader(line).content = <<>>
<1> DEFINE name == FirstWord(line.text)
           word == FirstWord(line.interpreter)
           s == Script(name, word, <<>>)
<1>1. line.text \in Seq(Word) /\ line.interpreter \in Seq(Word)
  BY DEF Line
<1>2. /\ name \in Seq(Word) /\ Len(name) <= 1
      /\ word \in Seq(Word) /\ Len(word) <= 1
      /\ <<>> \in Seq(Line) /\ DOMAIN <<>> = {}
  BY <1>1, FirstWordType, ShortSeqs
<1>3. parseScriptHeader(line) = WithDefault(s)
  BY DEF parseScriptHeader
<1>. HIDE DEF name, word
<1>4. s \in ScriptType /\ s.content = <<>> /\ s.interpreter = word /\ s.name = name
  BY <1>2 DEF ScriptType, Script
<1>5. Plain(s)
  BY <1>2, <1>4 DEF Plain
<1>. HIDE DEF s
<1>. QED
  BY <1>3, <1>4, <1>5, WithDefaultPlain DEF PlainScript

\* A line of text makes an open script longer.
LEMMA AppendPlain ==
  ASSUME NEW s \in PlainScript, NEW line \in Line, line.mark = "text"
  PROVE  [s EXCEPT !.content = Append(@, line)] \in PlainScript
<1> DEFINE more == Append(s.content, line)
           t == [s EXCEPT !.content = more]
<1>1. s \in ScriptType /\ s.content \in Seq(Line)
  BY DEF PlainScript, ScriptType
<1>2. more \in Seq(Line) /\ \A i \in DOMAIN more : more[i].mark = "text"
  BY <1>1 DEF PlainScript, Plain
<1>. HIDE DEF more
<1>3. t \in ScriptType /\ t.content = more /\ t.interpreter = s.interpreter /\ t.name = s.name
  BY <1>1, <1>2 DEF ScriptType
<1>4. t \in PlainScript
  BY <1>2, <1>3 DEF PlainScript, Plain
<1>. QED
  BY <1>4 DEF more

\* One line keeps the parser's state plain.
LEMMA ParseLineType ==
  ASSUME NEW st \in ParserState, NEW line \in Line
  PROVE  ParseLine(st, line) \in ParserState
<1>1. CASE line.mark = "header"
  <2>1. ParseLine(st, line) = [st EXCEPT !.open = TRUE, !.cur = parseScriptHeader(line)]
    BY <1>1 DEF ParseLine
  <2>. QED  BY <2>1, HeaderPlain DEF ParserState
<1>2. CASE line.mark = "footer" /\ st.open
  <2>1. ParseLine(st, line) = [st EXCEPT !.open = FALSE, !.scripts = Append(@, st.cur)]
    BY <1>2 DEF ParseLine
  <2>2. Append(st.scripts, st.cur) \in Seq(PlainScript)
    BY DEF ParserState
  <2>. QED  BY <2>1, <2>2 DEF ParserState
<1>3. CASE line.mark = "text" /\ st.open
  <2> DEFINE s == [st.cur EXCEPT !.content = Append(@, line)]
  <2>1. s \in PlainScript
    BY <1>3, AppendPlain DEF ParserState
  <2>2. ParseLine(st, line) = [st EXCEPT !.cur = s]
    BY <1>3 DEF ParseLine
  <2>. HIDE DEF s
  <2>. QED  BY <2>1, <2>2 DEF ParserState
<1>4. CASE line.mark # "header" /\ ~st.open
  BY <1>4 DEF ParseLine
<1>. QED
  BY <1>1, <1>2, <1>3, <1>4 DEF Line

\* The parser's state is plain after every line.
LEMMA RunType ==
  ASSUME NEW lines \in Seq(Line), NEW f, Parses(f, lines), NEW k \in 0 .. Len(lines)
  PROVE  f[k] \in ParserState
<1> DEFINE S == {i \in Nat : i <= Len(lines) => f[i] \in ParserState}
<1>1. 0 \in S
  <2>1. Script(<<>>, <<>>, <<>>) \in PlainScript
    <3>1. /\ <<>> \in Seq(Word) /\ <<>> \in Seq(Line)
          /\ Len(<<>>) = 0 /\ DOMAIN <<>> = {}
      BY ShortSeqs
    <3>2. Script(<<>>, <<>>, <<>>) \in ScriptType
      BY <3>1 DEF Script, ScriptType
    <3>3. Plain(Script(<<>>, <<>>, <<>>))
      BY <3>1 DEF Script, Plain
    <3>. QED  BY <3>2, <3>3 DEF PlainScript
  <2>2. Start \in ParserState
    BY <2>1, ShortSeqs DEF Start, ParserState
  <2>. QED  BY <2>2 DEF Parses
<1>2. ASSUME NEW i \in S
      PROVE  i + 1 \in S
  <2>. SUFFICES ASSUME i + 1 <= Len(lines)
                PROVE  f[i + 1] \in ParserState
    OBVIOUS
  <2>1. f[i] \in ParserState /\ i + 1 \in 1 .. Len(lines) /\ (i + 1) - 1 = i
    OBVIOUS
  <2>2. f[i + 1] = ParseLine(f[i], lines[i + 1])
    BY <2>1 DEF Parses
  <2>. QED  BY <2>1, <2>2, ParseLineType
<1>3. S = Nat
  <2>1. S \in SUBSET Nat
    OBVIOUS
  <2>. HIDE DEF S
  <2>. QED  BY <1>1, <1>2, <2>1, Induction
<1>. QED
  BY <1>3

\* Whatever is in a file, ParseScripts reads plain scripts out of it.
THEOREM ParsedArePlain ==
  \A lines \in Seq(Line) : ParseScripts(lines) \in Seq(PlainScript)
<1>. SUFFICES ASSUME NEW lines \in Seq(Line)
              PROVE  ParseScripts(lines) \in Seq(PlainScript)
  OBVIOUS
<1>1. PICK f : Parses(f, lines) /\ ParseScripts(lines) = f[Len(lines)].scripts
  BY ParseRun
<1>2. f[Len(lines)] \in ParserState
  BY <1>1, RunType
<1>. QED
  BY <1>1, <1>2 DEF ParserState

----------------------------------------------------------------------------
\* renderScripts, block by block.

\* The blocks joined so far, after each of them.
Joins(F, seqs, T) ==
  /\ F \in [0 .. Len(seqs) -> Seq(T)]
  /\ F[0] = <<>>
  /\ \A i \in 1 .. Len(seqs) : F[i] = F[i - 1] \o seqs[i]

\* What FlattenSeq computes, as a function of the number of sequences.
Flattens(g, seqs, k) ==
  g = [i \in 1 .. k |-> IF i = 1 THEN seqs[i] ELSE g[i - 1] \o seqs[i]]

\* The recursion is well defined.
LEMMA FlattensExists ==
  ASSUME NEW seqs, NEW n \in Nat
  PROVE  \E g : Flattens(g, seqs, n)
<1> DEFINE S == {k \in Nat : \E g : Flattens(g, seqs, k)}
<1>1. 0 \in S
  <2> DEFINE g == [i \in 1 .. 0 |-> <<>>]
  <2>1. \A i \in 1 .. 0 : FALSE
    OBVIOUS
  <2>2. Flattens(g, seqs, 0)
    BY <2>1 DEF Flattens
  <2>. QED  BY <2>2
<1>2. ASSUME NEW k \in S
      PROVE  k + 1 \in S
  <2>1. PICK g : Flattens(g, seqs, k)
    OBVIOUS
  <2> DEFINE h == [i \in 1 .. (k + 1) |->
                     IF i = k + 1 THEN IF i = 1 THEN seqs[i] ELSE g[i - 1] \o seqs[i]
                                  ELSE g[i]]
  <2>2. ASSUME NEW i \in 1 .. (k + 1)
        PROVE  h[i] = IF i = 1 THEN seqs[i] ELSE h[i - 1] \o seqs[i]
    <3>1. i # 1 => i - 1 \in 1 .. k /\ i - 1 \in 1 .. (k + 1) /\ i - 1 # k + 1
      OBVIOUS
    <3>2. i # 1 => h[i - 1] = g[i - 1]
      BY <3>1
    <3>3. CASE i = k + 1
      <4>1. h[i] = IF i = 1 THEN seqs[i] ELSE g[i - 1] \o seqs[i]
        BY <3>3
      <4>. HIDE DEF h
      <4>. QED  BY <3>2, <4>1
    <3>4. CASE i # k + 1
      <4>1. i \in 1 .. k /\ h[i] = g[i]
        BY <3>4
      <4>2. g[i] = IF i = 1 THEN seqs[i] ELSE g[i - 1] \o seqs[i]
        BY <2>1, <4>1 DEF Flattens
      <4>. HIDE DEF h
      <4>. QED  BY <3>2, <4>1, <4>2
    <3>. QED  BY <3>3, <3>4
  <2>3. Flattens(h, seqs, k + 1)
    <3>1. h = [i \in 1 .. (k + 1) |-> h[i]]
      OBVIOUS
    <3>. HIDE DEF h
    <3>. QED  BY <2>2, <3>1 DEF Flattens
  <2>. QED  BY <2>3
<1>3. S = Nat
  <2>1. S \in SUBSET Nat
    OBVIOUS
  <2>. HIDE DEF S
  <2>. QED  BY <1>1, <1>2, <2>1, Induction
<1>. QED
  BY <1>3

\* FlattenSeq joins its sequences one after the other.
LEMMA FlattenRun ==
  ASSUME NEW T, NEW seqs \in Seq(Seq(T))
  PROVE  \E F : Joins(F, seqs, T) /\ FlattenSeq(seqs) = F[Len(seqs)]
<1> DEFINE n == Len(seqs)
           flatten == CHOOSE g : Flattens(g, seqs, n)
           F == [i \in 0 .. n |-> IF i = 0 THEN <<>> ELSE flatten[i]]
<1>1. n \in Nat /\ \A i \in 1 .. n : seqs[i] \in Seq(T)
  OBVIOUS
<1>2. Flattens(flatten, seqs, n)
  BY <1>1, FlattensExists
<1>3. FlattenSeq(seqs) = IF n = 0 THEN seqs ELSE flatten[n]
  BY DEF FlattenSeq, Flattens
<1>. HIDE DEF flatten
<1>4. \A i \in 1 .. n : flatten[i] = IF i = 1 THEN seqs[i] ELSE flatten[i - 1] \o seqs[i]
  BY <1>2 DEF Flattens
<1>5. F[0] = <<>> /\ \A i \in 1 .. n : F[i] = flatten[i]
  BY <1>1
<1>6. F = [i \in 0 .. n |-> F[i]]
  OBVIOUS
<1>. HIDE DEF F, n
<1>7. ASSUME NEW k \in 0 .. (n - 1)
      PROVE  k + 1 \in 1 .. n /\ F[k + 1] = F[k] \o seqs[k + 1]
  <2>1. k + 1 \in 1 .. n /\ (k + 1) - 1 = k /\ k \in Nat
    BY <1>1
  <2>2. seqs[k + 1] \in Seq(T)
    BY <1>1, <2>1
  <2>3. CASE k = 0
    <3>1. F[k + 1] = seqs[k + 1] /\ F[k] = <<>>
      BY <1>4, <1>5, <2>1, <2>3
    <3>. QED  BY <2>1, <2>2, <3>1
  <2>4. CASE k # 0
    <3>1. k \in 1 .. n /\ k + 1 # 1
      BY <1>1, <2>1, <2>4
    <3>2. flatten[k + 1] = flatten[k] \o seqs[k + 1]
      BY <1>4, <2>1, <3>1
    <3>. QED  BY <1>5, <2>1, <3>1, <3>2
  <2>. QED  BY <2>3, <2>4
<1> DEFINE S == {k \in 0 .. n : F[k] \in Seq(T)}
<1>8. 0 \in S
  <2>1. 0 \in 0 .. n
    BY <1>1
  <2>2. F[0] \in Seq(T)
    BY <1>5, ShortSeqs
  <2>. QED  BY <2>1, <2>2
<1>9. \A k \in 0 .. (n - 1) : k \in S => k + 1 \in S
  <2>. SUFFICES ASSUME NEW k \in 0 .. (n - 1), k \in S
                PROVE  k + 1 \in S
    OBVIOUS
  <2>1. seqs[k + 1] \in Seq(T) /\ F[k] \in Seq(T) /\ k + 1 \in 0 .. n
    BY <1>1, <1>7
  <2>2. F[k + 1] = F[k] \o seqs[k + 1]
    BY <1>7
  <2>3. F[k + 1] \in Seq(T)
    BY <2>1, <2>2, JoinedSeqs
  <2>. QED  BY <2>1, <2>3
<1>10. \A k \in 0 .. n : k \in S
  <2>. HIDE DEF S
  <2>. QED  BY <1>1, <1>8, <1>9, InductionUpTo
<1>11. F \in [0 .. n -> Seq(T)]
  BY <1>6, <1>10
<1>12. FlattenSeq(seqs) = F[n]
  <2>1. CASE n = 0
    <3>1. seqs = <<>>
      BY <2>1 DEF n
    <3>. QED  BY <1>3, <1>5, <2>1, <3>1
  <2>2. CASE n # 0
    BY <1>1, <1>3, <1>5, <2>2
  <2>. QED  BY <2>1, <2>2
<1>13. \A i \in 1 .. n : F[i] = F[i - 1] \o seqs[i]
  <2>. SUFFICES ASSUME NEW i \in 1 .. n
                PROVE  F[i] = F[i - 1] \o seqs[i]
    OBVIOUS
  <2>1. i - 1 \in 0 .. (n - 1) /\ (i - 1) + 1 = i
    BY <1>1
  <2>. QED  BY <1>7, <2>1
<1>. QED
  BY <1>5, <1>11, <1>12, <1>13 DEF Joins, n

\* What is joined stays at its place.
LEMMA JoinedStays ==
  ASSUME NEW T, NEW seqs \in Seq(Seq(T)), NEW F, Joins(F, seqs, T),
         NEW i \in 0 .. Len(seqs)
  PROVE  Begins(F[i], F[Len(seqs)])
<1> DEFINE n == Len(seqs)
           S == {d \in 0 .. (n - i) : Begins(F[i], F[i + d])}
<1>1. i \in Nat /\ n \in Nat /\ n - i \in Nat
  OBVIOUS
<1>2. \A k \in 0 .. n : F[k] \in Seq(T)
  BY DEF Joins
<1>3. \A k \in 1 .. n : F[k] = F[k - 1] \o seqs[k]
  BY DEF Joins
<1>4. \A k \in 1 .. n : seqs[k] \in Seq(T)
  OBVIOUS
<1>. HIDE DEF n
<1>5. 0 \in S
  <2>1. F[i] \in Seq(T) /\ i + 0 = i /\ 0 \in 0 .. (n - i)
    BY <1>1, <1>2
  <2>2. Begins(F[i], F[i])
    BY <2>1 DEF Begins
  <2>. QED  BY <2>1, <2>2
<1>6. ASSUME NEW d \in 0 .. ((n - i) - 1), d \in S
      PROVE  d + 1 \in S
  <2> DEFINE k == i + d
  <2>1. k \in 0 .. n /\ k + 1 \in 1 .. n /\ (k + 1) - 1 = k
    BY <1>1
  <2>2. i + (d + 1) = k + 1 /\ d + 1 \in 0 .. (n - i)
    BY <1>1
  <2>3. Begins(F[i], F[k])
    BY <1>6
  <2>. HIDE DEF k
  <2>4. F[k] \in Seq(T) /\ seqs[k + 1] \in Seq(T) /\ F[i] \in Seq(T)
    BY <1>1, <1>2, <1>4, <2>1
  <2>5. F[k + 1] = F[k] \o seqs[k + 1]
    BY <1>3, <2>1
  <2>6. Begins(F[i], F[k + 1])
    BY <2>3, <2>4, <2>5, BeginsLonger
  <2>. QED  BY <2>2, <2>6
<1>7. \A d \in 0 .. (n - i) : d \in S
  <2>. HIDE DEF S
  <2>. QED  BY <1>1, <1>5, <1>6, InductionUpTo
<1>8. n - i \in S /\ i + (n - i) = n
  <2>1. n - i \in 0 .. (n - i) /\ i + (n - i) = n
    BY <1>1
  <2>. HIDE DEF S
  <2>. QED  BY <1>7, <2>1
<1>. QED
  BY <1>8 DEF n

----------------------------------------------------------------------------
\* The parser on one block.

\* A block is a header, the lines of the script and a footer.
LEMMA BlockLines ==
  ASSUME NEW s \in ScriptType
  PROVE  /\ Block(s) \in Seq(Line)
         /\ Len(Block(s)) = Len(s.content) + 2
         /\ Block(s)[1] = Header(s.name, s.interpreter)
         /\ \A j \in 1 .. Len(s.content) : Block(s)[1 + j] = s.content[j]
         /\ Block(s)[Len(s.content) + 2] = Footer
<1> DEFINE H == Header(s.name, s.interpreter)
           c == s.content
           n == Len(c)
           front == <<H>> \o c
<1>1. H \in Line /\ c \in Seq(Line)
  BY DEF Header, Line, ScriptType
<1>2. Footer \in Line
  <2>1. <<>> \in Seq(Word)
    BY ShortSeqs
  <2>. QED  BY <2>1 DEF Footer, Line
<1>3. Block(s) = front \o <<Footer>>
  BY DEF Block
<1>. HIDE DEF H, c
<1>4. /\ <<H>> \in Seq(Line) /\ Len(<<H>>) = 1 /\ <<H>>[1] = H
      /\ <<Footer>> \in Seq(Line) /\ Len(<<Footer>>) = 1 /\ <<Footer>>[1] = Footer
  BY <1>1, <1>2, ShortSeqs
<1>5. n \in Nat
  BY <1>1
<1>. HIDE DEF n
<1>6. /\ front \in Seq(Line)
      /\ Len(front) = n + 1
      /\ front[1] = H
      /\ \A j \in 1 .. n : front[1 + j] = c[j]
  BY <1>1, <1>4, <1>5, JoinedSeqs DEF n
<1>. HIDE DEF front
<1>7. \A j \in 1 .. n : 1 + j \in 1 .. (n + 1)
  BY <1>5
<1>8. /\ Block(s) \in Seq(Line)
      /\ Len(Block(s)) = n + 2
      /\ Block(s)[n + 2] = Footer
      /\ \A j \in 1 .. (n + 1) : Block(s)[j] = front[j]
  <2>1. /\ front \o <<Footer>> \in Seq(Line)
        /\ Len(front \o <<Footer>>) = (n + 1) + 1
        /\ \A j \in 1 .. (n + 1) : (front \o <<Footer>>)[j] = front[j]
        /\ \A j \in 1 .. 1 : (front \o <<Footer>>)[(n + 1) + j] = <<Footer>>[j]
    BY <1>4, <1>6, JoinedSeqs
  <2>2. (n + 1) + 1 = n + 2 /\ 1 \in 1 .. 1
    BY <1>5
  <2>3. (front \o <<Footer>>)[n + 2] = Footer
    BY <1>4, <2>1, <2>2
  <2>. QED  BY <1>3, <2>1, <2>2, <2>3
<1>9. 1 \in 1 .. (n + 1)
  BY <1>5
<1>10. Block(s)[1] = H /\ \A j \in 1 .. n : Block(s)[1 + j] = c[j]
  BY <1>6, <1>7, <1>8, <1>9
<1>. QED
  BY <1>8, <1>10 DEF H, c, n

\* A header of one-word fields is read back as it was written.
LEMMA HeaderReadBack ==
  ASSUME NEW s \in ScriptType, Len(s.name) <= 1, Len(s.interpreter) = 1
  PROVE  /\ parseScriptHeader(Header(s.name, s.interpreter)).name = s.name
         /\ parseScriptHeader(Header(s.name, s.interpreter)).interpreter = s.interpreter
<1> DEFINE line == Header(s.name, s.interpreter)
           t == Script(s.name, s.interpreter, <<>>)
<1>1. s.interpreter \in Seq(Word) /\ s.name \in Seq(Word)
  BY DEF ScriptType
<1>2. FirstWord(s.name) = s.name /\ FirstWord(s.interpreter) = s.interpreter
  <2>1. \A words \in Seq(Word) : Len(words) <= 1 => FirstWord(words) = words
    BY FirstWordType
  <2>2. Len(s.interpreter) <= 1
    OBVIOUS
  <2>. QED  BY <1>1, <2>1, <2>2, Zenon
<1>3. line.text = s.name /\ line.interpreter = s.interpreter
  BY DEF Header
<1>4. parseScriptHeader(line) = WithDefault(t)
  BY <1>2, <1>3 DEF parseScriptHeader
<1>5. t \in ScriptType /\ t.name = s.name /\ t.interpreter = s.interpreter
  <2>1. <<>> \in Seq(Line)
    BY ShortSeqs
  <2>. QED  BY <1>1, <2>1 DEF Script, ScriptType
<1>6. s.interpreter # <<>>
  <2>1. Len(<<>>) = 0 /\ Len(s.interpreter) # 0
    OBVIOUS
  <2>. QED  BY <2>1, Zenon
<1>. HIDE DEF t
<1>. QED
  BY <1>4, <1>5, <1>6, WithDefaultPlain

\* Lines p + 1, p + 2, ... are the block of a script.
BlockAt(lines, p, s) ==
  /\ p + Len(Block(s)) <= Len(lines)
  /\ \A j \in 1 .. Len(Block(s)) : lines[p + j] = Block(s)[j]

\* The parser has read the header and the first j lines of the script.
Reading(st, s, j, scripts) ==
  /\ st.open
  /\ st.scripts = scripts
  /\ st.cur.name = s.name
  /\ st.cur.interpreter = s.interpreter
  /\ Len(st.cur.content) = j
  /\ \A i \in 1 .. j : st.cur.content[i] = s.content[i]

\* The header opens the script.
LEMMA ReadHeader ==
  ASSUME NEW st \in ParserState, NEW s \in PlainScript, Len(s.interpreter) = 1
  PROVE  Reading(ParseLine(st, Header(s.name, s.interpreter)), s, 0, st.scripts)
<1> DEFINE line == Header(s.name, s.interpreter)
           cur == parseScriptHeader(line)
<1>1. line \in Line /\ line.mark = "header" /\ s \in ScriptType /\ Len(s.name) <= 1
  BY DEF Header, Line, PlainScript, Plain, ScriptType
<1>2. cur.name = s.name /\ cur.interpreter = s.interpreter /\ cur.content = <<>>
  BY <1>1, HeaderReadBack, HeaderPlain
<1>3. ParseLine(st, line) = [st EXCEPT !.open = TRUE, !.cur = cur]
  BY <1>1 DEF ParseLine
<1>. HIDE DEF cur, line
<1>4. /\ ParseLine(st, line).open
      /\ ParseLine(st, line).cur = cur
      /\ ParseLine(st, line).scripts = st.scripts
  BY <1>3 DEF ParserState
<1>5. Len(cur.content) = 0 /\ \A i \in 1 .. 0 : FALSE
  BY <1>2
<1>6. Reading(ParseLine(st, line), s, 0, st.scripts)
  BY <1>2, <1>4, <1>5 DEF Reading
<1>. QED
  BY <1>6 DEF line

\* A line of text is added to the script.
LEMMA ReadText ==
  ASSUME NEW st \in ParserState, NEW s \in PlainScript, NEW scripts,
         NEW j \in 0 .. (Len(s.content) - 1), Reading(st, s, j, scripts)
  PROVE  Reading(ParseLine(st, s.content[j + 1]), s, j + 1, scripts)
<1> DEFINE line == s.content[j + 1]
           old == st.cur.content
           more == Append(old, line)
           cur == [st.cur EXCEPT !.content = more]
<1>1. s.content \in Seq(Line) /\ j \in Nat /\ j + 1 \in DOMAIN s.content
  BY DEF PlainScript, ScriptType
<1>2. line \in Line /\ line.mark = "text"
  BY <1>1 DEF PlainScript, Plain
<1>3. ParseLine(st, line) = [st EXCEPT !.cur = cur]
  BY <1>2 DEF ParseLine, Reading
<1>4. st.cur \in ScriptType /\ old \in Seq(Line)
  BY DEF ParserState, PlainScript, ScriptType
<1>5. Len(old) = j /\ \A i \in 1 .. j : old[i] = s.content[i]
  BY DEF Reading
<1>. HIDE DEF line, old
<1>6. Len(more) = j + 1
  BY <1>2, <1>4, <1>5
<1>7. ASSUME NEW i \in 1 .. (j + 1)
      PROVE  more[i] = s.content[i]
  <2>1. CASE i = j + 1
    <3>1. more[j + 1] = line
      BY <1>2, <1>4, <1>5
    <3>. QED  BY <2>1, <3>1 DEF line
  <2>2. CASE i # j + 1
    <3>1. i \in 1 .. j
      BY <1>1, <2>2
    <3>2. more[i] = old[i]
      BY <1>2, <1>4, <1>5, <3>1
    <3>. QED  BY <1>5, <3>1, <3>2
  <2>. QED  BY <2>1, <2>2
<1>. HIDE DEF more
<1>8. cur.name = s.name /\ cur.interpreter = s.interpreter /\ cur.content = more
  BY <1>4 DEF ScriptType, Reading
<1>. HIDE DEF cur
<1>9. /\ ParseLine(st, line).open
      /\ ParseLine(st, line).cur = cur
      /\ ParseLine(st, line).scripts = scripts
  BY <1>3 DEF ParserState, Reading
<1>10. Reading(ParseLine(st, line), s, j + 1, scripts)
  BY <1>6, <1>7, <1>8, <1>9 DEF Reading
<1>. QED
  BY <1>10 DEF line

\* Sequences with the same elements, and scripts with the same fields, are
\* the same.
LEMMA SameSeq ==
  ASSUME NEW T, NEW s \in Seq(T), NEW t \in Seq(T), Len(s) = Len(t),
         \A i \in 1 .. Len(t) : s[i] = t[i]
  PROVE  s = t
  OBVIOUS

LEMMA SameScript ==
  ASSUME NEW s \in ScriptType, NEW t \in ScriptType, s.name = t.name,
         s.interpreter = t.interpreter, s.content = t.content
  PROVE  s = t
  BY DEF ScriptType

\* The footer closes it.
LEMMA ReadFooter ==
  ASSUME NEW st \in ParserState, NEW s \in PlainScript, NEW scripts,
         Reading(st, s, Len(s.content), scripts)
  PROVE  ParseLine(st, Footer).scripts = Append(scripts, s)
<1>1. Footer.mark = "footer"
  BY DEF Footer
<1>2. ParseLine(st, Footer) = [st EXCEPT !.open = FALSE, !.scripts = Append(@, st.cur)]
  BY <1>1 DEF ParseLine, Reading
<1>3. ParseLine(st, Footer).scripts = Append(scripts, st.cur)
  BY <1>2 DEF ParserState, Reading
<1>4. st.cur = s
  <2>1. /\ st.cur \in ScriptType /\ s \in ScriptType
        /\ st.cur.content \in Seq(Line) /\ s.content \in Seq(Line)
    BY DEF ParserState, PlainScript, ScriptType
  <2>2. st.cur.content = s.content
    BY <2>1, SameSeq DEF Reading
  <2>. QED  BY <2>1, <2>2, SameScript DEF Reading
<1>. QED
  BY <1>3, <1>4

\* A block of a plain script adds that script and nothing else.
LEMMA BlockRun ==
  ASSUME NEW lines \in Seq(Line), NEW f, Parses(f, lines), NEW p \in Nat,
         NEW s \in PlainScript, Len(s.interpreter) = 1, BlockAt(lines, p, s)
  PROVE  f[p + Len(Block(s))].scripts = Append(f[p].scripts, s)
<1> DEFINE n == Len(s.content)
           S == {j \in 0 .. n : Reading(f[p + 1 + j], s, j, f[p].scripts)}
<1>1. s \in ScriptType /\ n \in Nat /\ Len(lines) \in Nat
  BY DEF PlainScript, ScriptType
<1>2. /\ Len(Block(s)) = n + 2
      /\ Block(s)[1] = Header(s.name, s.interpreter)
      /\ \A j \in 1 .. n : Block(s)[1 + j] = s.content[j]
      /\ Block(s)[n + 2] = Footer
  BY <1>1, BlockLines
<1>. HIDE DEF n
<1>3. /\ p + n + 2 <= Len(lines)
      /\ \A j \in 1 .. (n + 2) : lines[p + j] = Block(s)[j]
  BY <1>1, <1>2 DEF BlockAt
<1>4. ASSUME NEW j \in 1 .. (n + 2)
      PROVE  /\ f[p + j] = ParseLine(f[(p + j) - 1], Block(s)[j])
             /\ f[(p + j) - 1] \in ParserState
  <2>1. p + j \in 1 .. Len(lines) /\ (p + j) - 1 \in 0 .. Len(lines)
    BY <1>1, <1>3
  <2>2. f[p + j] = ParseLine(f[(p + j) - 1], lines[p + j])
    BY <2>1 DEF Parses
  <2>3. f[(p + j) - 1] \in ParserState
    BY <2>1, RunType
  <2>. QED  BY <1>3, <2>2, <2>3
<1>5. 0 \in S
  <2>1. 1 \in 1 .. (n + 2) /\ (p + 1) - 1 = p /\ p + 1 + 0 = p + 1 /\ 0 \in 0 .. n
    BY <1>1
  <2>2. f[p + 1] = ParseLine(f[p], Header(s.name, s.interpreter)) /\ f[p] \in ParserState
    BY <1>2, <1>4, <2>1
  <2>3. Reading(f[p + 1], s, 0, f[p].scripts)
    BY <1>1, <2>2, ReadHeader
  <2>. QED  BY <2>1, <2>3
<1>6. ASSUME NEW j \in 0 .. (n - 1), j \in S
      PROVE  j + 1 \in S
  <2> DEFINE k == j + 2
  <2>1. /\ k \in 1 .. (n + 2) /\ (p + k) - 1 = p + 1 + j /\ p + k = p + 1 + (j + 1)
        /\ j + 1 \in 0 .. n /\ j + 1 \in 1 .. n /\ k = 1 + (j + 1)
    BY <1>1
  <2>2. Block(s)[k] = s.content[j + 1]
    BY <1>2, <2>1
  <2>. HIDE DEF k
  <2>3. /\ f[p + 1 + (j + 1)] = ParseLine(f[p + 1 + j], s.content[j + 1])
        /\ f[p + 1 + j] \in ParserState
    BY <1>4, <2>1, <2>2
  <2>4. Reading(f[p + 1 + j], s, j, f[p].scripts)
    BY <1>6
  <2>5. Reading(f[p + 1 + (j + 1)], s, j + 1, f[p].scripts)
    BY <2>3, <2>4, ReadText DEF n
  <2>. QED  BY <2>1, <2>5
<1>7. \A j \in 0 .. n : j \in S
  <2>. HIDE DEF S
  <2>. QED  BY <1>1, <1>5, <1>6, InductionUpTo
<1>8. Reading(f[p + 1 + n], s, n, f[p].scripts)
  <2>1. n \in 0 .. n
    BY <1>1
  <2>. QED  BY <1>7, <2>1
<1>9. n + 2 \in 1 .. (n + 2) /\ (p + (n + 2)) - 1 = p + 1 + n
  BY <1>1
<1>10. f[p + (n + 2)] = ParseLine(f[p + 1 + n], Footer) /\ f[p + 1 + n] \in ParserState
  BY <1>2, <1>4, <1>9
<1>11. f[p + (n + 2)].scripts = Append(f[p].scripts, s)
  BY <1>8, <1>10, ReadFooter DEF n
<1>. QED
  BY <1>2, <1>11

----------------------------------------------------------------------------
\* The whole journey.

\* A rendered file is a sequence of lines.
LEMMA RenderType ==
  ASSUME NEW scripts \in Seq(ScriptType)
  PROVE  renderScripts(scripts) \in Seq(Line)
<1> DEFINE n == Len(scripts)
           blocks == [i \in DOMAIN scripts |-> Block(Asked(scripts)[i])]
<1>1. n \in Nat /\ DOMAIN scripts = 1 .. n
  OBVIOUS
<1>2. ASSUME NEW i \in 1 .. n
      PROVE  Block(Asked(scripts)[i]) \in Seq(Line)
  <2>1. scripts[i] \in ScriptType /\ Asked(scripts)[i] = WithDefault(scripts[i])
    BY <1>1 DEF Asked
  <2>. QED  BY <2>1, WithDefaultPlain, BlockLines
<1>3. renderScripts(scripts) = FlattenSeq(blocks)
  BY DEF renderScripts
<1>4. blocks \in Seq(Seq(Line)) /\ Len(blocks) = n
  <2>. HIDE DEF n
  <2>. QED  BY <1>1, <1>2
<1>. HIDE DEF blocks, n
<1>5. PICK F : Joins(F, blocks, Line) /\ FlattenSeq(blocks) = F[n]
  BY <1>4, FlattenRun
<1>. QED
  BY <1>1, <1>3, <1>4, <1>5 DEF Joins

\* The first i scripts of a spec are read back from the first i blocks.
LEMMA PlainSplitBack ==
  ASSUME NEW scripts \in Seq(ScriptType), \A i \in DOMAIN scripts : Plain(scripts[i])
  PROVE  ParseScripts(renderScripts(scripts)) = Asked(scripts)
<1> DEFINE n == Len(scripts)
           asked == Asked(scripts)
           blocks == [i \in DOMAIN scripts |-> Block(asked[i])]
           lines == renderScripts(scripts)
<1>1. n \in Nat /\ DOMAIN scripts = 1 .. n
  OBVIOUS
<1>2. asked = [i \in 1 .. n |-> WithDefault(scripts[i])]
  BY <1>1 DEF Asked
<1>3. ASSUME NEW i \in 1 .. n
      PROVE  /\ asked[i] \in PlainScript
             /\ Len(asked[i].interpreter) = 1
  <2>1. scripts[i] \in ScriptType /\ Plain(scripts[i]) /\ asked[i] = WithDefault(scripts[i])
    BY <1>1, <1>2
  <2>2. asked[i] \in ScriptType /\ Plain(asked[i])
    BY <2>1, WithDefaultPlain
  <2>3. Len(asked[i].interpreter) = 1
    <3>1. scripts[i].interpreter \in Seq(Word) /\ Len(scripts[i].interpreter) <= 1
      BY <2>1 DEF ScriptType, Plain
    <3>2. asked[i].interpreter = IF scripts[i].interpreter = <<>> THEN defaultInterpreter
                                 ELSE scripts[i].interpreter
      BY <2>1, WithDefaultPlain
    <3>3. CASE scripts[i].interpreter = <<>>
      BY <3>2, <3>3 DEF defaultInterpreter
    <3>4. CASE scripts[i].interpreter # <<>>
      <4>1. asked[i].interpreter = scripts[i].interpreter
        BY <3>2, <3>4
      <4>2. Len(scripts[i].interpreter) = 1
        BY <3>1, <3>4, SomeElement
      <4>. QED  BY <4>1, <4>2
    <3>. QED  BY <3>3, <3>4
  <2>. QED  BY <2>2, <2>3 DEF PlainScript
<1>4. lines = FlattenSeq(blocks)
  BY DEF renderScripts
<1>. HIDE DEF asked, lines
<1>5. blocks \in Seq(Seq(Line)) /\ Len(blocks) = n /\ \A i \in 1 .. n : blocks[i] = Block(asked[i])
  <2>1. \A i \in 1 .. n : Block(asked[i]) \in Seq(Line)
    BY <1>3, BlockLines DEF PlainScript
  <2>. HIDE DEF n
  <2>. QED  BY <1>1, <2>1
<1>. HIDE DEF blocks
<1>6. PICK F : Joins(F, blocks, Line) /\ lines = F[n]
  BY <1>4, <1>5, FlattenRun
<1>. HIDE DEF n
<1>7. \A i \in 0 .. n : F[i] \in Seq(Line)
  BY <1>5, <1>6 DEF Joins
<1>8. lines \in Seq(Line)
  BY <1>1, <1>6, <1>7
<1>9. PICK f : Parses(f, lines) /\ ParseScripts(lines) = f[Len(lines)].scripts
  BY <1>8, ParseRun
<1> DEFINE First(i) == [j \in 1 .. i |-> asked[j]]
           S == {i \in 0 .. n : f[Len(F[i])].scripts = First(i)}
<1>10. 0 \in S
  <2>1. Len(F[0]) = 0
    BY <1>6 DEF Joins
  <2>2. f[0].scripts = <<>>
    <3>1. f[0] = Start /\ Start.scripts = <<>>
      BY <1>9 DEF Parses, Start
    <3>. QED  BY <3>1
  <2>3. First(0) = <<>> /\ 0 \in 0 .. n
    BY <1>1
  <2>. QED  BY <2>1, <2>2, <2>3
<1>11. ASSUME NEW i \in 0 .. (n - 1), i \in S
       PROVE  i + 1 \in S
  <2> DEFINE s == asked[i + 1]
             p == Len(F[i])
  <2>1. /\ i + 1 \in 1 .. n /\ i + 1 \in 0 .. n /\ i \in 0 .. n /\ (i + 1) - 1 = i
        /\ i \in Nat
    BY <1>1
  <2>2. s \in PlainScript /\ Len(s.interpreter) = 1
    BY <1>3, <2>1
  <2>3. Block(s) \in Seq(Line)
    BY <2>2, BlockLines DEF PlainScript
  <2>4. F[i + 1] = F[i] \o Block(s)
    BY <1>5, <1>6, <2>1 DEF Joins
  <2>5. F[i] \in Seq(Line) /\ F[i + 1] \in Seq(Line) /\ p \in Nat
    BY <1>7, <2>1
  <2>6. Begins(F[i + 1], lines)
    BY <1>5, <1>6, <2>1, JoinedStays
  <2>7. f[p].scripts = First(i)
    BY <1>11
  <2>. HIDE DEF s
  <2>8. /\ Len(F[i + 1]) = p + Len(Block(s))
        /\ \A j \in 1 .. Len(Block(s)) : F[i + 1][p + j] = Block(s)[j]
    BY <2>3, <2>4, <2>5, JoinedSeqs
  <2>. HIDE DEF p
  <2>9. Len(Block(s)) \in Nat
    BY <2>3
  <2>10. BlockAt(lines, p, s)
    <3>1. \A j \in 1 .. Len(Block(s)) : p + j \in 1 .. Len(F[i + 1])
      BY <2>5, <2>8, <2>9
    <3>. QED  BY <2>6, <2>8, <3>1 DEF Begins, BlockAt
  <2>11. f[Len(F[i + 1])].scripts = Append(First(i), s)
    BY <1>8, <1>9, <2>2, <2>5, <2>7, <2>8, <2>10, BlockRun
  <2>12. Append(First(i), s) = First(i + 1)
    BY <2>1 DEF s
  <2>. QED  BY <2>1, <2>11, <2>12
<1>12. \A i \in 0 .. n : i \in S
  <2>. HIDE DEF S
  <2>. QED  BY <1>1, <1>10, <1>11, InductionUpTo
<1>13. f[Len(lines)].scripts = First(n)
  BY <1>1, <1>6, <1>12
<1>14. First(n) = asked
  BY <1>2
<1>. QED
  BY <1>9, <1>13, <1>14 DEF lines, asked

\* Comment of renderScripts: "Each script is emitted as a block the worker can
\* split back apart".  The worker runs what the spec asks for if, and only if,
\* no line of a script is a marker and every name and every
\* interpreter is one word.
THEOREM SplitBackIffPlain ==
  \A scripts \in Seq(ScriptType) :
    ParseScripts(renderScripts(scripts)) = Asked(scripts)
      <=> \A i \in DOMAIN scripts : Plain(scripts[i])
<1>. SUFFICES ASSUME NEW scripts \in Seq(ScriptType),
                     ParseScripts(renderScripts(scripts)) = Asked(scripts),
                     NEW i \in DOMAIN scripts
              PROVE  Plain(scripts[i])
  BY PlainSplitBack
<1>1. Asked(scripts) \in Seq(PlainScript)
  BY RenderType, ParsedArePlain
<1>2. scripts[i] \in ScriptType
  OBVIOUS
<1>3. DOMAIN Asked(scripts) = DOMAIN scripts /\ Asked(scripts)[i] = WithDefault(scripts[i])
  BY DEF Asked
<1>4. WithDefault(scripts[i]) \in PlainScript
  BY <1>1, <1>3
<1>. QED
  BY <1>2, <1>4, WithDefaultPlain DEF PlainScript
=============================================================================
