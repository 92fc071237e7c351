---------------------------- MODULE TerminalProofs ----------------------------
(***************************************************************************)
(* Theorems about Terminal, for terminals of any width and lines of any    *)
(* length: the line is what the user means it to be, dragged files are the *)
(* arguments of the command, and the screen shows what the program knows.  *)
(***************************************************************************)
EXTENDS Terminal, Induction, SequenceTheorems, FiniteSetTheorems

-------------------------------------------------------------------------------
(* splitArgs reads a line from left to right. *)

ScanState == [args : Seq(Line), cur : Line, inArg : BOOLEAN,
              quote : {Unquoted, SingleQuote, DoubleQuote}, escaped : BOOLEAN]

LEMMA AtType ==
  ASSUME NEW as \in Seq(Line), NEW c \in Line, NEW i \in BOOLEAN,
         NEW q \in {Unquoted, SingleQuote, DoubleQuote}, NEW e \in BOOLEAN
  PROVE  At(as, c, i, q, e) \in ScanState
BY DEF At, ScanState

LEMMA ScanStateIs ==
  ASSUME NEW s \in ScanState
  PROVE  /\ s.args \in Seq(Line) /\ s.cur \in Line /\ s.inArg \in BOOLEAN
         /\ s.quote \in {Unquoted, SingleQuote, DoubleQuote} /\ s.escaped \in BOOLEAN
BY DEF ScanState

LEMMA StartType == Start \in ScanState
<1>1. <<>> \in Seq(Line) /\ <<>> \in Line
  BY DEF Line
<1> QED BY <1>1, AtType DEF Start

LEMMA ScannedType ==
  ASSUME NEW s \in ScanState, NEW r \in Text
  PROVE  Scanned(s, r) \in ScanState
<1>1. /\ s.args \in Seq(Line) /\ s.cur \in Line /\ s.inArg \in BOOLEAN
      /\ s.quote \in {Unquoted, SingleQuote, DoubleQuote} /\ s.escaped \in BOOLEAN
  BY ScanStateIs
<1>2. Append(s.cur, r) \in Line /\ <<>> \in Line
  BY <1>1 DEF Line
<1>3. Append(s.args, s.cur) \in Seq(Line)
  BY <1>1
<1>4. Written(s, r) \in ScanState
  BY <1>1, <1>2, AtType DEF Written
<1>5. Ended(s) \in ScanState
  BY <1>1, <1>2, <1>3, AtType DEF Ended
<1>6. At(s.args, s.cur, TRUE, s.quote, TRUE) \in ScanState
  BY <1>1, AtType
<1>7. At(s.args, s.cur, s.inArg, Unquoted, FALSE) \in ScanState
  BY <1>1, AtType
<1>8. r \in {SingleQuote, DoubleQuote} => At(s.args, s.cur, TRUE, r, FALSE) \in ScanState
  BY <1>1, AtType
<1> QED BY <1>4, <1>5, <1>6, <1>7, <1>8, Zenon DEF Scanned

\* The states of a scan, one after the other.
Scans(line, at) ==
  /\ at \in [0 .. Len(line) -> ScanState]
  /\ at[0] = Start
  /\ \A n \in 1 .. Len(line) : at[n] = Scanned(at[n - 1], line[n])

LEMMA ScanExists ==
  ASSUME NEW line \in Seq(Text)
  PROVE  \E at : Scans(line, at) /\ Scan(line) = at[Len(line)]
<1> DEFINE N == Len(line)
           step == [p \in ScanState \X (1 .. N) |-> Scanned(p[1], line[p[2]])]
           is(at) == at = [n \in 0 .. Len(line) |->
                             IF n = 0 THEN Start ELSE Scanned(at[n - 1], line[n])]
           scan == CHOOSE at : is(at)
<1>n. N \in Nat /\ \A n \in 1 .. N : line[n] \in Text
  OBVIOUS
<1>1. step \in [ScanState \X (1 .. N) -> ScanState]
  <2>1. \A p \in ScanState \X (1 .. N) : Scanned(p[1], line[p[2]]) \in ScanState
    <3> TAKE p \in ScanState \X (1 .. N)
    <3>1. p[1] \in ScanState /\ p[2] \in 1 .. N
      OBVIOUS
    <3> QED BY <3>1, <1>n, ScannedType
  <2> QED BY <2>1
<1>2. \A s \in ScanState, n \in 1 .. N : step[<<s, n>>] = Scanned(s, line[n])
  OBVIOUS
<1>3. PICK g \in [0 .. N -> ScanState] :
        g[0] = Start /\ \A n \in 1 .. N : g[n] = step[<<g[n - 1], n>>]
  <2> HIDE DEF step, N
  <2>1. \E g : Computes(g, N, ScanState, Start, step)
    BY <1>n, <1>1, StartType, Recursion
  <2> QED BY <2>1 DEF Computes
<1>4. \A n \in 1 .. N : g[n] = Scanned(g[n - 1], line[n])
  <2> TAKE n \in 1 .. N
  <2>1. g[n - 1] \in ScanState
    BY <1>3, <1>n
  <2> HIDE DEF step
  <2> QED BY <1>2, <1>3, <2>1
<1>5. is(g)
  <2>1. g = [n \in 0 .. N |-> g[n]]
    BY <1>3
  <2>2. \A n \in 0 .. N : n # 0 => n \in 1 .. N
    BY <1>n
  <2> HIDE DEF N
  <2>3. \A n \in 0 .. N : g[n] = IF n = 0 THEN Start ELSE Scanned(g[n - 1], line[n])
    BY <1>3, <1>4, <2>2
  <2> QED BY <2>1, <2>3 DEF N
<1>6. is(scan)
  <2> HIDE DEF is
  <2> QED BY <1>5
<1>7. scan[0] = Start /\ \A n \in 1 .. N : scan[n] = Scanned(scan[n - 1], line[n])
  <2> HIDE DEF scan
  <2>1. \A n \in 0 .. N : scan[n] = IF n = 0 THEN Start ELSE Scanned(scan[n - 1], line[n])
    BY <1>6
  <2>2. 0 \in 0 .. N /\ \A n \in 1 .. N : n \in 0 .. N /\ n # 0
    BY <1>n
  <2> HIDE DEF N
  <2> QED BY <2>1, <2>2
<1>8. \A n \in 0 .. N : scan[n] \in ScanState
  <2> DEFINE S == {n \in 0 .. N : scan[n] \in ScanState}
  <2> HIDE DEF scan
  <2>1. 0 \in S
    <3>1. scan[0] \in ScanState
      BY <1>7, StartType, Zenon
    <3>2. 0 \in 0 .. N
      BY <1>n
    <3> QED BY <3>1, <3>2
  <2>2. \A n \in 0 .. N - 1 : n \in S => n + 1 \in S
    <3> SUFFICES ASSUME NEW n \in 0 .. N - 1, scan[n] \in ScanState
                 PROVE  scan[n + 1] \in ScanState /\ n + 1 \in 0 .. N
      OBVIOUS
    <3>1. n + 1 \in 1 .. N /\ n + 1 \in 0 .. N /\ line[n + 1] \in Text /\ (n + 1) - 1 = n
      BY <1>n
    <3>2. scan[n + 1] = Scanned(scan[n], line[n + 1])
      BY <1>7, <3>1
    <3>3. Scanned(scan[n], line[n + 1]) \in ScanState
      BY <3>1, ScannedType
    <3> QED BY <3>1, <3>2, <3>3
  <2>3. 0 .. N \subseteq S
    <3> HIDE DEF S, N
    <3> QED BY <1>n, <2>1, <2>2, InductionUpTo
  <2> QED BY <2>3
<1>9. scan = [n \in 0 .. N |-> scan[n]]
  <2> HIDE DEF scan
  <2> QED BY <1>6
<1>10. Scans(line, scan)
  <2> HIDE DEF scan
  <2> QED BY <1>7, <1>8, <1>9 DEF Scans
<1> QED BY <1>10 DEF Scan

LEMMA ScanType ==
  ASSUME NEW line \in Seq(Text)
  PROVE  Scan(line) \in ScanState
<1>1. PICK at : Scans(line, at) /\ Scan(line) = at[Len(line)]
  BY ScanExists
<1>2. Len(line) \in 0 .. Len(line)
  OBVIOUS
<1> QED BY <1>1, <1>2 DEF Scans

LEMMA ScanEmpty == Scan(<<>>) = Start
<1>1. <<>> \in Seq(Text) /\ Len(<<>>) = 0
  OBVIOUS
<1>2. PICK at : Scans(<<>>, at) /\ Scan(<<>>) = at[Len(<<>>)]
  BY <1>1, ScanExists
<1> QED BY <1>1, <1>2 DEF Scans

\* One more rune is one more step.
LEMMA ScanAppend ==
  ASSUME NEW line \in Seq(Text), NEW r \in Text
  PROVE  Scan(Append(line, r)) = Scanned(Scan(line), r)
<1> DEFINE N == Len(line)
           more == Append(line, r)
<1>1. /\ more \in Seq(Text) /\ Len(more) = N + 1 /\ N \in Nat /\ more[N + 1] = r
      /\ \A n \in 1 .. N : more[n] = line[n]
  OBVIOUS
<1> HIDE DEF more
<1>2. PICK at : Scans(line, at) /\ Scan(line) = at[N]
  BY ScanExists
<1>3. PICK bt : Scans(more, bt) /\ Scan(more) = bt[N + 1]
  BY <1>1, ScanExists
<1>4. /\ at[0] = Start /\ \A n \in 1 .. N : at[n] = Scanned(at[n - 1], line[n])
      /\ bt[0] = Start /\ \A n \in 1 .. N + 1 : bt[n] = Scanned(bt[n - 1], more[n])
  BY <1>1, <1>2, <1>3 DEF Scans
<1> HIDE DEF N
<1>5. \A n \in 0 .. N : bt[n] = at[n]
  <2> DEFINE S == {n \in 0 .. N : bt[n] = at[n]}
  <2>1. 0 \in S
    BY <1>1, <1>4
  <2>2. \A n \in 0 .. N - 1 : n \in S => n + 1 \in S
    <3> SUFFICES ASSUME NEW n \in 0 .. N - 1, bt[n] = at[n]
                 PROVE  bt[n + 1] = at[n + 1] /\ n + 1 \in 0 .. N
      OBVIOUS
    <3>1. n + 1 \in 1 .. N /\ n + 1 \in 1 .. N + 1 /\ n + 1 \in 0 .. N /\ (n + 1) - 1 = n
      BY <1>1
    <3>2. at[n + 1] = Scanned(at[n], line[n + 1]) /\ bt[n + 1] = Scanned(bt[n], more[n + 1])
      BY <1>4, <3>1
    <3> QED BY <1>1, <3>1, <3>2
  <2>3. 0 .. N \subseteq S
    <3> HIDE DEF S
    <3> QED BY <1>1, <2>1, <2>2, InductionUpTo
  <2> QED BY <2>3
<1>6. N + 1 \in 1 .. N + 1 /\ (N + 1) - 1 = N /\ N \in 0 .. N
  BY <1>1
<1>7. bt[N + 1] = Scanned(bt[N], more[N + 1])
  BY <1>4, <1>6
<1> QED BY <1>1, <1>2, <1>3, <1>5, <1>6, <1>7 DEF more

-------------------------------------------------------------------------------
(* A quoted name scans to the name. *)

\* What was scanned when as are the arguments and cur is read of the next one.
Clean(as) == At(as, <<>>, FALSE, Unquoted, FALSE)

Inside(as, cur, style) ==
  IF style = "single" THEN At(as, cur, TRUE, SingleQuote, FALSE)
  ELSE IF style = "double" THEN At(as, cur, TRUE, DoubleQuote, FALSE)
  ELSE IF cur = <<>> THEN Clean(as) ELSE At(as, cur, TRUE, Unquoted, FALSE)

\* The cases of a step.
LEMMA ScannedCases ==
  ASSUME NEW s, NEW r
  PROVE  /\ s.escaped => Scanned(s, r) = Written(s, r)
         /\ ~s.escaped /\ r = Backslash /\ Escapes(s) =>
              Scanned(s, r) = At(s.args, s.cur, TRUE, s.quote, TRUE)
         /\ ~s.escaped /\ ~(r = Backslash /\ Escapes(s)) /\ s.quote # Unquoted /\ r = s.quote =>
              Scanned(s, r) = At(s.args, s.cur, s.inArg, Unquoted, FALSE)
         /\ ~s.escaped /\ ~(r = Backslash /\ Escapes(s)) /\ s.quote # Unquoted /\ r # s.quote =>
              Scanned(s, r) = Written(s, r)
         /\ ~s.escaped /\ ~(r = Backslash /\ Escapes(s)) /\ s.quote = Unquoted =>
              Scanned(s, r) = IF r \in {SingleQuote, DoubleQuote} THEN At(s.args, s.cur, TRUE, r, FALSE)
                              ELSE IF r = Space THEN Ended(s) ELSE Written(s, r)
BY Zenon DEF Scanned

LEMMA StepEscaped ==
  ASSUME NEW as, NEW c \in Seq(Text), NEW q, NEW r \in Text
  PROVE  Scanned(At(as, c, TRUE, q, TRUE), r) = At(as, Append(c, r), TRUE, q, FALSE)
<1> DEFINE s == At(as, c, TRUE, q, TRUE)
<1>1. s.escaped
  BY Zenon DEF At
<1>2. Scanned(s, r) = Written(s, r)
  BY <1>1, ScannedCases
<1> QED BY <1>2 DEF Written, At

LEMMA StepBackslash ==
  ASSUME NEW as, NEW c \in Seq(Text), NEW i \in BOOLEAN, NEW q, q # SingleQuote
  PROVE  Scanned(At(as, c, i, q, FALSE), Backslash) = At(as, c, TRUE, q, TRUE)
<1> DEFINE s == At(as, c, i, q, FALSE)
<1>1. ~s.escaped /\ s.args = as /\ s.cur = c /\ s.quote = q
  BY Zenon DEF At
<1> HIDE DEF s
<1>2. Scanned(s, Backslash) = At(s.args, s.cur, TRUE, s.quote, TRUE)
  BY <1>1, ScannedCases DEF Escapes
<1> QED BY <1>1, <1>2 DEF s

LEMMA StepCloses ==
  ASSUME NEW as, NEW c \in Seq(Text), NEW q \in {SingleQuote, DoubleQuote}
  PROVE  Scanned(At(as, c, TRUE, q, FALSE), q) = At(as, c, TRUE, Unquoted, FALSE)
<1> DEFINE s == At(as, c, TRUE, q, FALSE)
<1>1. ~s.escaped /\ s.args = as /\ s.cur = c /\ s.quote = q /\ s.inArg = TRUE
  BY Zenon DEF At
<1>2. q # Backslash /\ q # Unquoted
  BY DEF SingleQuote, DoubleQuote, Backslash, Unquoted
<1> HIDE DEF s
<1>3. Scanned(s, q) = At(s.args, s.cur, s.inArg, Unquoted, FALSE)
  BY <1>1, <1>2, ScannedCases
<1> QED BY <1>1, <1>3 DEF s

LEMMA StepQuoted ==
  ASSUME NEW as, NEW c \in Seq(Text), NEW q \in {SingleQuote, DoubleQuote}, NEW r \in Text, r # q,
         q = SingleQuote \/ r # Backslash
  PROVE  Scanned(At(as, c, TRUE, q, FALSE), r) = At(as, Append(c, r), TRUE, q, FALSE)
<1> DEFINE s == At(as, c, TRUE, q, FALSE)
<1>1. ~s.escaped /\ s.quote = q
  BY Zenon DEF At
<1>2. q # Unquoted /\ ~(r = Backslash /\ q # SingleQuote)
  BY DEF SingleQuote, DoubleQuote, Unquoted
<1> HIDE DEF s
<1>3. Scanned(s, r) = Written(s, r)
  BY <1>1, <1>2, ScannedCases DEF Escapes
<1> QED BY <1>3 DEF s, Written, At

LEMMA StepOpens ==
  ASSUME NEW as, NEW c \in Seq(Text), NEW i \in BOOLEAN, NEW r \in {SingleQuote, DoubleQuote}
  PROVE  Scanned(At(as, c, i, Unquoted, FALSE), r) = At(as, c, TRUE, r, FALSE)
<1> DEFINE s == At(as, c, i, Unquoted, FALSE)
<1>1. ~s.escaped /\ s.args = as /\ s.cur = c /\ s.quote = Unquoted
  BY Zenon DEF At
<1>2. r # Backslash
  BY DEF SingleQuote, DoubleQuote, Backslash
<1> HIDE DEF s
<1>3. Scanned(s, r) = At(s.args, s.cur, TRUE, r, FALSE)
  BY <1>1, <1>2, ScannedCases
<1> QED BY <1>1, <1>3 DEF s

LEMMA StepPlain ==
  ASSUME NEW as, NEW c \in Seq(Text), NEW i \in BOOLEAN, NEW r \in Text, r \notin {Space, Backslash, SingleQuote, DoubleQuote}
  PROVE  Scanned(At(as, c, i, Unquoted, FALSE), r) = At(as, Append(c, r), TRUE, Unquoted, FALSE)
<1> DEFINE s == At(as, c, i, Unquoted, FALSE)
<1>1. ~s.escaped /\ s.quote = Unquoted
  BY Zenon DEF At
<1> HIDE DEF s
<1>2. Scanned(s, r) = Written(s, r)
  BY <1>1, ScannedCases
<1> QED BY <1>2 DEF s, Written, At

LEMMA StepSpace ==
  ASSUME NEW s, s.quote = Unquoted, ~s.escaped
  PROVE  Scanned(s, Space) = Ended(s)
<1>1. Space \notin {SingleQuote, DoubleQuote, Backslash}
  BY DEF SingleQuote, DoubleQuote, Backslash, Space
<1> QED BY <1>1, ScannedCases

LEMMA ScanTo ==
  ASSUME NEW line \in Seq(Text), NEW r \in Text, NEW s, NEW t, Scan(line) = s, Scanned(s, r) = t
  PROVE  Scan(Append(line, r)) = t
BY ScanAppend

\* Sequences of runes written after a line.
LEMMA OneMore ==
  ASSUME NEW s \in Seq(Text), NEW r \in Text
  PROVE  s \o <<r>> = Append(s, r) /\ Append(s, r) \in Seq(Text)
BY AppendProperties

LEMMA ConcatMore ==
  ASSUME NEW s \in Seq(Text), NEW t \in Seq(Text), NEW r \in Text
  PROVE  s \o Append(t, r) = Append(s \o t, r)
<1> DEFINE u == s \o Append(t, r)
           v == Append(s \o t, r)
<1>1. u \in Seq(Text) /\ v \in Seq(Text)
  OBVIOUS
<1>2. Len(u) = Len(s) + Len(t) + 1 /\ Len(v) = Len(u)
  OBVIOUS
<1>3. \A k \in 1 .. Len(u) : u[k] = v[k]
  OBVIOUS
<1> HIDE DEF u, v
<1>4. u = v
  BY <1>1, <1>2, <1>3, SeqEqual
<1> QED BY <1>4 DEF u, v

LEMMA TwoMore ==
  ASSUME NEW s \in Seq(Text), NEW q \in Text, NEW r \in Text
  PROVE  s \o <<q, r>> = Append(Append(s, q), r)
<1>1. <<q>> \in Seq(Text) /\ <<q, r>> = Append(<<q>>, r)
  OBVIOUS
<1> QED BY <1>1, ConcatMore, OneMore

LEMMA FourMore ==
  ASSUME NEW s \in Seq(Text), NEW o \in Text, NEW p \in Text, NEW q \in Text, NEW r \in Text
  PROVE  s \o <<o, p, q, r>> = Append(Append(Append(Append(s, o), p), q), r)
<1>1. /\ <<o, p>> \in Seq(Text) /\ <<o, p, q>> \in Seq(Text)
      /\ <<o, p, q>> = Append(<<o, p>>, q) /\ <<o, p, q, r>> = Append(<<o, p, q>>, r)
  OBVIOUS
<1>2. s \o <<o, p>> = Append(Append(s, o), p)
  BY TwoMore
<1>3. s \o <<o, p, q>> = Append(Append(Append(s, o), p), q)
  BY <1>1, <1>2, ConcatMore
<1> QED BY <1>1, <1>3, ConcatMore

LEMMA ConcatAssoc ==
  ASSUME NEW s \in Seq(Text), NEW t \in Seq(Text), NEW u \in Seq(Text)
  PROVE  (s \o t) \o u = s \o (t \o u)
<1> DEFINE v == (s \o t) \o u
           w == s \o (t \o u)
<1>1. v \in Seq(Text) /\ w \in Seq(Text)
  OBVIOUS
<1>2. Len(v) = Len(s) + Len(t) + Len(u) /\ Len(w) = Len(v)
  OBVIOUS
<1>3. \A k \in 1 .. Len(v) : v[k] = w[k]
  OBVIOUS
<1> HIDE DEF v, w
<1>4. v = w
  BY <1>1, <1>2, <1>3, SeqEqual
<1> QED BY <1>4 DEF v, w

Runic == {Space, Backslash, SingleQuote, DoubleQuote}

LEMMA RunicText == Runic \subseteq Text
BY DEF Runic, Text

LEMMA TypedType ==
  ASSUME NEW r \in Text, NEW style
  PROVE  Typed(r, style) \in Seq(Text)
<1>1. SingleQuote \in Text /\ Backslash \in Text
  BY DEF Text
<1>2. /\ <<r>> \in Seq(Text) /\ <<Backslash, r>> \in Seq(Text)
      /\ <<SingleQuote, Backslash, SingleQuote, SingleQuote>> \in Seq(Text)
  BY <1>1
<1> QED BY <1>2, Zenon DEF Typed

LEMMA TypedIs ==
  ASSUME NEW r \in Text, NEW style \in Styles
  PROVE  /\ style = "backslashes" /\ r \in Runic => Typed(r, style) = <<Backslash, r>>
         /\ style = "backslashes" /\ r \notin Runic => Typed(r, style) = <<r>>
         /\ style = "single" /\ r = SingleQuote =>
              Typed(r, style) = <<SingleQuote, Backslash, SingleQuote, SingleQuote>>
         /\ style = "single" /\ r # SingleQuote => Typed(r, style) = <<r>>
         /\ style = "double" /\ r \in {Backslash, DoubleQuote} => Typed(r, style) = <<Backslash, r>>
         /\ style = "double" /\ r \notin {Backslash, DoubleQuote} => Typed(r, style) = <<r>>
<1>1. CASE style = "backslashes"
  BY <1>1 DEF Typed, Runic
<1>2. CASE style = "single"
  BY <1>2 DEF Typed
<1>3. CASE style = "double"
  BY <1>3 DEF Typed
<1> QED BY <1>1, <1>2, <1>3 DEF Styles

\* What stands for one rune is scanned to that rune.
LEMMA TypedScanned ==
  ASSUME NEW as, NEW cur \in Seq(Text), NEW r \in Text, NEW style \in Styles, NEW line \in Seq(Text),
         Scan(line) = Inside(as, cur, style)
  PROVE  Scan(line \o Typed(r, style)) = Inside(as, Append(cur, r), style)
<1>1. Append(cur, r) # <<>> /\ Append(line, r) \in Seq(Text) /\ Append(line, Backslash) \in Seq(Text)
      /\ Backslash \in Text /\ SingleQuote \in Text /\ Append(line, SingleQuote) \in Seq(Text)
  <2>1. Backslash \in Text /\ SingleQuote \in Text
    BY DEF Text
  <2> QED BY <2>1
<1>2. Backslash # SingleQuote /\ Unquoted # SingleQuote /\ DoubleQuote # SingleQuote
      /\ DoubleQuote # Backslash
  BY DEF Backslash, SingleQuote, DoubleQuote, Unquoted
<1>3. CASE style = "backslashes"
  <2>1. PICK i \in BOOLEAN : Scan(line) = At(as, cur, i, Unquoted, FALSE)
    BY <1>3 DEF Inside, Clean
  <2>2. CASE r \in Runic
    <3>1. Scan(Append(line, Backslash)) = At(as, cur, TRUE, Unquoted, TRUE)
      BY <1>1, <1>2, <2>1, ScanAppend, StepBackslash
    <3>2. Scan(Append(Append(line, Backslash), r)) = At(as, Append(cur, r), TRUE, Unquoted, FALSE)
      <4> DEFINE l == Append(line, Backslash)
                 s == At(as, cur, TRUE, Unquoted, TRUE)
                 t == At(as, Append(cur, r), TRUE, Unquoted, FALSE)
      <4>1. Scanned(s, r) = t
        BY StepEscaped
      <4>2. Scan(l) = s /\ l \in Seq(Text)
        BY <1>1, <3>1
      <4> HIDE DEF s, t, l
      <4>3. Scan(Append(l, r)) = t
        BY <4>1, <4>2, ScanTo
      <4> QED BY <4>3 DEF l, t
    <3>3. Typed(r, style) = <<Backslash, r>>
      BY <1>3, <2>2, TypedIs
    <3>4. line \o Typed(r, style) = Append(Append(line, Backslash), r)
      BY <1>1, <3>3, TwoMore
    <3> QED BY <1>1, <1>3, <3>2, <3>4 DEF Inside
  <2>3. CASE r \notin Runic
    <3>1. Scan(Append(line, r)) = At(as, Append(cur, r), TRUE, Unquoted, FALSE)
      <4>1. Scanned(At(as, cur, i, Unquoted, FALSE), r) = At(as, Append(cur, r), TRUE, Unquoted, FALSE)
        <5>1. r \notin {Space, Backslash, SingleQuote, DoubleQuote}
          BY <2>3 DEF Runic
        <5> QED BY <5>1, StepPlain
      <4> QED BY <2>1, <4>1, ScanTo, Zenon
    <3>2. line \o Typed(r, style) = Append(line, r)
      BY <1>3, <2>3, TypedIs, OneMore
    <3> QED BY <1>1, <1>3, <3>1, <3>2 DEF Inside
  <2> QED BY <2>2, <2>3
<1>4. CASE style = "single"
  <2>1. Scan(line) = At(as, cur, TRUE, SingleQuote, FALSE)
    BY <1>4 DEF Inside
  <2>2. CASE r = SingleQuote
    <3> DEFINE l1 == Append(line, SingleQuote)
               l2 == Append(l1, Backslash)
               l3 == Append(l2, SingleQuote)
               l4 == Append(l3, SingleQuote)
    <3>1. l1 \in Seq(Text) /\ l2 \in Seq(Text) /\ l3 \in Seq(Text)
      BY <1>1
    <3>2. Scan(l1) = At(as, cur, TRUE, Unquoted, FALSE)
      BY <1>1, <2>1, ScanAppend, StepCloses
    <3>3. Scan(l2) = At(as, cur, TRUE, Unquoted, TRUE)
      BY <1>1, <1>2, <3>1, <3>2, ScanAppend, StepBackslash
    <3>4. Scan(l3) = At(as, Append(cur, r), TRUE, Unquoted, FALSE)
      <4> DEFINE s == At(as, cur, TRUE, Unquoted, TRUE)
                 t == At(as, Append(cur, r), TRUE, Unquoted, FALSE)
      <4>1. Scanned(s, r) = t
        BY StepEscaped
      <4>2. Scan(l2) = s /\ l2 \in Seq(Text)
        BY <3>1, <3>3
      <4> HIDE DEF s, t, l2
      <4>3. Scan(Append(l2, r)) = t
        BY <4>1, <4>2, ScanTo
      <4> QED BY <2>2, <4>3 DEF l2, t
    <3>5. Scan(l4) = At(as, Append(cur, r), TRUE, SingleQuote, FALSE)
      <4>1. Append(cur, r) \in Seq(Text)
        OBVIOUS
      <4> DEFINE s == At(as, Append(cur, r), TRUE, Unquoted, FALSE)
                 t == At(as, Append(cur, r), TRUE, SingleQuote, FALSE)
      <4>2. Scanned(s, SingleQuote) = t
        BY <4>1, StepOpens
      <4>3. Scan(l3) = s /\ l3 \in Seq(Text)
        BY <3>1, <3>4
      <4> HIDE DEF s, t, l3
      <4>4. Scan(Append(l3, SingleQuote)) = t
        BY <1>1, <4>2, <4>3, ScanTo
      <4> QED BY <4>4 DEF l3, t
    <3>6. Typed(r, style) = <<SingleQuote, Backslash, SingleQuote, SingleQuote>>
      BY <1>4, <2>2, TypedIs
    <3>7. line \o Typed(r, style) = l4
      BY <1>1, <3>6, FourMore
    <3> QED BY <1>4, <3>5, <3>7 DEF Inside
  <2>3. CASE r # SingleQuote
    <3>1. Scan(Append(line, r)) = At(as, Append(cur, r), TRUE, SingleQuote, FALSE)
      BY <2>1, <2>3, ScanAppend, StepQuoted
    <3>2. line \o Typed(r, style) = Append(line, r)
      BY <1>4, <2>3, TypedIs, OneMore
    <3> QED BY <1>4, <3>1, <3>2 DEF Inside
  <2> QED BY <2>2, <2>3
<1>5. CASE style = "double"
  <2>1. Scan(line) = At(as, cur, TRUE, DoubleQuote, FALSE)
    BY <1>5 DEF Inside
  <2>2. CASE r \in {Backslash, DoubleQuote}
    <3>1. Scan(Append(line, Backslash)) = At(as, cur, TRUE, DoubleQuote, TRUE)
      BY <1>1, <1>2, <2>1, ScanAppend, StepBackslash
    <3>2. Scan(Append(Append(line, Backslash), r)) = At(as, Append(cur, r), TRUE, DoubleQuote, FALSE)
      <4> DEFINE l == Append(line, Backslash)
                 s == At(as, cur, TRUE, DoubleQuote, TRUE)
                 t == At(as, Append(cur, r), TRUE, DoubleQuote, FALSE)
      <4>1. Scanned(s, r) = t
        BY StepEscaped
      <4>2. Scan(l) = s /\ l \in Seq(Text)
        BY <1>1, <3>1
      <4> HIDE DEF s, t, l
      <4>3. Scan(Append(l, r)) = t
        BY <4>1, <4>2, ScanTo
      <4> QED BY <4>3 DEF l, t
    <3>3. Typed(r, style) = <<Backslash, r>>
      BY <1>5, <2>2, TypedIs
    <3>4. line \o Typed(r, style) = Append(Append(line, Backslash), r)
      BY <1>1, <3>3, TwoMore
    <3> QED BY <1>5, <3>2, <3>4 DEF Inside
  <2>3. CASE r \notin {Backslash, DoubleQuote}
    <3>1. Scan(Append(line, r)) = At(as, Append(cur, r), TRUE, DoubleQuote, FALSE)
      BY <2>1, <2>3, ScanAppend, StepQuoted
    <3>2. line \o Typed(r, style) = Append(line, r)
      BY <1>5, <2>3, TypedIs, OneMore
    <3> QED BY <1>5, <3>1, <3>2 DEF Inside
  <2> QED BY <2>2, <2>3
<1> QED BY <1>3, <1>4, <1>5 DEF Styles

\* cur is read of an argument that is being typed.
ScansInside(line, as, cur, style) == Scan(line) = Inside(as, cur, style)
ScansTo(line, s) == line \in Seq(Text) /\ Scan(line) = s

LEMMA OneTyped ==
  ASSUME NEW as, NEW cur \in Seq(Text), NEW r \in Text, NEW style \in Styles, NEW line \in Seq(Text),
         ScansInside(line, as, cur, style)
  PROVE  ScansInside(line \o Typed(r, style), as, Append(cur, r), style)
BY TypedScanned DEF ScansInside

\* The runes typed for a name, after each rune of it.
Spells(name, style, out) ==
  /\ out \in [0 .. Len(name) -> Seq(Text)]
  /\ out[0] = <<>>
  /\ \A n \in 1 .. Len(name) : out[n] = out[n - 1] \o Typed(name[n], style)

LEMMA SpellExists ==
  ASSUME NEW name \in Seq(Text), NEW style
  PROVE  \E out : Spells(name, style, out) /\ EachRune(name, style) = out[Len(name)]
<1> DEFINE N == Len(name)
           S0 == Seq(Text)
           step == [p \in S0 \X (1 .. N) |-> p[1] \o Typed(name[p[2]], style)]
           is(out) == out = [n \in 0 .. Len(name) |->
                               IF n = 0 THEN <<>> ELSE out[n - 1] \o Typed(name[n], style)]
           spelt == CHOOSE out : is(out)
<1>n. N \in Nat /\ \A n \in 1 .. N : Typed(name[n], style) \in S0
  BY TypedType
<1>e. <<>> \in S0 /\ \A s, t \in S0 : s \o t \in S0
  OBVIOUS
<1>1. step \in [S0 \X (1 .. N) -> S0]
  <2>1. \A p \in S0 \X (1 .. N) : p[1] \o Typed(name[p[2]], style) \in S0
    <3> HIDE DEF S0
    <3> TAKE p \in S0 \X (1 .. N)
    <3>1. p[1] \in S0 /\ p[2] \in 1 .. N
      OBVIOUS
    <3> QED BY <3>1, <1>n, <1>e
  <2> HIDE DEF S0
  <2> QED BY <2>1
<1>2. \A s \in S0, n \in 1 .. N : step[<<s, n>>] = s \o Typed(name[n], style)
  <2> HIDE DEF S0
  <2> QED OBVIOUS
<1> HIDE DEF S0
<1>3. PICK g \in [0 .. N -> S0] :
        g[0] = <<>> /\ \A n \in 1 .. N : g[n] = step[<<g[n - 1], n>>]
  <2> HIDE DEF step, N
  <2>1. \E g : Computes(g, N, S0, <<>>, step)
    BY <1>n, <1>e, <1>1, Recursion
  <2> QED BY <2>1 DEF Computes
<1>4. \A n \in 1 .. N : g[n] = g[n - 1] \o Typed(name[n], style)
  <2> TAKE n \in 1 .. N
  <2>1. g[n - 1] \in S0
    BY <1>3, <1>n
  <2> HIDE DEF step
  <2> QED BY <1>2, <1>3, <2>1
<1>5. is(g)
  <2>1. g = [n \in 0 .. N |-> g[n]]
    BY <1>3
  <2>2. \A n \in 0 .. N : n # 0 => n \in 1 .. N
    BY <1>n
  <2> HIDE DEF N
  <2>3. \A n \in 0 .. N : g[n] = IF n = 0 THEN <<>> ELSE g[n - 1] \o Typed(name[n], style)
    BY <1>3, <1>4, <2>2
  <2> QED BY <2>1, <2>3 DEF N
<1>6. is(spelt)
  <2> HIDE DEF is
  <2> QED BY <1>5
<1>7. spelt[0] = <<>> /\ \A n \in 1 .. N : spelt[n] = spelt[n - 1] \o Typed(name[n], style)
  <2> HIDE DEF spelt
  <2>1. \A n \in 0 .. N : spelt[n] = IF n = 0 THEN <<>> ELSE spelt[n - 1] \o Typed(name[n], style)
    BY <1>6
  <2>2. 0 \in 0 .. N /\ \A n \in 1 .. N : n \in 0 .. N /\ n # 0
    BY <1>n
  <2> HIDE DEF N
  <2> QED BY <2>1, <2>2
<1>8. \A n \in 0 .. N : spelt[n] \in S0
  <2> DEFINE S == {n \in 0 .. N : spelt[n] \in S0}
  <2> HIDE DEF spelt
  <2>1. 0 \in S
    BY <1>7, <1>n, <1>e
  <2>2. \A n \in 0 .. N - 1 : n \in S => n + 1 \in S
    <3> SUFFICES ASSUME NEW n \in 0 .. N - 1, spelt[n] \in S0
                 PROVE  spelt[n + 1] \in S0 /\ n + 1 \in 0 .. N
      OBVIOUS
    <3>1. n + 1 \in 1 .. N /\ n + 1 \in 0 .. N /\ (n + 1) - 1 = n
      BY <1>n
    <3>2. spelt[n + 1] = spelt[n] \o Typed(name[n + 1], style)
      BY <1>7, <3>1
    <3> QED BY <1>n, <1>e, <3>1, <3>2
  <2>3. 0 .. N \subseteq S
    <3> HIDE DEF S, N
    <3> QED BY <1>n, <2>1, <2>2, InductionUpTo
  <2> QED BY <2>3
<1>9. spelt = [n \in 0 .. N |-> spelt[n]]
  <2> HIDE DEF spelt
  <2> QED BY <1>6
<1>10. Spells(name, style, spelt)
  <2> HIDE DEF spelt
  <2> QED BY <1>7, <1>8, <1>9 DEF Spells, S0
<1> QED BY <1>10 DEF EachRune

\* A name typed after a line is scanned to the name.
LEMMA EachScanned ==
  ASSUME NEW as, NEW name \in Seq(Text), NEW style \in Styles, NEW line \in Seq(Text),
         Scan(line) = Inside(as, <<>>, style)
  PROVE  /\ EachRune(name, style) \in Seq(Text)
         /\ Scan(line \o EachRune(name, style)) = Inside(as, name, style)
<1> DEFINE N == Len(name)
           upTo(n) == SubSeq(name, 1, n)
<1>n. N \in Nat /\ \A n \in 1 .. N : name[n] \in Text
  OBVIOUS
<1>t. \A l \in Seq(Text), c \in Seq(Text), r \in Text :
        Scan(l) = Inside(as, c, style) => Scan(l \o Typed(r, style)) = Inside(as, Append(c, r), style)
  <2> SUFFICES ASSUME NEW l \in Seq(Text), NEW c \in Seq(Text), NEW r \in Text,
                      Scan(l) = Inside(as, c, style)
               PROVE  Scan(l \o Typed(r, style)) = Inside(as, Append(c, r), style)
    OBVIOUS
  <2>1. ScansInside(l, as, c, style)
    BY DEF ScansInside
  <2>2. ScansInside(l \o Typed(r, style), as, Append(c, r), style)
    BY <2>1, OneTyped
  <2> QED BY <2>2 DEF ScansInside
<1>1. PICK out : Spells(name, style, out) /\ EachRune(name, style) = out[N]
  BY SpellExists
<1>2. /\ \A n \in 0 .. N : out[n] \in Seq(Text)
      /\ out[0] = <<>>
      /\ \A n \in 1 .. N : out[n] = out[n - 1] \o Typed(name[n], style)
  BY <1>1 DEF Spells
<1>3. upTo(0) = <<>> /\ upTo(N) = name
  OBVIOUS
<1>4. \A n \in 0 .. N - 1 : upTo(n) \in Seq(Text) /\ upTo(n + 1) = Append(upTo(n), name[n + 1])
  <2> TAKE n \in 0 .. N - 1
  <2>1. upTo(n) \in Seq(Text) /\ upTo(n + 1) \in Seq(Text) /\ Append(upTo(n), name[n + 1]) \in Seq(Text)
    OBVIOUS
  <2>2. Len(upTo(n + 1)) = n + 1 /\ Len(Append(upTo(n), name[n + 1])) = n + 1
    OBVIOUS
  <2>3. \A k \in 1 .. n + 1 : upTo(n + 1)[k] = Append(upTo(n), name[n + 1])[k]
    OBVIOUS
  <2> HIDE DEF upTo
  <2> QED BY <2>1, <2>2, <2>3, SeqEqual
<1> HIDE DEF upTo, N
<1> DEFINE S == {n \in 0 .. N : Scan(line \o out[n]) = Inside(as, upTo(n), style)}
<1>5. 0 \in S
  <2>1. line \o <<>> = line
    OBVIOUS
  <2>2. Scan(line \o out[0]) = Inside(as, upTo(0), style)
    BY <1>2, <1>3, <2>1
  <2>3. 0 \in 0 .. N
    BY <1>n
  <2> QED BY <2>2, <2>3
<1>6. \A n \in 0 .. N - 1 : n \in S => n + 1 \in S
  <2> SUFFICES ASSUME NEW n \in 0 .. N - 1, Scan(line \o out[n]) = Inside(as, upTo(n), style)
               PROVE  Scan(line \o out[n + 1]) = Inside(as, upTo(n + 1), style) /\ n + 1 \in 0 .. N
    OBVIOUS
  <2>1. n \in 0 .. N /\ n + 1 \in 1 .. N /\ n + 1 \in 0 .. N /\ (n + 1) - 1 = n
    BY <1>n
  <2> DEFINE o == out[n]
             r == name[n + 1]
             t == Typed(r, style)
             c == upTo(n)
             l == line \o o
  <2>2. o \in Seq(Text) /\ r \in Text /\ out[n + 1] = o \o t
    BY <1>n, <1>2, <2>1
  <2>3. t \in Seq(Text)
    BY <2>2, TypedType
  <2>4. l \in Seq(Text) /\ c \in Seq(Text) /\ upTo(n + 1) = Append(c, r) /\ Scan(l) = Inside(as, c, style)
    BY <1>4, <2>2
  <2>5. l \o t = line \o (o \o t)
    <3> HIDE DEF o, t
    <3> QED BY <2>2, <2>3, ConcatAssoc
  <2>6. Scan(l \o t) = Inside(as, Append(c, r), style)
    <3>1. l \in Seq(Text) /\ c \in Seq(Text) /\ r \in Text /\ Scan(l) = Inside(as, c, style)
      BY <2>2, <2>4
    <3> HIDE DEF l, c, r
    <3> QED BY <1>t, <3>1
  <2> HIDE DEF l, o, t, c, r
  <2> QED BY <2>1, <2>2, <2>4, <2>5, <2>6
<1>7. 0 .. N \subseteq S
  <2> HIDE DEF S
  <2> QED BY <1>n, <1>5, <1>6, InductionUpTo
<1>8. N \in 0 .. N
  BY <1>n
<1>9. Scan(line \o out[N]) = Inside(as, upTo(N), style)
  BY <1>7, <1>8
<1> QED BY <1>1, <1>2, <1>3, <1>8, <1>9

LEMMA EachTyped ==
  ASSUME NEW as, NEW name \in Seq(Text), NEW style \in Styles, NEW line \in Seq(Text),
         ScansTo(line, Inside(as, <<>>, style))
  PROVE  EachRune(name, style) \in Seq(Text) /\ ScansTo(line \o EachRune(name, style), Inside(as, name, style))
<1>1. Scan(line) = Inside(as, <<>>, style)
  BY DEF ScansTo
<1>2. EachRune(name, style) \in Seq(Text) /\ Scan(line \o EachRune(name, style)) = Inside(as, name, style)
  BY <1>1, EachScanned
<1> QED BY <1>2 DEF ScansTo

\* A name, quoted, is scanned to the name, whatever is in it.
LEMMA QuotesClose ==
  ASSUME NEW as, NEW name \in Seq(Text), NEW q \in {SingleQuote, DoubleQuote}, NEW style \in Styles,
         NEW line \in Seq(Text), ScansTo(line, Clean(as)),
         \A c : Inside(as, c, style) = At(as, c, TRUE, q, FALSE)
  PROVE  /\ <<q>> \o EachRune(name, style) \o <<q>> \in Seq(Text)
         /\ ScansTo(line \o (<<q>> \o EachRune(name, style) \o <<q>>), At(as, name, TRUE, Unquoted, FALSE))
<1> DEFINE E == EachRune(name, style)
           l == Append(line, q)
<1>1. q \in Text /\ <<>> \in Seq(Text) /\ <<q>> \in Seq(Text) /\ l \in Seq(Text)
  <2>1. q \in Text
    BY DEF Text
  <2> QED BY <2>1
<1>2. Scan(l) = At(as, <<>>, TRUE, q, FALSE)
  <2> DEFINE s == Clean(as)
             t == At(as, <<>>, TRUE, q, FALSE)
  <2>1. Scanned(s, q) = t
    BY <1>1, StepOpens DEF Clean
  <2> HIDE DEF s, t
  <2>2. Scan(line) = s
    BY DEF ScansTo, s
  <2>3. Scan(Append(line, q)) = t
    BY <1>1, <2>1, <2>2, ScanTo
  <2> QED BY <2>3 DEF t
<1>3. E \in Seq(Text) /\ Scan(l \o E) = At(as, name, TRUE, q, FALSE)
  <2>1. ScansTo(l, Inside(as, <<>>, style))
    BY <1>1, <1>2 DEF ScansTo
  <2> HIDE DEF l
  <2>2. E \in Seq(Text) /\ ScansTo(l \o E, Inside(as, name, style))
    BY <1>1, <2>1, EachTyped
  <2> QED BY <2>2 DEF ScansTo
<1>4. Scan(Append(l \o E, q)) = At(as, name, TRUE, Unquoted, FALSE)
  <2> DEFINE s == At(as, name, TRUE, q, FALSE)
             t == At(as, name, TRUE, Unquoted, FALSE)
             m == l \o E
  <2>1. Scanned(s, q) = t
    BY StepCloses
  <2>2. m \in Seq(Text) /\ Scan(m) = s
    BY <1>1, <1>3
  <2> HIDE DEF s, t, m
  <2>3. Scan(Append(m, q)) = t
    BY <1>1, <2>1, <2>2, ScanTo
  <2> QED BY <2>3 DEF m, t
<1> HIDE DEF E
<1>5. line \o (<<q>> \o E \o <<q>>) = Append(l \o E, q)
  <2>1. <<q>> \o E \in Seq(Text) /\ line \o (<<q>> \o E) \in Seq(Text) /\ l \o E \in Seq(Text)
    BY <1>1, <1>3
  <2>2. line \o ((<<q>> \o E) \o <<q>>) = (line \o (<<q>> \o E)) \o <<q>>
    BY <1>1, <2>1, ConcatAssoc
  <2>3. line \o (<<q>> \o E) = (line \o <<q>>) \o E
    BY <1>1, <1>3, ConcatAssoc
  <2>4. line \o <<q>> = l
    BY <1>1, OneMore
  <2>5. (l \o E) \o <<q>> = Append(l \o E, q)
    BY <1>1, <2>1, OneMore
  <2> QED BY <2>2, <2>3, <2>4, <2>5
<1>6. <<q>> \o E \o <<q>> \in Seq(Text)
  BY <1>1, <1>3
<1>7. ScansTo(line \o (<<q>> \o E \o <<q>>), At(as, name, TRUE, Unquoted, FALSE))
  <2> DEFINE w == <<q>> \o E \o <<q>>
             t == At(as, name, TRUE, Unquoted, FALSE)
  <2>1. w \in Seq(Text) /\ Scan(line \o w) = t
    BY <1>4, <1>5, <1>6
  <2> HIDE DEF w, t
  <2>2. line \o w \in Seq(Text)
    BY <2>1
  <2>3. ScansTo(line \o w, t)
    BY <2>1, <2>2 DEF ScansTo
  <2> QED BY <2>3 DEF w, t
<1> QED BY <1>6, <1>7 DEF E

LEMMA QuotedScanned ==
  ASSUME NEW as, NEW name \in Seq(Text), name # <<>>, NEW style \in Styles,
         NEW line \in Seq(Text), ScansTo(line, Clean(as))
  PROVE  /\ Quoted(name, style) \in Seq(Text)
         /\ ScansTo(line \o Quoted(name, style), At(as, name, TRUE, Unquoted, FALSE))
<1>1. CASE style = "backslashes"
  <2>1. Inside(as, <<>>, style) = Clean(as) /\ Inside(as, name, style) = At(as, name, TRUE, Unquoted, FALSE)
    BY <1>1 DEF Inside
  <2>2. EachRune(name, style) \in Seq(Text) /\ ScansTo(line \o EachRune(name, style), Inside(as, name, style))
    BY <2>1, EachTyped
  <2>3. Quoted(name, style) = EachRune(name, style)
    BY <1>1 DEF Quoted
  <2> QED BY <2>1, <2>2, <2>3
<1>2. CASE style = "single"
  <2>1. \A c : Inside(as, c, style) = At(as, c, TRUE, SingleQuote, FALSE)
    BY <1>2 DEF Inside
  <2>2. Quoted(name, style) = <<SingleQuote>> \o EachRune(name, style) \o <<SingleQuote>>
    BY <1>2 DEF Quoted
  <2> QED BY <2>1, <2>2, QuotesClose
<1>3. CASE style = "double"
  <2>1. \A c : Inside(as, c, style) = At(as, c, TRUE, DoubleQuote, FALSE)
    BY <1>3 DEF Inside
  <2>2. Quoted(name, style) = <<DoubleQuote>> \o EachRune(name, style) \o <<DoubleQuote>>
    BY <1>3 DEF Quoted
  <2> QED BY <2>1, <2>2, QuotesClose
<1> QED BY <1>1, <1>2, <1>3 DEF Styles

-------------------------------------------------------------------------------
(* What the operators on lines return. *)

LEMMA SplitType ==
  ASSUME NEW line \in Seq(Text)
  PROVE  splitArgs(line) \in Seq(Line)
<1> DEFINE s == Scan(line)
<1>1. s \in ScanState
  BY ScanType
<1> HIDE DEF s
<1>2. s.args \in Seq(Line) /\ s.cur \in Line /\ s.inArg \in BOOLEAN
  BY <1>1, ScanStateIs
<1>3. Append(s.args, s.cur) \in Seq(Line)
  BY <1>2
<1>4. CASE s.inArg
  <2>1. Ended(s) = At(Append(s.args, s.cur), <<>>, FALSE, s.quote, s.escaped)
    BY <1>4 DEF Ended
  <2>2. Ended(s).args = Append(s.args, s.cur)
    <3> DEFINE a == Append(s.args, s.cur)
    <3>1. At(a, <<>>, FALSE, s.quote, s.escaped).args = a
      BY Zenon DEF At
    <3> QED BY <2>1, <3>1
  <2> QED BY <1>3, <2>2 DEF splitArgs, AllArgs, s
<1>5. CASE ~s.inArg
  <2>1. Ended(s) = s
    BY <1>5 DEF Ended
  <2> QED BY <1>2, <2>1 DEF splitArgs, AllArgs, s
<1> QED BY <1>4, <1>5

\* The first and the last of some places in a line.
LEMMA FirstAndLast ==
  ASSUME NEW s \in Line, NEW K, K \subseteq 1 .. Len(s), K # {}
  PROVE  /\ (CHOOSE k \in K : \A j \in K : k <= j) \in K
         /\ \A j \in K : (CHOOSE k \in K : \A i \in K : k <= i) <= j
         /\ (CHOOSE k \in K : \A j \in K : j <= k) \in K
         /\ \A j \in K : j <= (CHOOSE k \in K : \A i \in K : i <= k)
<1>1. Len(s) \in Nat /\ K \subseteq Nat /\ \A k \in K : k <= Len(s)
  BY DEF Line
<1>2. \E k \in K : \A j \in K : k <= j
  BY <1>1, Least
<1>3. \E k \in K : \A j \in K : j <= k
  BY <1>1, Greatest
<1> QED BY <1>2, <1>3

\* What TrimSpace leaves starts and ends where the line's words do.
LEMMA TrimmedIs ==
  ASSUME NEW s \in Line
  PROVE  \/ Trimmed(s) = <<>> /\ \A k \in 1 .. Len(s) : s[k] = Space
         \/ \E i, j \in 1 .. Len(s) :
              /\ i <= j /\ s[i] # Space /\ s[j] # Space
              /\ \A k \in 1 .. Len(s) : s[k] # Space => i <= k /\ k <= j
              /\ Trimmed(s) = SubSeq(s, i, j)
<1> DEFINE K == {k \in 1 .. Len(s) : s[k] # Space}
           i == CHOOSE k \in K : \A j \in K : k <= j
           j == CHOOSE k \in K : \A j \in K : j <= k
<1>1. CASE K = {}
  BY <1>1 DEF Trimmed
<1>2. CASE K # {}
  <2>1. i \in K /\ (\A k \in K : i <= k) /\ j \in K /\ (\A k \in K : k <= j)
    BY <1>2, FirstAndLast
  <2>2. Trimmed(s) = SubSeq(s, i, j)
    BY <1>2 DEF Trimmed
  <2> HIDE DEF i, j
  <2> QED BY <2>1, <2>2
<1> QED BY <1>1, <1>2

LEMMA TrimmedType ==
  ASSUME NEW s \in Line
  PROVE  Trimmed(s) \in Line
<1>1. CASE Trimmed(s) = <<>>
  BY <1>1 DEF Line
<1>2. ASSUME NEW i \in 1 .. Len(s), NEW j \in 1 .. Len(s), i <= j, Trimmed(s) = SubSeq(s, i, j)
      PROVE  Trimmed(s) \in Line
  BY <1>2 DEF Line
<1> QED BY <1>1, <1>2, TrimmedIs

\* Where the last word of a line starts, if there is one.
LEMMA LastWord ==
  ASSUME NEW s \in Line
  PROVE  \E n \in 0 .. Len(s) : WithoutLastWord(s) = SubSeq(s, 1, n) /\ EraseWord(s) = SubSeq(s, 1, n)
<1> DEFINE N == Len(s)
           word   == {k \in 1 .. N : s[k] # Space}
           spaces == {k \in 1 .. N : s[k] = Space /\ \E j \in word : k < j}
           first  == {k \in 1 .. N : \E j \in spaces : k <= j}
           t == Stripped(s, IsSpace)
<1>n. N \in Nat
  BY DEF Line
<1>0. /\ WithoutLastWord(s) = SubSeq(s, 1, Cardinality(first))
      /\ EraseWord(s) = Stripped(t, NotSpace)
  BY DEF WithoutLastWord, EraseWord
<1>1. t = IF word = {} THEN <<>> ELSE SubSeq(s, 1, CHOOSE k \in word : \A j \in word : j <= k)
  BY DEF Stripped, IsSpace
<1> HIDE DEF t
<1>2. CASE word = {}
  <2>1. first = {} /\ t = <<>>
    BY <1>1, <1>2
  <2>2. Cardinality(first) = 0
    BY <2>1, FS_EmptySet
  <2>3. Stripped(t, NotSpace) = <<>>
    BY <2>1 DEF Stripped
  <2>4. 0 \in 0 .. N /\ SubSeq(s, 1, 0) = <<>>
    BY <1>n DEF Line
  <2> QED BY <1>0, <2>2, <2>3, <2>4
<1>3. CASE word # {}
  <2>1. PICK w \in word : (\A j \in word : j <= w) /\ t = SubSeq(s, 1, w)
    <3>1. (CHOOSE k \in word : \A j \in word : j <= k) \in word
          /\ \A j \in word : j <= (CHOOSE k \in word : \A i \in word : i <= k)
      BY <1>3, FirstAndLast
    <3> QED BY <1>1, <1>3, <3>1
  <2>2. w \in 1 .. N /\ s[w] # Space /\ t \in Line /\ Len(t) = w /\ \A k \in 1 .. w : t[k] = s[k]
    BY <1>n, <2>1 DEF Line
  <2>3. spaces = {k \in 1 .. Len(t) : ~ (t[k] # Space)}
    BY <1>n, <2>1, <2>2
  <2>4. Stripped(t, NotSpace) = IF spaces = {} THEN <<>>
                                ELSE SubSeq(t, 1, CHOOSE k \in spaces : \A j \in spaces : j <= k)
    <3> DEFINE kept == {k \in 1 .. Len(t) : ~ NotSpace(t[k])}
    <3>1. kept = spaces
      BY <2>3 DEF NotSpace
    <3>2. Stripped(t, NotSpace) = IF kept = {} THEN <<>>
                                  ELSE SubSeq(t, 1, CHOOSE k \in kept : \A j \in kept : j <= k)
      BY DEF Stripped
    <3> HIDE DEF spaces, kept
    <3> QED BY <3>1, <3>2
  <2>5. CASE spaces = {}
    <3>1. first = {}
      BY <2>5
    <3>2. Cardinality(first) = 0
      BY <3>1, FS_EmptySet
    <3>3. 0 \in 0 .. N /\ SubSeq(s, 1, 0) = <<>>
      BY <1>n DEF Line
    <3> QED BY <1>0, <2>4, <2>5, <3>2, <3>3
  <2>6. CASE spaces # {}
    <3> DEFINE m == CHOOSE k \in spaces : \A j \in spaces : j <= k
    <3>1. m \in spaces /\ \A j \in spaces : j <= m
      BY <2>6, FirstAndLast
    <3>2. Stripped(t, NotSpace) = SubSeq(t, 1, m)
      BY <2>4, <2>6
    <3> HIDE DEF m
    <3>3. m \in 1 .. N /\ m <= w
      BY <1>n, <2>1, <2>2, <3>1
    <3>4. first = 1 .. m
      BY <1>n, <3>1, <3>3
    <3>5. Cardinality(first) = m
      <4>1. Cardinality(1 .. m) = m
        <5>1. 1 \in Int /\ m \in Int /\ 1 <= m /\ m - 1 + 1 = m
          BY <1>n, <3>3
        <5> QED BY <5>1, FS_Interval
      <4> HIDE DEF first
      <4> QED BY <3>4, <4>1
    <3>6. SubSeq(t, 1, m) = SubSeq(s, 1, m)
      <4>1. SubSeq(t, 1, m) \in Line /\ SubSeq(s, 1, m) \in Line
            /\ Len(SubSeq(t, 1, m)) = m /\ Len(SubSeq(s, 1, m)) = m
        BY <1>n, <2>2, <3>3 DEF Line
      <4>2. \A k \in 1 .. m : SubSeq(t, 1, m)[k] = SubSeq(s, 1, m)[k]
        BY <1>n, <2>2, <3>3 DEF Line
      <4> QED BY <4>1, <4>2, SeqEqual DEF Line
    <3>7. m \in 0 .. N
      BY <1>n, <3>3
    <3> HIDE DEF first, N
    <3> QED BY <1>0, <3>2, <3>5, <3>6, <3>7 DEF N
  <2> QED BY <2>5, <2>6
<1> QED BY <1>2, <1>3

-------------------------------------------------------------------------------
(* The bottom row. *)

LEMMA PromptWidth ==
  ASSUME NEW isOnline \in BOOLEAN, NEW shown, shown \subseteq Loops
  PROVE  PromptCells(isOnline, shown) \in Nat /\ Room(isOnline, shown) = Width - PromptCells(isOnline, shown) - 1
<1>1. Cardinality(shown) \in Nat
  <2>1. IsFiniteSet(Loops)
    <3>1. Loops = {"up"} \cup {"down"}
      BY DEF Loops
    <3> QED BY <3>1, FS_Singleton, FS_Union
  <2> QED BY <2>1, FS_Subset, FS_CardinalityType
<1> DEFINE n == Cardinality(shown)
           parts == n + (IF isOnline THEN 0 ELSE 1)
           texts == StatusCells * n + (IF isOnline THEN 0 ELSE 11)
<1>2. n \in Nat /\ StatusCells * n \in Nat
  BY <1>1, TerminalAssumption
<1>3. parts \in Nat /\ texts \in Nat
  <2> HIDE DEF n
  <2> QED BY <1>2
<1> HIDE DEF parts, texts
<1>4. InfoCells(isOnline, shown) = IF parts = 0 THEN 0 ELSE texts + 3 * (parts - 1) + 3
  BY DEF InfoCells, parts, texts
<1>5. InfoCells(isOnline, shown) \in Nat
  BY <1>3, <1>4
<1> QED BY <1>5, TerminalAssumption DEF PromptCells, Room

LEMMA TailIs ==
  ASSUME NEW s \in Line, NEW n \in Nat \ {0}
  PROVE  /\ Tail1(s, n) \in Line /\ Tail1(s, n) \in Suffixes(s) /\ Len(Tail1(s, n)) <= n
         /\ \A t \in Suffixes(s) : Len(t) <= n => Len(t) <= Len(Tail1(s, n))
<1>n. Len(s) \in Nat
  BY DEF Line
<1>1. \A k \in 1 .. Len(s) + 1 : SubSeq(s, k, Len(s)) \in Line /\ Len(SubSeq(s, k, Len(s))) = Len(s) - k + 1
  BY <1>n DEF Line
<1>2. \A t \in Suffixes(s) : Len(t) <= Len(s)
  BY <1>n, <1>1 DEF Suffixes
<1>3. CASE Len(s) > n
  <2>1. Tail1(s, n) = SubSeq(s, Len(s) - n + 1, Len(s))
    BY <1>3 DEF Tail1
  <2>2. Len(s) - n + 1 \in 1 .. Len(s) + 1 /\ Len(s) - (Len(s) - n + 1) + 1 = n
    BY <1>n, <1>3
  <2>3. Len(Tail1(s, n)) = n /\ Tail1(s, n) \in Line
    BY <1>1, <2>1, <2>2
  <2>4. Tail1(s, n) \in Suffixes(s)
    BY <2>1, <2>2 DEF Suffixes
  <2> QED BY <2>3, <2>4
<1>4. CASE ~ (Len(s) > n)
  <2>1. Tail1(s, n) = s
    BY <1>4 DEF Tail1
  <2>2. 1 \in 1 .. Len(s) + 1 /\ s = SubSeq(s, 1, Len(s))
    BY <1>n DEF Line
  <2>3. s \in Suffixes(s)
    BY <2>2 DEF Suffixes
  <2> QED BY <1>n, <1>2, <1>4, <2>1, <2>3
<1> QED BY <1>3, <1>4

\* A row that shows the marks and as much of the line as there is room for.
Fits(row, isOnline, shown, s) ==
  /\ row.online = isOnline /\ row.shown = shown /\ row.tail \in Line
  /\ LET used == PromptCells(isOnline, shown)
         fits == {t \in Suffixes(s) : used + Len(t) < Width \/ Len(t) <= 1}
     IN row.tail \in fits /\ \A t \in fits : Len(t) <= Len(row.tail)

LEMMA PromptFits ==
  ASSUME NEW isOnline \in BOOLEAN, NEW shown, shown \subseteq Loops, NEW s \in Line,
         NEW row, row = Prompt(isOnline, shown, s)
  PROVE  Fits(row, isOnline, shown, s)
<1> DEFINE used == PromptCells(isOnline, shown)
           room == Room(isOnline, shown)
           n == IF room < 1 THEN 1 ELSE room
           x == Tail1(s, n)
<1>1. used \in Nat /\ room = Width - used - 1 /\ Width \in Nat
  BY PromptWidth, TerminalAssumption
<1>2. row = [online |-> isOnline, shown |-> shown, tail |-> x]
  BY DEF Prompt
<1>3. row.online = isOnline /\ row.shown = shown /\ row.tail = x
  <2> HIDE DEF x
  <2>1. row.online = isOnline
    BY <1>2
  <2>2. row.shown = shown
    BY <1>2
  <2>3. row.tail = x
    BY <1>2
  <2> QED BY <2>1, <2>2, <2>3
<1> HIDE DEF used, room
<1>4. n \in Nat \ {0} /\ \A l \in Nat : l <= n <=> (used + l < Width \/ l <= 1)
  BY <1>1
<1> HIDE DEF n
<1>5. /\ x \in Line /\ x \in Suffixes(s) /\ Len(x) <= n
      /\ \A t \in Suffixes(s) : Len(t) <= n => Len(t) <= Len(x)
  BY <1>4, TailIs
<1>6. \A t \in Suffixes(s) : Len(t) \in Nat
  BY DEF Suffixes, Line
<1> HIDE DEF x
<1>7. x \in {t \in Suffixes(s) : used + Len(t) < Width \/ Len(t) <= 1}
  BY <1>4, <1>5, <1>6
<1>8. \A t \in {u \in Suffixes(s) : used + Len(u) < Width \/ Len(u) <= 1} : Len(t) <= Len(x)
  BY <1>4, <1>5, <1>6
<1> QED BY <1>3, <1>5, <1>7, <1>8 DEF used, Fits

\* A prompt that wraps is one whose marks leave no room for a rune.
LEMMA WrapsWide ==
  ASSUME NEW isOnline \in BOOLEAN, NEW shown, shown \subseteq Loops, NEW s \in Line,
         NEW row, row = Prompt(isOnline, shown, s), Wraps(row)
  PROVE  PromptCells(isOnline, shown) >= Width
<1> DEFINE used == PromptCells(isOnline, shown)
<1>1. /\ row.online = isOnline /\ row.shown = shown /\ row.tail \in Line
      /\ used + Len(row.tail) < Width \/ Len(row.tail) <= 1
  <2>1. Fits(row, isOnline, shown, s)
    BY PromptFits
  <2>2. row.online = isOnline /\ row.shown = shown /\ row.tail \in Line
        /\ row.tail \in {t \in Suffixes(s) : used + Len(t) < Width \/ Len(t) <= 1}
    BY <2>1 DEF Fits
  <2> HIDE DEF used
  <2> QED BY <2>2
<1>2. used \in Nat /\ Width \in Nat /\ Len(row.tail) \in Nat
  BY <1>1, PromptWidth, TerminalAssumption DEF Line
<1>3. used + Len(row.tail) > Width
  BY <1>1 DEF Wraps
<1> HIDE DEF used
<1>4. used >= Width
  BY <1>1, <1>2, <1>3
<1> QED BY <1>4 DEF used

\* What was drawn last was a prompt, and the one of now when nobody is writing.
Drawn == \E o \in BOOLEAN, shown \in SUBSET Loops, s \in Line : bottom = Prompt(o, shown, s)

Believed == mu = "free" => bottom = Prompt(online, status, input)

\* The first to leave restores the terminal, and nobody takes it back.
Back == (leaving # {} => ~raw) /\ (gone => ~raw)

\* TypeOK without the bottom row, which is what redraw makes of the rest.
Scraps == [online : BOOLEAN, shown : SUBSET Loops]
ScreenType == raw \in BOOLEAN /\ rows \in 0 .. wanted /\ wanted \in 0 .. MaxBlocks /\ scraps \subseteq Scraps
LockType == mu \in {"free", "ReadLine", "Print"}
UserType ==
  /\ keys \in Seq(Text \cup Presses \cup {"esc"}) /\ pressed \in 0 .. MaxPresses
  /\ meant \in Line /\ files \in Seq(Line) /\ tidy \in BOOLEAN
EditType ==
  /\ input \in Line /\ esc \in {"no", "first", "rest", "done"}
  /\ main \in {"reading", "command", "leaving"} /\ args \in Seq(Line)
MarksType == online \in BOOLEAN /\ status \subseteq Loops
WorkType == transfer \in [Loops -> {"idle", "busy"}] /\ late \in BOOLEAN
EndingType == leaving \subseteq Ways /\ gone \in BOOLEAN

Types == ScreenType /\ LockType /\ UserType /\ EditType /\ MarksType /\ WorkType /\ EndingType

\* The inductive invariant of the screen.
ScreenIInv == Types /\ Drawn /\ Believed /\ ScrapsOfMarks /\ DownloadTrue /\ Back

LEMMA ScreenFollows == ScreenIInv => ScreenInv
<1> SUFFICES ASSUME ScreenIInv PROVE ScreenInv
  OBVIOUS
<1>1. Types /\ Drawn /\ Believed /\ ScrapsOfMarks /\ DownloadTrue /\ Back
  BY DEF ScreenIInv
<1>2. online \in BOOLEAN /\ status \subseteq Loops /\ input \in Line
  BY <1>1 DEF Types, MarksType, EditType
<1>3. TypeOK
  <2>1. PICK o \in BOOLEAN, shown \in SUBSET Loops, s \in Line : bottom = Prompt(o, shown, s)
    BY <1>1 DEF Drawn
  <2>2. bottom.online = o /\ bottom.shown = shown /\ bottom.tail \in Line
    BY <2>1, PromptFits DEF Fits
  <2>3. bottom.online \in BOOLEAN /\ bottom.shown \subseteq Loops /\ bottom.tail \in Line
    BY <2>2
  <2> QED BY <1>1, <2>3, Zenon
          DEF Types, ScreenType, Scraps, LockType, UserType, EditType, MarksType, WorkType, EndingType, TypeOK
<1>4. PromptTrue
  <2>1. ASSUME mu = "free" PROVE Fits(bottom, online, status, input)
    <3>1. bottom = Prompt(online, status, input)
      BY <1>1, <2>1 DEF Believed
    <3> QED BY <1>2, <3>1, PromptFits
  <2> QED BY <2>1, Zenon DEF PromptTrue, Fits
<1>5. Restored
  BY <1>1 DEF Back, Restored
<1> QED BY <1>1, <1>3, <1>4, <1>5 DEF ScreenInv

LEMMA ScreenStart == Init => ScreenIInv
<1> SUFFICES ASSUME Init PROVE ScreenIInv
  OBVIOUS
<1>1. ScreenType /\ LockType /\ UserType /\ EditType /\ MarksType /\ EndingType
  <2>1. ScreenType
    BY TerminalAssumption DEF Init, ScreenType
  <2>6. LockType
    BY DEF Init, LockType
  <2>2. UserType
    <3>1. keys \in Seq(Text \cup Presses \cup {"esc"}) /\ meant \in Line /\ files \in Seq(Line)
      BY DEF Init, Line
    <3>2. pressed \in 0 .. MaxPresses
      BY TerminalAssumption DEF Init
    <3>3. tidy \in BOOLEAN
      BY Zenon DEF Init
    <3> QED BY <3>1, <3>2, <3>3 DEF UserType
  <2>3. EditType
    BY DEF Init, EditType, Line
  <2>4. MarksType
    BY DEF Init, MarksType
  <2>5. EndingType
    BY DEF Init, EndingType
  <2> QED BY <2>1, <2>2, <2>3, <2>4, <2>5, <2>6
<1>2. WorkType
  BY DEF Init, WorkType
<1>3. Believed /\ ScrapsOfMarks /\ DownloadTrue /\ Back
  BY DEF Init, Believed, ScrapsOfMarks, DownloadTrue, Back
<1>4. Drawn
  <2>1. bottom = Prompt(online, status, input)
    BY DEF Init
  <2> QED BY <1>1, <2>1 DEF Drawn, MarksType, EditType
<1> QED BY <1>1, <1>2, <1>3, <1>4 DEF ScreenIInv, Types

\* Steps that leave a part of the state alone leave what is said of it.
LEMMA SameRows == ScreenType /\ UNCHANGED <<raw, rows, scraps, wanted>> => ScreenType'
BY DEF ScreenType

LEMMA SameLock == LockType /\ UNCHANGED mu => LockType'
BY DEF LockType

LEMMA SameUser == UserType /\ UNCHANGED user => UserType'
BY DEF UserType, user

LEMMA SameEdit == EditType /\ UNCHANGED edit => EditType'
BY DEF EditType, edit

LEMMA SameMarks == MarksType /\ UNCHANGED marks => MarksType'
BY DEF MarksType, marks

LEMMA SameWork == WorkType /\ UNCHANGED <<transfer, late>> => WorkType'
BY DEF WorkType

LEMMA SameEnding == EndingType /\ UNCHANGED ending => EndingType'
BY DEF EndingType, ending

LEMMA SameRest ==
  /\ ScrapsOfMarks /\ UNCHANGED scraps => ScrapsOfMarks'
  /\ DownloadTrue /\ UNCHANGED <<status, transfer>> => DownloadTrue'
  /\ Back /\ UNCHANGED <<raw, leaving, gone>> => Back'
  /\ Drawn /\ UNCHANGED bottom => Drawn'
  /\ Believed /\ UNCHANGED <<mu, bottom, online, status, input>> => Believed'
BY DEF ScrapsOfMarks, DownloadTrue, Back, Drawn, Believed

\* Clearing the row leaves of a prompt that wraps what the marks are to blame for.
LEMMA ClearsStep ==
  ASSUME Drawn, scraps \subseteq Scraps, ScrapsOfMarks, ClearsRow
  PROVE  scraps' \subseteq Scraps /\ ScrapsOfMarks'
<1>1. PICK o \in BOOLEAN, shown \in SUBSET Loops, s \in Line : bottom = Prompt(o, shown, s)
  BY DEF Drawn
<1>2. bottom.online = o /\ bottom.shown = shown
  BY <1>1, PromptFits DEF Fits
<1> DEFINE scrap == [online |-> bottom.online, shown |-> bottom.shown]
<1>3. scrap \in Scraps /\ scrap.online = o /\ scrap.shown = shown
  BY <1>2 DEF Scraps
<1>4. Wraps(bottom) => PromptCells(o, shown) >= Width
  BY <1>1, WrapsWide
<1>5. scraps' = scraps \cup (IF Wraps(bottom) THEN {scrap} ELSE {})
  BY DEF ClearsRow
<1> HIDE DEF scrap
<1>6. scraps' \subseteq Scraps
  BY <1>3, <1>5
<1>7. ScrapsOfMarks'
  <2> SUFFICES ASSUME NEW p \in scraps' PROVE PromptCells(p.online, p.shown) >= Width
    BY DEF ScrapsOfMarks
  <2>1. CASE p \in scraps
    BY <2>1 DEF ScrapsOfMarks
  <2>2. CASE p \notin scraps
    <3>1. p = scrap /\ Wraps(bottom)
      BY <1>5, <2>2
    <3>2. PromptCells(scrap.online, scrap.shown) >= Width
      BY <1>3, <1>4, <3>1
    <3> QED BY <3>1, <3>2
  <2> QED BY <2>1, <2>2
<1> QED BY <1>6, <1>7

\* What is drawn is true.
LEMMA DrawsStep ==
  ASSUME MarksType', input' \in Line, Draws
  PROVE  Drawn' /\ Believed'
BY DEF MarksType, Draws, Drawn, Believed

\* What the user presses and drags.
LEMMA RunesType ==
  ASSUME NEW p \in Presses
  PROVE  Runes(p) \in Seq(Text \cup Presses \cup {"esc"})
<1> DEFINE K == Text \cup Presses \cup {"esc"}
<1>1. "esc" \in K /\ "[" \in K /\ "3" \in K /\ "~" \in K /\ "O" \in K /\ "P" \in K /\ "a" \in K
      /\ "/" \in K /\ Space \in K /\ p \in K
  BY DEF Text
<1> HIDE DEF K
<1>2. /\ <<"esc", "[", "3", "~">> \in Seq(K) /\ <<"esc", "O", "P">> \in Seq(K)
      /\ <<"esc", "a">> \in Seq(K) /\ <<"/", Space>> \in Seq(K) /\ <<p>> \in Seq(K)
  BY <1>1
<1>3. Runes(p) \in Seq(K)
  BY <1>2, Zenon DEF Runes
<1> QED BY <1>3 DEF K

LEMMA MeansType ==
  ASSUME UserType, NEW p \in Presses
  PROVE  Means(p) \in Line
<1>1. meant \in Line /\ p \in Text \cup Ignored \cup Editing
  BY TerminalAssumption DEF UserType
<1>2. /\ Append(meant, Space) \in Line /\ SubSeq(meant, 1, Len(meant) - 1) \in Line /\ <<>> \in Line
      /\ meant \o <<"/", Space>> \in Line
  <2>1. Space \in Text /\ "/" \in Text
    BY DEF Text
  <2> QED BY <1>1, <2>1 DEF Line
<1>3. WithoutLastWord(meant) \in Line
  <2>1. PICK n \in 0 .. Len(meant) : WithoutLastWord(meant) = SubSeq(meant, 1, n)
    BY <1>1, LastWord
  <2> QED BY <1>1, <2>1 DEF Line
<1>4. p \in Text => Append(meant, p) \in Line
  BY <1>1 DEF Line
<1>5. p \in Text \/ p \in Ignored \/ p \in {"tab", "backspace", "ctrl-u", "ctrl-w", "command"}
  BY <1>1 DEF Editing
<1>6. CASE p \in Text
  <2>1. p \notin {"tab", "backspace", "ctrl-u", "ctrl-w", "command"}
    BY <1>6 DEF Text, Space, Backslash, SingleQuote, DoubleQuote
  <2>2. Means(p) = meant \/ Means(p) = Append(meant, p)
    BY <2>1, Zenon DEF Means
  <2> QED BY <1>1, <1>4, <1>6, <2>2
<1>7. CASE p \in Ignored
  <2>1. p \notin {"tab", "backspace", "ctrl-u", "ctrl-w", "command"}
    BY <1>7 DEF Ignored
  <2>2. Means(p) = meant
    BY <1>7, <2>1, Zenon DEF Means
  <2> QED BY <1>1, <2>2
<1>8. CASE p \in {"tab", "backspace", "ctrl-u", "ctrl-w", "command"}
  <2>1. p \notin Ignored
    BY <1>8 DEF Ignored
  <2>2. Means(p) \in {Append(meant, Space), SubSeq(meant, 1, Len(meant) - 1), <<>>, WithoutLastWord(meant),
                      meant \o <<"/", Space>>}
    BY <1>8, <2>1 DEF Means
  <2> QED BY <1>2, <1>3, <2>2
<1> QED BY <1>5, <1>6, <1>7, <1>8

LEMMA PressStep ==
  ASSUME UserType, NEW p \in Presses, Press(p)
  PROVE  UserType'
<1>1. keys' \in Seq(Text \cup Presses \cup {"esc"})
  BY RunesType DEF Press
<1>2. meant' \in Line
  BY MeansType DEF Press
<1>3. pressed' \in 0 .. MaxPresses
  BY TerminalAssumption DEF Press, Counted, UserType
<1>4. tidy' \in BOOLEAN /\ files' \in Seq(Line)
  BY DEF Press, UserType
<1> QED BY <1>1, <1>2, <1>3, <1>4 DEF UserType

\* A quoted name is text.
LEMMA QuotedType ==
  ASSUME NEW name \in Names, NEW style \in Styles
  PROVE  name \in Seq(Text) /\ name # <<>> /\ Quoted(name, style) \in Seq(Text)
<1>1. name \in Seq(Text) /\ name # <<>>
  BY TerminalAssumption
<1>2. ScansTo(<<>>, Clean(<<>>))
  <2>1. Scan(<<>>) = Clean(<<>>)
    BY ScanEmpty, Zenon DEF Clean, Start
  <2> QED BY <2>1 DEF ScansTo
<1>3. <<>> \in Seq(Text)
  OBVIOUS
<1> QED BY <1>1, <1>2, <1>3, QuotedScanned

LEMMA DragStep ==
  ASSUME UserType, NEW name \in Names, NEW style \in Styles, Drag(name, style)
  PROVE  UserType'
<1>1. name \in Line /\ Quoted(name, style) \in Seq(Text) /\ Space \in Text
  BY QuotedType DEF Line, Text
<1>2. keys' \in Line
  BY <1>1 DEF Drag, Line
<1>3. keys' \in Seq(Text \cup Presses \cup {"esc"})
  BY <1>2 DEF Line
<1>4. meant' \in Line /\ files' \in Seq(Line) /\ tidy' \in BOOLEAN
  BY <1>1, <1>2 DEF Drag, UserType, Line
<1>5. pressed' \in 0 .. MaxPresses
  BY TerminalAssumption DEF Drag, Counted, UserType
<1> QED BY <1>3, <1>4, <1>5 DEF UserType

\* A rune that ReadLine takes changes the line, the row and where ReadLine is.
Elsewhere ==
  /\ ScreenType /\ UserType /\ MarksType /\ WorkType /\ EndingType
  /\ Drawn /\ ScrapsOfMarks /\ DownloadTrue /\ Back

LEMMA ScreenParts == ScreenIInv <=> Elsewhere /\ LockType /\ EditType /\ Believed
BY DEF ScreenIInv, Elsewhere, Types

LEMMA ReadsRest ==
  ASSUME Elsewhere, NEW r, Reads(r)
  PROVE  Elsewhere'
<1>1. /\ UNCHANGED <<raw, rows, scraps, wanted>> /\ UNCHANGED marks /\ UNCHANGED <<transfer, late>>
      /\ UNCHANGED ending /\ UNCHANGED scraps /\ UNCHANGED <<status, transfer>>
      /\ UNCHANGED <<raw, leaving, gone>> /\ UNCHANGED bottom
  BY DEF Reads, marks, work, ending
<1>2. UserType'
  BY DEF Elsewhere, UserType, Reads
<1> QED BY <1>1, <1>2, SameRows, SameMarks, SameWork, SameEnding, SameRest DEF Elsewhere

\* A rune that is taken with the lock kept for the redraw.
LEMMA LockedStep ==
  ASSUME ScreenIInv, NEW r, Takes(r), mu' = "ReadLine", EditType'
  PROVE  ScreenIInv'
<1>1. Elsewhere'
  BY ReadsRest, ScreenParts DEF Takes
<1>2. LockType' /\ Believed'
  BY DEF LockType, Believed
<1> QED BY <1>1, <1>2 DEF ScreenIInv, Elsewhere, Types

\* A rune that changes nothing of what the prompt shows.
LEMMA UnshownStep ==
  ASSUME ScreenIInv, NEW r, Reads(r), UNCHANGED <<mu, input>>, EditType'
  PROVE  ScreenIInv'
<1>1. Elsewhere'
  BY ReadsRest, ScreenParts
<1>2. UNCHANGED mu /\ UNCHANGED <<mu, bottom, online, status, input>>
  BY DEF Reads, marks
<1>3. LockType' /\ Believed'
  BY <1>2, SameLock, SameRest, ScreenParts
<1> QED BY <1>1, <1>3 DEF ScreenIInv, Elsewhere, Types

LEMMA EditsStep ==
  ASSUME ScreenIInv, NEW r, NEW line \in Line, Edits(r, line)
  PROVE  ScreenIInv'
<1>1. EditType'
  BY ScreenParts DEF EditType, Edits
<1> QED BY <1>1, LockedStep DEF Edits

\* The end of each round of ReadLine.
LEMMA RoundStep ==
  ASSUME ScreenIInv, ReadLineRelocks \/ ReadLineRedraws
  PROVE  ScreenIInv'
<1>0. Elsewhere /\ EditType /\ Believed
  BY ScreenParts
<1>1. /\ UNCHANGED <<raw, rows, wanted>> /\ UNCHANGED user /\ UNCHANGED marks /\ UNCHANGED <<transfer, late>>
      /\ UNCHANGED ending /\ UNCHANGED <<status, transfer>> /\ UNCHANGED <<raw, leaving, gone>>
      /\ UNCHANGED <<input, main, args>>
  BY DEF ReadLineRelocks, ReadLineRedraws, edit, marks, work, ending
<1>2. UserType' /\ MarksType' /\ WorkType' /\ EndingType' /\ DownloadTrue' /\ Back'
  BY <1>0, <1>1, SameUser, SameMarks, SameWork, SameEnding, SameRest DEF Elsewhere
<1>3. LockType' /\ EditType'
  BY <1>0, <1>1 DEF ReadLineRelocks, ReadLineRedraws, edit, LockType, EditType
<1>4. ScreenType' /\ Drawn' /\ Believed' /\ ScrapsOfMarks'
  <2>1. CASE ReadLineRelocks
    <3>1. UNCHANGED bottom /\ UNCHANGED scraps /\ mu' = "ReadLine" /\ UNCHANGED <<raw, rows, scraps, wanted>>
      BY <1>1, <2>1 DEF ReadLineRelocks
    <3>2. Believed'
      BY <3>1 DEF Believed
    <3> QED BY <1>0, <3>1, <3>2, SameRows, SameRest DEF Elsewhere
  <2>2. CASE ReadLineRedraws
    <3>1. ClearsRow /\ Draws
      BY <2>2 DEF ReadLineRedraws, Redraw
    <3>2. Drawn' /\ Believed'
      BY <1>2, <1>3, <3>1, DrawsStep DEF EditType
    <3>3. scraps' \subseteq Scraps /\ ScrapsOfMarks'
      BY <1>0, <3>1, ClearsStep DEF Elsewhere, ScreenType
    <3> QED BY <1>0, <1>1, <3>2, <3>3 DEF Elsewhere, ScreenType
  <2> QED BY <2>1, <2>2
<1> QED BY <1>2, <1>3, <1>4 DEF ScreenIInv, Types

LEMMA ReadLineStep ==
  ASSUME ScreenIInv, ReadLine
  PROVE  ScreenIInv'
<1>1. input \in Line /\ EditType
  BY ScreenParts DEF EditType
<1>2. ASSUME NEW r \in Text, ReadText(r) PROVE ScreenIInv'
  <2>1. Append(input, r) \in Line
    BY <1>1 DEF Line
  <2> QED BY <1>2, <2>1, EditsStep DEF ReadText
<1>3. ASSUME NEW r \in Text, SkipsOne(r) PROVE ScreenIInv'
  <2>1. Reads(r) /\ UNCHANGED <<mu, input>>
    BY <1>3 DEF SkipsOne
  <2>2. UNCHANGED <<input, main, args>> /\ esc' \in {"no", "first", "rest", "done"}
    BY <1>1, <1>3 DEF SkipsOne, EditType
  <2>3. EditType'
    BY <1>1, <2>2 DEF EditType
  <2> QED BY <2>1, <2>3, UnshownStep
<1>4. CASE ReadTab
  <2>1. Append(input, TypedTab) \in Line
    BY <1>1 DEF Line, TypedTab, Text
  <2> QED BY <1>4, <2>1, EditsStep DEF ReadTab
<1>5. CASE ReadBackspace
  <2>1. SubSeq(input, 1, Len(input) - 1) \in Line
    BY <1>1 DEF Line
  <2> QED BY <1>5, <2>1, EditsStep DEF ReadBackspace
<1>6. CASE ReadCtrlU
  <2>1. <<>> \in Line
    BY DEF Line
  <2> QED BY <1>6, <2>1, EditsStep DEF ReadCtrlU
<1>7. CASE ReadCtrlW
  <2>1. PICK n \in 0 .. Len(input) : EraseWord(input) = SubSeq(input, 1, n)
    BY <1>1, LastWord
  <2>2. EraseWord(input) \in Line
    BY <1>1, <2>1 DEF Line
  <2> QED BY <1>7, <2>2, EditsStep DEF ReadCtrlW
<1>8. CASE ReadEnter
  <2>1. Takes("enter") /\ mu' = "ReadLine"
    BY <1>8 DEF ReadEnter
  <2>2. Trimmed(input) \in Line
    BY <1>1, TrimmedType
  <2>3. splitArgs(Trimmed(input)) \in Seq(Line)
    BY <2>2, SplitType DEF Line
  <2>4. EditType'
    BY <1>1, <1>8, <2>3 DEF EditType, ReadEnter, Line
  <2> QED BY <2>1, <2>4, LockedStep
<1>9. ASSUME NEW r, Quits(r) PROVE ScreenIInv'
  <2>1. Reads(r) /\ UNCHANGED <<mu, input>>
    BY <1>9 DEF Quits, LineKept, Takes
  <2>2. EditType'
    BY <1>1, <1>9 DEF EditType, Quits, LineKept
  <2> QED BY <2>1, <2>2, UnshownStep
<1>10. CASE ReadCtrlD
  <2>1. CASE Quits("ctrl-d")
    BY <1>9, <2>1
  <2>2. CASE Edits("ctrl-d", input)
    BY <1>1, <2>2, EditsStep
  <2> QED BY <1>10, <2>1, <2>2 DEF ReadCtrlD
<1>11. CASE ReadEscape
  <2>1. Reads("esc") /\ UNCHANGED <<mu, input>>
    BY <1>11 DEF ReadEscape, Takes, InEscape
  <2>2. EditType'
    BY <1>1, <1>11 DEF EditType, ReadEscape
  <2> QED BY <2>1, <2>2, UnshownStep
<1>12. CASE ReadLineRelocks \/ ReadLineRedraws
  BY <1>12, RoundStep
<1> QED BY <1>2, <1>3, <1>4, <1>5, <1>6, <1>7, <1>8, <1>9, <1>10, <1>11, <1>12 DEF ReadLine, ReadCtrlC

LEMMA CommandDoneStep ==
  ASSUME ScreenIInv, CommandDone
  PROVE  ScreenIInv'
<1>1. UserType'
  <2>1. UserType /\ UNCHANGED keys
    BY DEF ScreenIInv, Types, CommandDone
  <2>2. meant' \in Line /\ files' \in Seq(Line)
    BY DEF CommandDone, Line
  <2>3. pressed' \in 0 .. MaxPresses
    BY TerminalAssumption DEF CommandDone
  <2>4. tidy' \in BOOLEAN
    BY Zenon DEF CommandDone
  <2> QED BY <2>1, <2>2, <2>3, <2>4 DEF UserType
<1>2. EditType'
  BY DEF ScreenIInv, Types, EditType, CommandDone
<1>3. /\ UNCHANGED <<raw, rows, scraps, wanted>> /\ UNCHANGED marks /\ UNCHANGED <<transfer, late>>
      /\ UNCHANGED ending /\ UNCHANGED scraps /\ UNCHANGED <<status, transfer>>
      /\ UNCHANGED <<raw, leaving, gone>>
      /\ UNCHANGED <<mu, bottom, online, status, input>> /\ UNCHANGED bottom /\ UNCHANGED mu
  BY DEF CommandDone, screen, marks, work, ending
<1> QED BY <1>1, <1>2, <1>3, SameRows, SameLock, SameMarks, SameWork, SameEnding, SameRest DEF ScreenIInv, Types

LEMMA UserStep ==
  ASSUME ScreenIInv, User
  PROVE  ScreenIInv'
<1>1. UserType'
  <2>1. ASSUME NEW p \in Presses, Press(p) PROVE UserType'
    BY <2>1, PressStep DEF ScreenIInv, Types
  <2>2. ASSUME NEW name \in Names, NEW style \in Styles, Drag(name, style) PROVE UserType'
    BY <2>2, DragStep DEF ScreenIInv, Types
  <2> QED BY <2>1, <2>2 DEF User
<1>2. UNCHANGED <<screen, edit, marks, work, ending>>
  BY DEF User, Press, Drag
<1>3. /\ UNCHANGED <<raw, rows, scraps, wanted>> /\ UNCHANGED marks /\ UNCHANGED <<transfer, late>>
      /\ UNCHANGED ending /\ UNCHANGED scraps /\ UNCHANGED <<status, transfer>> /\ UNCHANGED edit
      /\ UNCHANGED <<raw, leaving, gone>>
      /\ UNCHANGED <<mu, bottom, online, status, input>> /\ UNCHANGED bottom /\ UNCHANGED mu
  BY <1>2 DEF screen, edit, marks, work, ending
<1> QED BY <1>1, <1>3, SameRows, SameLock, SameEdit, SameMarks, SameWork, SameEnding, SameRest DEF ScreenIInv, Types

LEMMA WantsStep ==
  ASSUME ScreenIInv, Wants
  PROVE  ScreenIInv'
<1>1. ScreenType'
  BY TerminalAssumption DEF ScreenIInv, Types, ScreenType, Wants, screen
<1>2. /\ UNCHANGED user /\ UNCHANGED edit /\ UNCHANGED marks /\ UNCHANGED <<transfer, late>>
      /\ UNCHANGED ending /\ UNCHANGED scraps /\ UNCHANGED <<status, transfer>>
      /\ UNCHANGED <<raw, leaving, gone>>
      /\ UNCHANGED <<mu, bottom, online, status, input>> /\ UNCHANGED bottom /\ UNCHANGED mu
  BY DEF Wants, screen, edit, marks, ending
<1> QED BY <1>1, <1>2, SameLock, SameUser, SameEdit, SameMarks, SameWork, SameEnding, SameRest
        DEF ScreenIInv, Types

LEMMA PrintStep ==
  ASSUME ScreenIInv, PrintBlock \/ PrintRedraws
  PROVE  ScreenIInv'
<1>0. ScreenType /\ UserType /\ EditType /\ MarksType /\ WorkType /\ EndingType /\ Drawn /\ ScrapsOfMarks
      /\ DownloadTrue /\ Back
  BY DEF ScreenIInv, Types
<1>1. /\ UNCHANGED user /\ UNCHANGED edit /\ UNCHANGED marks /\ UNCHANGED <<transfer, late>>
      /\ UNCHANGED <<raw, wanted>> /\ UNCHANGED ending /\ UNCHANGED <<status, transfer>> /\ UNCHANGED <<raw, leaving, gone>>
  BY DEF PrintBlock, PrintRedraws, marks, work, ending
<1>2. UserType' /\ EditType' /\ MarksType' /\ WorkType' /\ EndingType' /\ DownloadTrue' /\ Back'
  BY <1>0, <1>1, SameUser, SameEdit, SameMarks, SameWork, SameEnding, SameRest
<1>3. CASE PrintBlock
  <2>1. ClearsRow /\ mu' = "Print" /\ UNCHANGED bottom /\ rows' = rows + 1 /\ rows < wanted
    BY <1>3 DEF PrintBlock
  <2>2. scraps' \subseteq Scraps /\ ScrapsOfMarks'
    BY <1>0, <2>1, ClearsStep DEF ScreenType
  <2>3. ScreenType'
    <3>1. rows' \in 0 .. wanted'
      BY <1>0, <1>1, <2>1, TerminalAssumption DEF ScreenType
    <3> QED BY <1>0, <1>1, <2>2, <3>1 DEF ScreenType
  <2>4. LockType' /\ Believed' /\ Drawn'
    BY <1>0, <2>1, SameRest DEF LockType, Believed
  <2> QED BY <1>2, <2>2, <2>3, <2>4 DEF ScreenIInv, Types
<1>4. CASE PrintRedraws
  <2>1. Draws /\ mu' = "free" /\ UNCHANGED <<raw, rows, scraps, wanted>> /\ UNCHANGED scraps
    BY <1>1, <1>4 DEF PrintRedraws
  <2>2. Drawn' /\ Believed'
    BY <1>2, <2>1, DrawsStep DEF EditType
  <2>3. ScreenType' /\ LockType' /\ ScrapsOfMarks'
    BY <1>0, <2>1, SameRows, SameRest DEF LockType
  <2> QED BY <1>2, <2>2, <2>3 DEF ScreenIInv, Types
<1> QED BY <1>3, <1>4

LEMMA ShowsStep ==
  ASSUME ScreenIInv, Shows, MarksType', WorkType', DownloadTrue'
  PROVE  ScreenIInv'
<1>0. ScreenType /\ LockType /\ UserType /\ EditType /\ EndingType /\ Drawn /\ ScrapsOfMarks /\ Back
  BY DEF ScreenIInv, Types
<1>1. /\ UNCHANGED user /\ UNCHANGED edit /\ UNCHANGED <<raw, rows, wanted>>
      /\ UNCHANGED ending /\ UNCHANGED mu /\ UNCHANGED <<raw, leaving, gone>>
  BY DEF Shows, ending
<1>2. UserType' /\ EditType' /\ EndingType' /\ LockType' /\ Back'
  BY <1>0, <1>1, SameUser, SameEdit, SameEnding, SameLock, SameRest
<1>3. ClearsRow /\ Draws
  BY DEF Shows, Redraw
<1>4. Drawn' /\ Believed'
  BY <1>2, <1>3, DrawsStep DEF EditType
<1>5. scraps' \subseteq Scraps /\ ScrapsOfMarks'
  BY <1>0, <1>3, ClearsStep DEF ScreenType
<1>6. ScreenType'
  BY <1>0, <1>1, <1>5 DEF ScreenType
<1> QED BY <1>2, <1>4, <1>5, <1>6 DEF ScreenIInv, Types

LEMMA MarkingStep ==
  ASSUME ScreenIInv, (\E b \in BOOLEAN : SetOnline(b)) \/ Transfers
  PROVE  ScreenIInv'
<1>1. MarksType /\ WorkType /\ DownloadTrue
  BY DEF ScreenIInv, Types
<1>2. ASSUME NEW b \in BOOLEAN, SetOnline(b) PROVE ScreenIInv'
  <2>1. MarksType' /\ WorkType' /\ DownloadTrue' /\ Shows
    BY <1>1, <1>2 DEF SetOnline, MarksType, WorkType, DownloadTrue
  <2> QED BY <2>1, ShowsStep
<1>3. ASSUME NEW k \in Loops, Begins(k) PROVE ScreenIInv'
  <2>1. WorkType' /\ DownloadTrue'
    BY <1>1, <1>3 DEF Begins, WorkType, DownloadTrue, marks
  <2>2. /\ UNCHANGED <<raw, rows, scraps, wanted>> /\ UNCHANGED user /\ UNCHANGED edit /\ UNCHANGED marks
        /\ UNCHANGED ending /\ UNCHANGED scraps
        /\ UNCHANGED <<raw, leaving, gone>>
        /\ UNCHANGED <<mu, bottom, online, status, input>> /\ UNCHANGED bottom /\ UNCHANGED mu
    BY <1>3 DEF Begins, screen, edit, marks, ending
  <2> QED BY <2>1, <2>2, SameRows, SameLock, SameUser, SameEdit, SameMarks, SameEnding, SameRest DEF ScreenIInv, Types
<1>4. ASSUME NEW k \in Loops, Finishes(k) PROVE ScreenIInv'
  <2>1. MarksType' /\ WorkType' /\ Shows
    BY <1>1, <1>4 DEF Finishes, SetStatus, StillShown, MarksType, WorkType
  <2>2. DownloadTrue'
    BY <1>1, <1>4 DEF Finishes, SetStatus, StillShown, DownloadTrue, WorkType, MarksType, Loops
  <2> QED BY <2>1, <2>2, ShowsStep
<1>5. CASE DownloadReports
  <2>1. MarksType' /\ WorkType' /\ DownloadTrue' /\ Shows
    BY <1>1, <1>5 DEF DownloadReports, SetStatus, MarksType, WorkType, DownloadTrue, Loops
  <2> QED BY <2>1, ShowsStep
<1>6. CASE TransportReads
  <2>1. WorkType'
    BY <1>1, <1>6 DEF TransportReads, WorkType
  <2>2. /\ UNCHANGED <<raw, rows, scraps, wanted>> /\ UNCHANGED user /\ UNCHANGED edit /\ UNCHANGED marks
        /\ UNCHANGED ending /\ UNCHANGED scraps /\ UNCHANGED <<status, transfer>>
        /\ UNCHANGED <<raw, leaving, gone>>
        /\ UNCHANGED <<mu, bottom, online, status, input>> /\ UNCHANGED bottom /\ UNCHANGED mu
    BY <1>6 DEF TransportReads, screen, edit, marks, ending
  <2> QED BY <2>1, <2>2, SameRows, SameLock, SameUser, SameEdit, SameMarks, SameEnding, SameRest DEF ScreenIInv, Types
<1>7. CASE UploadReports
  <2>1. MarksType' /\ WorkType' /\ DownloadTrue' /\ Shows
    BY <1>1, <1>7 DEF UploadReports, SetStatus, MarksType, WorkType, DownloadTrue, Loops
  <2> QED BY <2>1, ShowsStep
<1> QED BY <1>2, <1>3, <1>4, <1>5, <1>6, <1>7 DEF Transfers

LEMMA ShutdownStep ==
  ASSUME ScreenIInv, NEW w \in Ways, Shutdown(w)
  PROVE  ScreenIInv'
<1>1. /\ UNCHANGED user /\ UNCHANGED edit /\ UNCHANGED marks /\ UNCHANGED <<transfer, late>>
      /\ UNCHANGED scraps /\ UNCHANGED <<status, transfer>>
      /\ UNCHANGED <<mu, bottom, online, status, input>> /\ UNCHANGED bottom /\ UNCHANGED mu
      /\ UNCHANGED wanted
  BY DEF Shutdown, Restores, Exits, screen, edit, marks, work
<1>2. ScreenType' /\ EndingType' /\ Back'
  <2>0. ScreenType /\ EndingType /\ Back
    BY DEF ScreenIInv, Types
  <2>1. CASE Restores(w)
    BY <1>1, <2>0, <2>1 DEF Restores, RawAfter, ScreenType, EndingType, Back
  <2>2. CASE Exits(w)
    BY <1>1, <2>0, <2>2 DEF Exits, screen, ScreenType, EndingType, Back
  <2> QED BY <2>1, <2>2 DEF Shutdown
<1> QED BY <1>1, <1>2, SameLock, SameUser, SameEdit, SameMarks, SameWork, SameRest DEF ScreenIInv, Types

LEMMA ScreenNext == ScreenIInv /\ [Next]_vars => ScreenIInv'
<1> SUFFICES ASSUME ScreenIInv, [Next]_vars PROVE ScreenIInv'
  OBVIOUS
<1>1. CASE UNCHANGED vars
  BY <1>1, SameRows, SameLock, SameUser, SameEdit, SameMarks, SameWork, SameEnding, SameRest
     DEF vars, screen, edit, marks, work, ending, ScreenIInv, Types
<1>2. CASE Next
  BY <1>2, UserStep, ReadLineStep, CommandDoneStep, WantsStep, PrintStep, MarkingStep, ShutdownStep DEF Next
<1> QED BY <1>1, <1>2

\* Whenever nobody is writing the bottom row says what is true and as much of the
\* line as fits, only prompts whose marks alone fill the terminal leave rows behind
\* when the next is drawn, the download shown is one that runs, and the terminal
\* is given back before the process ends (redraw, Print, SetStatus and the two
\* shutdowns).
THEOREM ScreenHolds == Spec => []ScreenInv
<1>1. Spec => []ScreenIInv
  BY ScreenStart, ScreenNext, PTL DEF Spec
<1> QED BY <1>1, ScreenFollows, PTL

-------------------------------------------------------------------------------
(* The line is what the user means it to be. *)

\* Where ReadLine is in the runes of a cursor or function key, and what is left.
MidKey == {<<"no", <<"esc", "[", "3", "~">>>>, <<"first", <<"[", "3", "~">>>>,
           <<"rest", <<"3", "~">>>>, <<"rest", <<"~">>>>,
           <<"no", <<"esc", "O", "P">>>>, <<"first", <<"O", "P">>>>, <<"rest", <<"P">>>>,
           <<"no", <<"esc", "a">>>>, <<"first", <<"a">>>>}

Controls == {"tab", "backspace", "ctrl-u", "ctrl-w", "enter", "ctrl-c", "ctrl-d"}

\* What a control key does to a line.
Effect(p, line) ==
  CASE p = "tab"       -> Append(line, Space)
    [] p = "backspace" -> SubSeq(line, 1, Len(line) - 1)
    [] p = "ctrl-u"    -> <<>>
    [] p = "ctrl-w"    -> WithoutLastWord(line)
    [] OTHER           -> line

\* The runes left are text that is still missing from the line, a control key
\* that has not had its effect, or the rest of a key that has none.
InText(e, k, m, line)  == e = "no" /\ k \in Seq(Text) /\ m = line \o k
InControl(e, k, m, line) == e = "no" /\ \E p \in Controls : k = <<p>> /\ m = Effect(p, line)
InKey(e, k, m, line)   == m = line /\ <<e, k>> \in MidKey
AfterKey(e, k, m, line) == e = "done" /\ k = <<>> /\ m = line
Pending(e, k, m, line) ==
  InText(e, k, m, line) \/ InControl(e, k, m, line) \/ InKey(e, k, m, line) \/ AfterKey(e, k, m, line)

LineInv ==
  /\ main = "command" => keys = <<>> /\ esc = "no" /\ input = <<>>
  /\ main # "command" => Pending(esc, keys, meant, input)
  /\ main = "leaving" => keys = <<>>

LEMMA Tails ==
  ASSUME NEW a, NEW b, NEW c, NEW d
  PROVE  /\ Tail(<<a>>) = <<>> /\ Tail(<<a, b>>) = <<b>> /\ Tail(<<a, b, c>>) = <<b, c>>
         /\ Tail(<<a, b, c, d>>) = <<b, c, d>>
OBVIOUS

LEMMA Heads ==
  ASSUME NEW a, NEW b, NEW c, NEW d
  PROVE  /\ Head(<<a>>) = a /\ Head(<<a, b>>) = a /\ Head(<<a, b, c>>) = a /\ Head(<<a, b, c, d>>) = a
OBVIOUS

\* The runes of each key end where skipEscape stops.
SkipsOn(e, k) ==
  /\ k # <<>>
  /\ e = "no" => Head(k) = "esc" /\ <<"first", Tail(k)>> \in MidKey
  /\ e = "first" /\ Head(k) \in {"[", "O"} => <<"rest", Tail(k)>> \in MidKey
  /\ e = "first" /\ Head(k) \notin {"[", "O"} => Tail(k) = <<>>
  /\ e = "rest" /\ Head(k) \in Finals => Tail(k) = <<>>
  /\ e = "rest" /\ Head(k) \notin Finals => <<"rest", Tail(k)>> \in MidKey

LEMMA MidKeySkips ==
  ASSUME NEW e, NEW k, <<e, k>> \in MidKey
  PROVE  SkipsOn(e, k)
<1>1. CASE e = "no" /\ k = <<"esc", "[", "3", "~">>
  BY <1>1, Tails, Heads DEF SkipsOn, MidKey
<1>2. CASE e = "first" /\ k = <<"[", "3", "~">>
  BY <1>2, Tails, Heads DEF SkipsOn, MidKey
<1>3. CASE e = "rest" /\ k = <<"3", "~">>
  BY <1>3, Tails, Heads DEF SkipsOn, MidKey, Finals, Backslash
<1>4. CASE e = "rest" /\ k = <<"~">>
  BY <1>4, Tails, Heads DEF SkipsOn, MidKey, Finals
<1>5. CASE e = "no" /\ k = <<"esc", "O", "P">>
  BY <1>5, Tails, Heads DEF SkipsOn, MidKey
<1>6. CASE e = "first" /\ k = <<"O", "P">>
  BY <1>6, Tails, Heads DEF SkipsOn, MidKey
<1>7. CASE e = "rest" /\ k = <<"P">>
  BY <1>7, Tails, Heads DEF SkipsOn, MidKey, Finals
<1>8. CASE e = "no" /\ k = <<"esc", "a">>
  BY <1>8, Tails, Heads DEF SkipsOn, MidKey
<1>9. CASE e = "first" /\ k = <<"a">>
  BY <1>9, Tails, Heads DEF SkipsOn, MidKey
<1> QED BY <1>1, <1>2, <1>3, <1>4, <1>5, <1>6, <1>7, <1>8, <1>9 DEF MidKey

LEMMA ControlsAreNotText == \A p \in Controls \cup {"esc"} : p \notin Text
BY DEF Controls, Text, Space, Backslash, SingleQuote, DoubleQuote

LEMMA HeadTail ==
  ASSUME NEW s \in Line, NEW k \in Seq(Text), k # <<>>
  PROVE  Head(k) \in Text /\ Tail(k) \in Seq(Text) /\ s \o k = Append(s, Head(k)) \o Tail(k)
<1>1. Head(k) \in Text /\ Tail(k) \in Seq(Text) /\ Len(Tail(k)) = Len(k) - 1 /\ Len(k) \in Nat \ {0}
  OBVIOUS
<1> DEFINE u == s \o k
           v == Append(s, Head(k)) \o Tail(k)
<1>2. u \in Seq(Text) /\ v \in Seq(Text) /\ Len(u) = Len(s) + Len(k) /\ Len(v) = Len(s) + Len(k)
  BY <1>1 DEF Line
<1>3. \A i \in 1 .. Len(u) : u[i] = v[i]
  BY <1>1, <1>2 DEF Line
<1> HIDE DEF u, v
<1>4. u = v
  BY <1>2, <1>3, SeqEqual
<1> QED BY <1>1, <1>4 DEF u, v

\* Nothing is left of a key: the line is what is meant.
LEMMA NothingLeft ==
  ASSUME NEW e, NEW k, NEW m, NEW line \in Line, Pending(e, k, m, line), k = <<>>
  PROVE  e \in {"no", "done"} /\ m = line
<1>1. line \o <<>> = line
  BY DEF Line
<1>2. ~ InKey(e, k, m, line)
  BY MidKeySkips DEF InKey, SkipsOn
<1>3. ~ InControl(e, k, m, line)
  BY DEF InControl
<1> QED BY <1>1, <1>2, <1>3 DEF Pending, InText, AfterKey

LEMMA NothingPending ==
  ASSUME NEW line \in Line
  PROVE  Pending("no", <<>>, line, line)
<1>1. line \o <<>> = line /\ <<>> \in Seq(Text)
  BY DEF Line
<1> QED BY <1>1 DEF Pending, InText

\* What is pending when ReadLine takes a rune outside a key's sequence.
TakenOf(k, m, line) ==
  /\ Head(k) \in Text => Tail(k) \in Seq(Text) /\ m = Append(line, Head(k)) \o Tail(k)
  /\ Head(k) \in Controls => Tail(k) = <<>> /\ m = Effect(Head(k), line)
  /\ Head(k) = "esc" => m = line /\ <<"first", Tail(k)>> \in MidKey

LEMMA PendingCases ==
  ASSUME NEW k, NEW m, NEW line \in Line, k # <<>>, Pending("no", k, m, line)
  PROVE  TakenOf(k, m, line)
<1>1. CASE InText("no", k, m, line)
  <2>1. k \in Seq(Text) /\ m = line \o k
    BY <1>1 DEF InText
  <2>2. Head(k) \in Text /\ Tail(k) \in Seq(Text) /\ m = Append(line, Head(k)) \o Tail(k)
    BY <2>1, HeadTail
  <2> QED BY <2>2, ControlsAreNotText DEF TakenOf
<1>2. CASE InControl("no", k, m, line)
  <2>1. PICK p \in Controls : k = <<p>> /\ m = Effect(p, line)
    BY <1>2 DEF InControl
  <2>2. Head(k) = p /\ Tail(k) = <<>> /\ p \notin Text /\ p # "esc"
    BY <2>1, Heads, Tails, ControlsAreNotText DEF Controls
  <2> QED BY <2>1, <2>2 DEF TakenOf
<1>3. CASE InKey("no", k, m, line)
  <2>1. m = line /\ SkipsOn("no", k)
    BY <1>3, MidKeySkips DEF InKey
  <2>2. Head(k) = "esc" /\ "esc" \notin Text /\ "esc" \notin Controls
    BY <2>1, ControlsAreNotText DEF SkipsOn, Controls
  <2> QED BY <2>1, <2>2 DEF SkipsOn, TakenOf
<1> QED BY <1>1, <1>2, <1>3 DEF Pending, AfterKey

LEMMA LineStart == Init => LineInv
<1> SUFFICES ASSUME Init PROVE LineInv
  OBVIOUS
<1>1. keys = <<>> /\ meant = <<>> /\ input = <<>> /\ esc = "no" /\ main = "reading"
  BY DEF Init
<1>2. <<>> \in Line
  BY DEF Line
<1>3. Pending("no", <<>>, <<>>, <<>>)
  BY <1>2, NothingPending
<1> QED BY <1>1, <1>3 DEF LineInv

LEMMA SameLine == LineInv /\ UNCHANGED <<keys, meant, input, esc, main>> => LineInv'
BY DEF LineInv

\* A key is pressed when nothing is left of the one before.
LEMMA WhenPressed ==
  ASSUME LineInv, Types, CanPress
  PROVE  main = "reading" /\ esc = "no" /\ meant = input /\ input \in Line
<1>1. main = "reading" /\ keys = <<>> /\ esc = "no" /\ input \in Line /\ Pending(esc, keys, meant, input)
  BY DEF CanPress, LineInv, Types, EditType
<1> QED BY <1>1, NothingLeft

\* What each key sends, and means to do to the line.
LEMMA KeyPends ==
  ASSUME NEW p \in Presses, meant \in Line
  PROVE  Pending("no", Runes(p), Means(p), meant)
<1>1. \/ p \in Text \/ p \in {"delete", "f1", "alt-a"} \/ p \in {"ctrl-c", "ctrl-d", "enter"}
      \/ p \in {"tab", "backspace", "ctrl-u", "ctrl-w"} \/ p = "command"
  BY TerminalAssumption DEF Ignored, Editing
<1>2. CASE p \in Text
  <2>1. p \notin {"delete", "f1", "alt-a", "command"} /\ p \notin Ignored
        /\ p \notin {"tab", "backspace", "ctrl-u", "ctrl-w", "command"}
    BY <1>2 DEF Text, Ignored, Space, Backslash, SingleQuote, DoubleQuote
  <2>2. Runes(p) = <<p>>
    BY <2>1, Zenon DEF Runes
  <2>3. Means(p) = Append(meant, p)
    BY <2>1, Zenon DEF Means
  <2>4. Append(meant, p) = meant \o <<p>> /\ <<p>> \in Seq(Text)
    BY <1>2, OneMore DEF Line
  <2> QED BY <2>2, <2>3, <2>4 DEF Pending, InText
<1>3. CASE p \in {"delete", "f1", "alt-a"}
  <2>1. p \in Ignored /\ p \notin {"tab", "backspace", "ctrl-u", "ctrl-w", "command"}
    BY <1>3 DEF Ignored
  <2>2. Means(p) = meant
    BY <2>1, Zenon DEF Means
  <2>3. <<"no", Runes(p)>> \in MidKey
    BY <1>3 DEF Runes, MidKey
  <2> QED BY <2>2, <2>3 DEF Pending, InKey
<1>4. CASE p \in {"ctrl-c", "ctrl-d", "enter"}
  <2>1. p \in Ignored /\ p \notin {"tab", "backspace", "ctrl-u", "ctrl-w", "command"}
        /\ p \notin {"delete", "f1", "alt-a", "command"} /\ p \in Controls
    BY <1>4 DEF Ignored, Controls
  <2>2. Means(p) = meant /\ Effect(p, meant) = meant
    BY <2>1, Zenon DEF Means, Effect
  <2>3. Runes(p) = <<p>>
    BY <2>1, Zenon DEF Runes
  <2> QED BY <2>1, <2>2, <2>3 DEF Pending, InControl
<1>5. CASE p \in {"tab", "backspace", "ctrl-u", "ctrl-w"}
  <2>1. p \notin Ignored /\ p \notin {"delete", "f1", "alt-a", "command"} /\ p \in Controls
    BY <1>5 DEF Ignored, Controls
  <2>2. Means(p) = Effect(p, meant)
    BY <1>5, <2>1 DEF Means, Effect
  <2>3. Runes(p) = <<p>>
    BY <2>1, Zenon DEF Runes
  <2> QED BY <2>1, <2>2, <2>3 DEF Pending, InControl
<1>6. CASE p = "command"
  <2>1. Runes(p) = <<"/", Space>>
    BY <1>6 DEF Runes
  <2>2. Means(p) = meant \o <<"/", Space>>
    BY <1>6 DEF Means, Ignored
  <2>3. "/" \in Text /\ Space \in Text
    BY DEF Text
  <2>4. <<"/", Space>> \in Seq(Text)
    BY <2>3
  <2> QED BY <2>1, <2>2, <2>4 DEF Pending, InText
<1> QED BY <1>1, <1>2, <1>3, <1>4, <1>5, <1>6

LEMMA LineUserStep ==
  ASSUME LineInv, Types, User
  PROVE  LineInv'
<1>1. ASSUME NEW p \in Presses, Press(p) PROVE LineInv'
  <2>1. main = "reading" /\ esc = "no" /\ meant = input /\ input \in Line
    BY <1>1, WhenPressed DEF Press
  <2>2. UNCHANGED <<input, esc, main>> /\ keys' = Runes(p) /\ meant' = Means(p)
    BY <1>1 DEF Press, edit
  <2>3. Pending("no", Runes(p), Means(p), meant)
    BY <2>1, KeyPends
  <2>4. Pending(esc', keys', meant', input')
    BY <2>1, <2>2, <2>3, Zenon
  <2> QED BY <2>1, <2>2, <2>4 DEF LineInv
<1>2. ASSUME NEW name \in Names, NEW style \in Styles, Drag(name, style) PROVE LineInv'
  <2>1. main = "reading" /\ esc = "no" /\ meant = input /\ input \in Line
    BY <1>2, WhenPressed DEF Drag
  <2>2. UNCHANGED <<input, esc, main>> /\ keys' = Append(Quoted(name, style), Space) /\ meant' = meant \o keys'
    BY <1>2 DEF Drag, edit
  <2>3. keys' \in Seq(Text)
    <3>1. Quoted(name, style) \in Seq(Text) /\ Space \in Text
      BY QuotedType DEF Text
    <3> QED BY <2>2, <3>1
  <2>4. Pending(esc', keys', meant', input')
    BY <2>1, <2>2, <2>3 DEF Pending, InText
  <2> QED BY <2>1, <2>2, <2>4 DEF LineInv
<1> QED BY <1>1, <1>2 DEF User

\* What is pending when a rune is read.
LEMMA WhenRead ==
  ASSUME LineInv, Types, NEW r, Reads(r)
  PROVE  /\ main = "reading" /\ input \in Line /\ keys # <<>> /\ r = Head(keys) /\ keys' = Tail(keys)
         /\ meant' = meant /\ Pending(esc, keys, meant, input)
BY DEF LineInv, Types, EditType, Reads

LEMMA WhenTaken ==
  ASSUME LineInv, Types, NEW r, esc = "no", Reads(r)
  PROVE  /\ main = "reading"
         /\ r \in Text => keys' \in Seq(Text) /\ meant' = Append(input, r) \o keys'
         /\ r \in Controls => keys' = <<>> /\ meant' = Effect(r, input)
         /\ r = "esc" => meant' = input /\ <<"first", keys'>> \in MidKey
<1>1. /\ main = "reading" /\ input \in Line /\ keys # <<>> /\ r = Head(keys) /\ keys' = Tail(keys)
      /\ meant' = meant /\ Pending("no", keys, meant, input)
  BY WhenRead
<1>2. TakenOf(keys, meant, input)
  BY <1>1, PendingCases
<1> QED BY <1>1, <1>2 DEF TakenOf

LEMMA LineReadStep ==
  ASSUME LineInv, Types, ReadLine
  PROVE  LineInv'
<1>1. ASSUME NEW r \in Text, ReadText(r) PROVE LineInv'
  <2>1. /\ esc = "no" /\ Reads(r) /\ input' = Append(input, r) /\ UNCHANGED <<esc, main>>
    BY <1>1 DEF ReadText, Edits, Takes
  <2>2. main = "reading" /\ keys' \in Seq(Text) /\ meant' = input' \o keys'
    BY <2>1, WhenTaken
  <2>3. Pending(esc', keys', meant', input')
    BY <2>1, <2>2 DEF Pending, InText
  <2> QED BY <2>1, <2>2, <2>3 DEF LineInv
\* A control key has its effect.
<1>2. ASSUME NEW p \in Controls, esc = "no", Reads(p), input' = Effect(p, input), UNCHANGED esc
      PROVE  keys' = <<>> /\ meant' = input' /\ esc' = "no" /\ main = "reading"
  BY <1>2, WhenTaken
<1>3. ASSUME NEW p \in Controls, Edits(p, Effect(p, input)) PROVE LineInv'
  <2>1. esc = "no" /\ Reads(p) /\ input' = Effect(p, input) /\ UNCHANGED <<esc, main>>
    BY <1>3 DEF Edits, Takes
  <2>2. keys' = <<>> /\ meant' = input' /\ esc' = "no" /\ main' = "reading"
    BY <1>2, <2>1
  <2>3. input' \in Line
    <3>1. input \in Line
      BY DEF Types, EditType
    <3>2. PICK n \in 0 .. Len(input) : WithoutLastWord(input) = SubSeq(input, 1, n)
      BY <3>1, LastWord
    <3>3. Append(input, Space) \in Line /\ SubSeq(input, 1, Len(input) - 1) \in Line /\ <<>> \in Line
          /\ WithoutLastWord(input) \in Line
      BY <3>1, <3>2 DEF Line, Text
    <3>4. Effect(p, input) \in Line
      BY <3>1, <3>3, Zenon DEF Effect
    <3> QED BY <2>1, <3>4
  <2>4. Pending("no", <<>>, input', input')
    BY <2>3, NothingPending
  <2> QED BY <2>2, <2>4 DEF LineInv
<1>4. ASSUME NEW r \in Text, SkipsOne(r) PROVE LineInv'
  <2>1. /\ esc \in {"first", "rest"} /\ Reads(r) /\ UNCHANGED <<input, main>>
        /\ esc' = CASE esc = "first" -> IF r \in {"[", "O"} THEN "rest" ELSE "done"
                    [] esc = "rest"  -> IF r \in Finals THEN "done" ELSE "rest"
    BY <1>4 DEF SkipsOne
  <2>2. /\ main = "reading" /\ input \in Line /\ r = Head(keys) /\ keys' = Tail(keys)
        /\ meant' = meant /\ Pending(esc, keys, meant, input)
    BY <2>1, WhenRead
  <2>3. meant = input /\ SkipsOn(esc, keys)
    BY <2>1, <2>2, MidKeySkips DEF Pending, InText, InControl, InKey, AfterKey
  <2>4. esc = "first" \/ esc = "rest"
    BY <2>1
  <2>5. (esc' = "done" /\ keys' = <<>>) \/ <<esc', keys'>> \in MidKey
    <3>1. CASE esc = "first"
      <4>1. esc' = IF r \in {"[", "O"} THEN "rest" ELSE "done"
        BY <2>1, <3>1
      <4> QED BY <2>2, <2>3, <3>1, <4>1 DEF SkipsOn
    <3>2. CASE esc = "rest"
      <4>1. esc' = IF r \in Finals THEN "done" ELSE "rest"
        BY <2>1, <3>2
      <4> QED BY <2>2, <2>3, <3>2, <4>1 DEF SkipsOn
    <3> QED BY <2>4, <3>1, <3>2
  <2>6. Pending(esc', keys', meant', input')
    <3>1. meant' = input'
      BY <2>1, <2>2, <2>3
    <3>2. CASE esc' = "done" /\ keys' = <<>>
      BY <3>1, <3>2 DEF Pending, AfterKey
    <3>3. CASE <<esc', keys'>> \in MidKey
      BY <3>1, <3>3 DEF Pending, InKey
    <3> QED BY <2>5, <3>2, <3>3
  <2> QED BY <2>1, <2>2, <2>6 DEF LineInv
<1>5. CASE ReadTab \/ ReadBackspace \/ ReadCtrlU \/ ReadCtrlW \/ Edits("ctrl-d", input)
  <2>1. {"tab", "backspace", "ctrl-u", "ctrl-w", "ctrl-d"} \subseteq Controls
    BY DEF Controls
  <2>2. PICK n \in 0 .. Len(input) : WithoutLastWord(input) = SubSeq(input, 1, n) /\ EraseWord(input) = SubSeq(input, 1, n)
    <3>1. input \in Line
      BY DEF Types, EditType
    <3> QED BY <3>1, LastWord
  <2>3. /\ Effect("tab", input) = Append(input, TypedTab)
        /\ Effect("backspace", input) = SubSeq(input, 1, Len(input) - 1)
        /\ Effect("ctrl-u", input) = <<>> /\ Effect("ctrl-w", input) = EraseWord(input)
        /\ Effect("ctrl-d", input) = input
    BY <2>2 DEF Effect, TypedTab
  <2>4. \E p \in Controls : Edits(p, Effect(p, input))
    BY <1>5, <2>1, <2>3 DEF ReadTab, ReadBackspace, ReadCtrlU, ReadCtrlW
  <2> QED BY <1>3, <2>4
<1>6. CASE ReadEnter
  <2>1. esc = "no" /\ Reads("enter") /\ input' = <<>> /\ main' = "command" /\ UNCHANGED esc /\ "enter" \in Controls
    BY <1>6 DEF ReadEnter, Takes, Controls
  <2>2. keys' = <<>>
    BY <2>1, WhenTaken
  <2> QED BY <2>1, <2>2 DEF LineInv
<1>7. ASSUME NEW r \in {"ctrl-c", "ctrl-d"}, Quits(r) PROVE LineInv'
  <2>1. esc = "no" /\ Reads(r) /\ input' = input /\ UNCHANGED esc /\ main' \in {"reading", "leaving"} /\ r \in Controls
    BY <1>7 DEF Quits, Takes, LineKept, Controls
  <2>2. Effect(r, input) = input
    BY DEF Effect
  <2>3. keys' = <<>> /\ meant' = input' /\ esc' = "no"
    BY <1>2, <2>1, <2>2
  <2>4. input \in Line
    BY DEF Types, EditType
  <2>5. Pending("no", <<>>, input, input)
    BY <2>4, NothingPending
  <2> QED BY <2>1, <2>3, <2>5 DEF LineInv
<1>8. CASE ReadEscape
  <2>1. esc = "no" /\ Reads("esc") /\ esc' = "first" /\ UNCHANGED <<input, main>>
    BY <1>8 DEF ReadEscape, Takes
  <2>2. main = "reading" /\ meant' = input /\ <<"first", keys'>> \in MidKey
    BY <2>1, WhenTaken
  <2>3. Pending(esc', keys', meant', input')
    BY <2>1, <2>2 DEF Pending, InKey
  <2> QED BY <2>1, <2>2, <2>3 DEF LineInv
<1>9. CASE ReadLineRelocks
  <2>1. esc = "done" /\ esc' = "no" /\ UNCHANGED <<keys, meant, input, main>>
    BY <1>9 DEF ReadLineRelocks, user
  <2>2. main # "command" /\ input \in Line /\ Pending("done", keys, meant, input)
    BY <2>1 DEF LineInv, Types, EditType
  <2>3. keys = <<>> /\ meant = input
    BY <2>2, MidKeySkips DEF Pending, InText, InControl, InKey, AfterKey, MidKey
  <2>4. Pending("no", <<>>, input, input)
    BY <2>2, NothingPending
  <2> QED BY <2>1, <2>2, <2>3, <2>4 DEF LineInv
<1>10. CASE ReadLineRedraws
  <2>1. UNCHANGED <<keys, meant, input, esc, main>>
    BY <1>10 DEF ReadLineRedraws, user, edit
  <2> QED BY <2>1, SameLine
<1> QED BY <1>1, <1>4, <1>5, <1>6, <1>7, <1>8, <1>9, <1>10 DEF ReadLine, ReadCtrlC, ReadCtrlD

LEMMA LineNext == LineInv /\ Types /\ [Next]_vars => LineInv'
<1> SUFFICES ASSUME LineInv, Types, [Next]_vars PROVE LineInv'
  OBVIOUS
<1>1. CASE User
  BY <1>1, LineUserStep
<1>2. CASE ReadLine
  BY <1>2, LineReadStep
<1>3. CASE CommandDone
  <2>1. keys = <<>> /\ esc = "no" /\ input = <<>>
    BY <1>3 DEF CommandDone, LineInv
  <2>2. meant' = <<>> /\ UNCHANGED <<keys, esc, input>> /\ main' \in {"reading", "leaving"}
    BY <1>3 DEF CommandDone
  <2>3. Pending("no", <<>>, <<>>, <<>>)
    <3>1. <<>> \in Line
      BY DEF Line
    <3> QED BY <3>1, NothingPending
  <2> QED BY <2>1, <2>2, <2>3 DEF LineInv
<1>4. CASE Wants \/ PrintBlock \/ PrintRedraws \/ (\E b \in BOOLEAN : SetOnline(b)) \/ Transfers
           \/ (\E w \in Ways : Shutdown(w)) \/ UNCHANGED vars
  <2>1. UNCHANGED <<keys, meant, input, esc, main>>
    BY <1>4 DEF Wants, PrintBlock, PrintRedraws, SetOnline, SetStatus, Shows, Transfers, Begins, Finishes, DownloadReports,
                TransportReads, UploadReports, Shutdown, Restores, Exits, vars, user, edit
  <2> QED BY <2>1, SameLine
<1> QED BY <1>1, <1>2, <1>3, <1>4 DEF Next

\* Between keys the line is what the user means to have typed (ReadLine,
\* skipEscape and eraseWord), whatever keys are pressed and whatever the other
\* goroutines print meanwhile.
THEOREM LineHolds == Spec => []LineIsMeant
<1>1. ScreenIInv => Types
  BY DEF ScreenIInv
<1>2. LineInv /\ Types => LineIsMeant
  <2> SUFFICES ASSUME LineInv, Types, keys = <<>>, main = "reading" PROVE esc \in {"no", "done"} /\ input = meant
    BY DEF LineIsMeant
  <2>1. Pending(esc, keys, meant, input) /\ input \in Line
    BY DEF LineInv, Types, EditType
  <2> QED BY <2>1, NothingLeft
<1> QED BY <1>1, <1>2, ScreenStart, ScreenNext, LineStart, LineNext, PTL DEF Spec

-------------------------------------------------------------------------------
(* The arguments of a command are what was dragged onto it. *)

LEMMA SplitClosed ==
  ASSUME NEW as \in Seq(Line), NEW c \in Line, NEW line \in Seq(Text),
         ScansTo(line, At(as, c, TRUE, Unquoted, FALSE))
  PROVE  splitArgs(line) = Append(as, c) /\ ScansTo(Append(line, Space), Clean(Append(as, c)))
<1> DEFINE s == At(as, c, TRUE, Unquoted, FALSE)
           all == Append(as, c)
<1>1. s.inArg /\ ~s.escaped /\ s.args = as /\ s.cur = c /\ s.quote = Unquoted
  BY Zenon DEF At
<1>2. Scan(line) = s
  BY DEF ScansTo
<1>3. s.escaped = FALSE
  BY Zenon DEF At
<1> HIDE DEF s
<1>4. Ended(s) = At(Append(s.args, s.cur), <<>>, FALSE, s.quote, s.escaped)
  BY <1>1 DEF Ended
<1>5. Ended(s) = Clean(all)
  BY <1>1, <1>3, <1>4, Zenon DEF Clean
<1> HIDE DEF all
<1>6. Clean(all).args = all
  BY Zenon DEF Clean, At
<1>7. Scanned(s, Space) = Clean(all)
  BY <1>1, <1>5, StepSpace
<1>8. Space \in Text
  BY DEF Text
<1>9. Scan(Append(line, Space)) = Clean(all)
  BY <1>2, <1>7, <1>8, ScanAppend
<1>10. Append(line, Space) \in Seq(Text)
  BY <1>8
<1> QED BY <1>2, <1>5, <1>6, <1>9, <1>10 DEF splitArgs, AllArgs, ScansTo, all

\* A line whose arguments are as, whatever spaces TrimSpace takes off its end.
TidyLine(line, as) ==
  /\ ScansTo(line, Clean(as))
  /\ \E n \in 1 .. Len(line) :
       /\ line[1] # Space /\ line[n] # Space /\ \A k \in n + 1 .. Len(line) : line[k] = Space
       /\ splitArgs(SubSeq(line, 1, n)) = as

LEMMA TidySpace ==
  ASSUME NEW as, NEW line \in Line, TidyLine(line, as)
  PROVE  TidyLine(Append(line, Space), as)
<1> DEFINE more == Append(line, Space)
<1>1. line \in Seq(Text) /\ Space \in Text /\ Scan(line) = Clean(as)
  BY DEF TidyLine, ScansTo, Text, Line
<1>2. PICK n \in 1 .. Len(line) :
        /\ line[1] # Space /\ line[n] # Space /\ \A k \in n + 1 .. Len(line) : line[k] = Space
        /\ splitArgs(SubSeq(line, 1, n)) = as
  BY DEF TidyLine
<1>3. Scanned(Clean(as), Space) = Clean(as)
  <2> DEFINE s == Clean(as)
  <2>1. s.quote = Unquoted /\ ~s.escaped /\ ~s.inArg
    BY Zenon DEF Clean, At
  <2> HIDE DEF s
  <2>2. Ended(s) = s
    BY <2>1 DEF Ended
  <2>3. Scanned(s, Space) = s
    BY <2>1, <2>2, StepSpace
  <2> QED BY <2>3 DEF s
<1>4. Scan(more) = Clean(as)
  BY <1>1, <1>3, ScanAppend
<1>5. /\ more \in Seq(Text) /\ Len(more) = Len(line) + 1 /\ more[Len(line) + 1] = Space
      /\ Len(line) \in Nat /\ \A k \in 1 .. Len(line) : more[k] = line[k]
  BY <1>1
<1> HIDE DEF more
<1>6. SubSeq(more, 1, n) = SubSeq(line, 1, n)
  <2>1. /\ SubSeq(more, 1, n) \in Seq(Text) /\ SubSeq(line, 1, n) \in Seq(Text)
        /\ Len(SubSeq(more, 1, n)) = n /\ Len(SubSeq(line, 1, n)) = n
    BY <1>1, <1>5
  <2>2. \A k \in 1 .. n : SubSeq(more, 1, n)[k] = SubSeq(line, 1, n)[k]
    BY <1>1, <1>5
  <2> QED BY <2>1, <2>2, SeqEqual
<1>7. n \in 1 .. Len(more) /\ more[1] # Space /\ more[n] # Space
      /\ \A k \in n + 1 .. Len(more) : more[k] = Space
  BY <1>2, <1>5
<1>8. TidyLine(more, as)
  BY <1>2, <1>4, <1>5, <1>6, <1>7 DEF TidyLine, ScansTo
<1> QED BY <1>8 DEF more

LEMMA TidyName ==
  ASSUME NEW as \in Seq(Line), NEW line \in Line, line = <<>> \/ line[1] # Space, NEW q \in Line, NEW c \in Line,
         q # <<>>, q[1] # Space \/ line # <<>>, q[Len(q)] # Space,
         ScansTo(line \o q, At(as, c, TRUE, Unquoted, FALSE))
  PROVE  TidyLine(line \o Append(q, Space), Append(as, c))
<1> DEFINE words == line \o q
           more == line \o Append(q, Space)
           n == Len(words)
<1>1. line \in Seq(Text) /\ q \in Seq(Text) /\ words \in Seq(Text) /\ Space \in Text
  BY DEF Line, Text
<1>2. splitArgs(words) = Append(as, c) /\ ScansTo(Append(words, Space), Clean(Append(as, c)))
  <2>1. ScansTo(words, At(as, c, TRUE, Unquoted, FALSE))
    OBVIOUS
  <2> HIDE DEF words
  <2> QED BY <1>1, <2>1, SplitClosed
<1>3. more = Append(words, Space)
  BY <1>1, ConcatMore
<1>4. /\ Len(more) = n + 1 /\ more \in Seq(Text) /\ n \in Nat
      /\ more[n + 1] = Space /\ \A k \in 1 .. n : more[k] = words[k]
  <2> HIDE DEF words, more
  <2> QED BY <1>1, <1>3
<1>5. n = Len(line) + Len(q) /\ n \in 1 .. n + 1 /\ words[1] # Space /\ words[n] # Space
  <2>1. Len(q) \in Nat \ {0} /\ Len(line) \in Nat /\ n = Len(line) + Len(q)
    BY <1>1
  <2>2. words[n] = q[Len(q)]
    BY <1>1, <2>1
  <2>3. words[1] = IF line = <<>> THEN q[1] ELSE line[1]
    BY <1>1, <2>1
  <2>4. line # <<>> => line[1] # Space
    OBVIOUS
  <2> QED BY <2>1, <2>2, <2>3, <2>4
<1>6. SubSeq(more, 1, n) = words
  <2> HIDE DEF words, more
  <2>1. /\ SubSeq(more, 1, n) \in Seq(Text) /\ Len(SubSeq(more, 1, n)) = n
        /\ \A k \in 1 .. n : SubSeq(more, 1, n)[k] = words[k]
    BY <1>4
  <2> QED BY <1>1, <2>1, SeqEqual
<1> HIDE DEF words, more, n
<1>7. more[1] # Space /\ more[n] # Space /\ \A k \in n + 1 .. Len(more) : more[k] = Space
  BY <1>4, <1>5
<1>8. n \in 1 .. Len(more) /\ splitArgs(SubSeq(more, 1, n)) = Append(as, c)
  BY <1>2, <1>4, <1>5, <1>6
<1>9. ScansTo(more, Clean(Append(as, c)))
  BY <1>2, <1>3
<1>10. TidyLine(more, Append(as, c))
  BY <1>7, <1>8, <1>9 DEF TidyLine
<1> QED BY <1>10 DEF more

LEMMA TidySplit ==
  ASSUME NEW as, NEW line \in Line, TidyLine(line, as)
  PROVE  splitArgs(Trimmed(line)) = as
<1>1. PICK n \in 1 .. Len(line) :
        /\ line[1] # Space /\ line[n] # Space /\ \A k \in n + 1 .. Len(line) : line[k] = Space
        /\ splitArgs(SubSeq(line, 1, n)) = as
  BY DEF TidyLine
<1>2. Len(line) \in Nat
  BY DEF Line
<1>3. PICK i, j \in 1 .. Len(line) :
        /\ i <= j /\ line[i] # Space /\ line[j] # Space
        /\ \A k \in 1 .. Len(line) : line[k] # Space => i <= k /\ k <= j
        /\ Trimmed(line) = SubSeq(line, i, j)
  <2>1. ~ \A k \in 1 .. Len(line) : line[k] = Space
    BY <1>1
  <2> QED BY <2>1, TrimmedIs
<1>4. i = 1 /\ j = n
  <2>1. i <= 1 /\ n <= j
    BY <1>1, <1>2, <1>3
  <2>2. ~ (j \in n + 1 .. Len(line))
    BY <1>1, <1>3
  <2> QED BY <1>2, <2>1, <2>2
<1> QED BY <1>1, <1>3, <1>4

\* The last rune typed for a name, with backslashes, is the last one of the name.
LEMMA EachEnds ==
  ASSUME NEW name \in Seq(Text), name # <<>>
  PROVE  LET q == EachRune(name, "backslashes")
         IN q \in Seq(Text) /\ q # <<>> /\ q[Len(q)] = name[Len(name)]
<1> DEFINE N == Len(name)
           q == EachRune(name, "backslashes")
           last == Typed(name[N], "backslashes")
<1>1. N \in Nat \ {0} /\ N \in 1 .. N /\ N \in 0 .. N /\ N - 1 \in 0 .. N /\ name[N] \in Text
  OBVIOUS
<1>2. PICK out : Spells(name, "backslashes", out) /\ q = out[N]
  BY SpellExists
<1>3. out[N - 1] \in Seq(Text) /\ out[N] = out[N - 1] \o last /\ out[N] \in Seq(Text)
  BY <1>1, <1>2 DEF Spells
<1>4. last = <<Backslash, name[N]>> \/ last = <<name[N]>>
  <2>1. "backslashes" \in Styles
    BY DEF Styles
  <2> QED BY <1>1, <2>1, TypedIs
<1>5. last \in Seq(Text)
  BY <1>1, TypedType
<1>6. Len(last) \in Nat \ {0} /\ last[Len(last)] = name[N]
  <2> DEFINE r == name[N]
  <2>2. last = <<Backslash, r>> \/ last = <<r>>
    BY <1>4
  <2> HIDE DEF r, last
  <2>3. Len(last) \in Nat \ {0} /\ last[Len(last)] = r
    <3>1. CASE last = <<Backslash, r>>
      <4>1. Len(last) = 2 /\ last[2] = r
        BY <3>1
      <4> QED BY <4>1
    <3>2. CASE last = <<r>>
      <4>1. Len(last) = 1 /\ last[1] = r
        BY <3>2
      <4> QED BY <4>1
    <3> QED BY <2>2, <3>1, <3>2
  <2> QED BY <2>3 DEF r
<1> HIDE DEF N, last, q
<1>7. q = out[N - 1] \o last
  BY <1>2, <1>3
<1> DEFINE o == out[N - 1]
<1> HIDE DEF o
<1>8. o \in Seq(Text) /\ q = o \o last
  BY <1>3, <1>7 DEF o
<1>9. Len(q) = Len(o) + Len(last) /\ q[Len(q)] = last[Len(last)] /\ q \in Seq(Text)
  BY <1>5, <1>6, <1>8
<1>10. q # <<>>
  BY <1>5, <1>6, <1>8, <1>9
<1> QED BY <1>6, <1>9, <1>10 DEF q, N

LEMMA QuotedEnds ==
  ASSUME NEW name \in Names, NEW style \in Styles, name[Len(name)] # Space
  PROVE  LET q == Quoted(name, style) IN q \in Line /\ q # <<>> /\ q[Len(q)] # Space
<1>1. name \in Seq(Text) /\ name # <<>> /\ Quoted(name, style) \in Line
  BY QuotedType DEF Line
<1>2. CASE style = "backslashes"
  <2>1. Quoted(name, style) = EachRune(name, "backslashes")
    BY <1>2 DEF Quoted
  <2> QED BY <1>1, <2>1, EachEnds
<1>3. ASSUME NEW c \in {SingleQuote, DoubleQuote}, Quoted(name, style) = <<c>> \o EachRune(name, style) \o <<c>>
      PROVE  Quoted(name, style) # <<>> /\ Quoted(name, style)[Len(Quoted(name, style))] # Space
  <2> DEFINE e == EachRune(name, style)
             q == <<c>> \o e \o <<c>>
  <2>1. e \in Seq(Text)
    <3>1. PICK out : Spells(name, style, out) /\ e = out[Len(name)]
      BY <1>1, SpellExists
    <3>2. Len(name) \in 0 .. Len(name)
      BY <1>1
    <3> QED BY <3>1, <3>2 DEF Spells
  <2>2. c \in Text /\ c # Space
    BY DEF Text, Space, SingleQuote, DoubleQuote
  <2> HIDE DEF e
  <2>3. Len(q) = Len(e) + 2 /\ q[Len(q)] = c /\ Len(e) \in Nat
    BY <2>1, <2>2
  <2>4. q # <<>>
    BY <2>3
  <2>5. Quoted(name, style) = q
    BY <1>3 DEF e
  <2> QED BY <2>2, <2>3, <2>4, <2>5
<1>4. CASE style = "single"
  <2>1. Quoted(name, style) = <<SingleQuote>> \o EachRune(name, style) \o <<SingleQuote>>
    BY <1>4 DEF Quoted
  <2> QED BY <1>1, <1>3, <2>1
<1>5. CASE style = "double"
  <2>1. Quoted(name, style) = <<DoubleQuote>> \o EachRune(name, style) \o <<DoubleQuote>>
    BY <1>5 DEF Quoted
  <2> QED BY <1>1, <1>3, <2>1
<1> QED BY <1>2, <1>4, <1>5 DEF Styles

\* A file is dragged onto a command.
LEMMA TidyDrag ==
  ASSUME NEW as \in Seq(Line), NEW line \in Line, TidyLine(line, as), NEW name \in Names, NEW style \in Styles,
         name[Len(name)] # Space
  PROVE  TidyLine(line \o Append(Quoted(name, style), Space), Append(as, name))
<1> DEFINE q == Quoted(name, style)
<1>1. name \in Line /\ name # <<>> /\ q \in Line /\ q # <<>> /\ q[Len(q)] # Space
  BY QuotedType, QuotedEnds DEF Line
<1>2. ScansTo(line, Clean(as)) /\ line # <<>> /\ line[1] # Space
  BY DEF TidyLine, Line
<1>3. ScansTo(line \o q, At(as, name, TRUE, Unquoted, FALSE))
  BY <1>1, <1>2, QuotedScanned DEF Line
<1> HIDE DEF q
<1>4. TidyLine(line \o Append(q, Space), Append(as, name))
  BY <1>1, <1>2, <1>3, TidyName
<1> QED BY <1>4 DEF q

\* A command's name and the space after it.
LEMMA TidyCommand == TidyLine(<<"/", Space>>, <<<<"/">>>>)
<1>1. "/" \in Text /\ "/" # Space /\ Space \in Text /\ "/" \notin {Space, Backslash, SingleQuote, DoubleQuote}
  BY DEF Text, Space, Backslash, SingleQuote, DoubleQuote
<1>2. <<>> \in Seq(Text) /\ <<>> \in Line /\ <<"/">> \in Line /\ <<>> \in Seq(Line) /\ <<"/">> \in Seq(Text)
  BY <1>1 DEF Line
<1>3. Scan(<<"/">>) = At(<<>>, <<"/">>, TRUE, Unquoted, FALSE)
  <2> DEFINE s == At(<<>>, <<>>, FALSE, Unquoted, FALSE)
             t == At(<<>>, Append(<<>>, "/"), TRUE, Unquoted, FALSE)
  <2>1. Scanned(s, "/") = t
    BY <1>1, <1>2, StepPlain
  <2>2. Scan(<<>>) = s
    BY ScanEmpty DEF Start
  <2> HIDE DEF s, t
  <2>3. Scan(Append(<<>>, "/")) = t
    BY <1>1, <1>2, <2>1, <2>2, ScanTo
  <2>4. Append(<<>>, "/") = <<"/">>
    OBVIOUS
  <2> QED BY <2>3, <2>4 DEF t
<1>4. ScansTo(<<>> \o <<"/">>, At(<<>>, <<"/">>, TRUE, Unquoted, FALSE))
  <2>1. <<>> \o <<"/">> = <<"/">>
    OBVIOUS
  <2> QED BY <1>2, <1>3, <2>1 DEF ScansTo
<1> DEFINE l == <<>>
           q == <<"/">>
<1>5. /\ l \in Seq(Line) /\ l \in Line /\ q \in Line /\ l = <<>> /\ q # <<>>
      /\ q[1] # Space /\ q[Len(q)] # Space
  BY <1>1, <1>2
<1>6. TidyLine(l \o Append(q, Space), Append(l, q))
  <2>1. ScansTo(l \o q, At(l, q, TRUE, Unquoted, FALSE))
    BY <1>4
  <2> HIDE DEF l, q
  <2> QED BY <1>5, <2>1, TidyName
<1>7. Append(q, Space) = <<"/", Space>> /\ l \o <<"/", Space>> = <<"/", Space>>
  <2>1. <<"/", Space>> \in Seq(Text)
    BY <1>1
  <2>2. \A s \in Seq(Text) : <<>> \o s = s
    OBVIOUS
  <2>3. Append(q, Space) = <<"/", Space>>
    <3>1. <<>> \o <<"/", Space>> = Append(Append(<<>>, "/"), Space)
      BY <1>1, <1>2, TwoMore
    <3>2. Append(<<>>, "/") = <<"/">>
      OBVIOUS
    <3> QED BY <2>1, <2>2, <3>1, <3>2
  <2>4. l \o <<"/", Space>> = <<"/", Space>>
    BY <2>1, <2>2
  <2> QED BY <2>3, <2>4
<1>8. Append(l, q) = <<<<"/">>>>
  <2> HIDE DEF q
  <2>1. Append(<<>>, q) = <<q>>
    OBVIOUS
  <2> QED BY <2>1 DEF q
<1> QED BY <1>6, <1>7, <1>8

\* A line that does not start with a space has a first argument.
HasArg(s) == s.args # <<>> \/ s.inArg

LEMMA ScannedHasArg ==
  ASSUME NEW s \in ScanState, NEW r \in Text, HasArg(s)
  PROVE  HasArg(Scanned(s, r))
<1>1. s.args \in Seq(Line) /\ s.cur \in Line /\ s.inArg \in BOOLEAN
  BY ScanStateIs
<1>2. \A as, c, q, e : HasArg(At(as, c, TRUE, q, e))
  BY Zenon DEF HasArg, At
<1>3. HasArg(Written(s, r)) /\ HasArg(At(s.args, s.cur, TRUE, s.quote, TRUE))
      /\ HasArg(At(s.args, s.cur, TRUE, r, FALSE))
  BY <1>2 DEF Written
<1>4. HasArg(At(s.args, s.cur, s.inArg, Unquoted, FALSE))
  BY Zenon DEF HasArg, At
<1>5. HasArg(Ended(s))
  <2>1. CASE s.inArg
    <3> DEFINE a == Append(s.args, s.cur)
    <3>1. a # <<>>
      BY <1>1
    <3> HIDE DEF a
    <3>2. HasArg(At(a, <<>>, FALSE, s.quote, s.escaped))
      BY <3>1, Zenon DEF HasArg, At
    <3>3. Ended(s) = At(a, <<>>, FALSE, s.quote, s.escaped)
      BY <2>1 DEF Ended, a
    <3> QED BY <3>2, <3>3
  <2>2. CASE ~s.inArg
    BY <2>2 DEF Ended
  <2> QED BY <2>1, <2>2
<1> QED BY <1>3, <1>4, <1>5, Zenon DEF Scanned

LEMMA SplitsOffFirst ==
  ASSUME NEW line \in Line, line # <<>>, line[1] = "/"
  PROVE  splitArgs(line) # <<>>
<1> DEFINE N == Len(line)
<1>1. N \in Nat \ {0} /\ line \in Seq(Text) /\ \A n \in 1 .. N : line[n] \in Text
  BY DEF Line
<1>2. PICK at : Scans(line, at) /\ Scan(line) = at[N]
  BY <1>1, ScanExists
<1>3. /\ \A n \in 0 .. N : at[n] \in ScanState
      /\ at[0] = Start /\ \A n \in 1 .. N : at[n] = Scanned(at[n - 1], line[n])
  BY <1>2 DEF Scans
<1> HIDE DEF N
<1>4. HasArg(at[1])
  <2>1. 1 \in 1 .. N /\ 1 - 1 = 0
    BY <1>1
  <2>2. at[1] = Scanned(Start, "/")
    BY <1>3, <2>1
  <2>3. "/" \in Text /\ "/" \notin {Space, Backslash, SingleQuote, DoubleQuote} /\ <<>> \in Seq(Text)
    BY DEF Text, Space, Backslash, SingleQuote, DoubleQuote
  <2>4. Scanned(At(<<>>, <<>>, FALSE, Unquoted, FALSE), "/") = At(<<>>, Append(<<>>, "/"), TRUE, Unquoted, FALSE)
    BY <2>3, StepPlain
  <2>5. HasArg(At(<<>>, Append(<<>>, "/"), TRUE, Unquoted, FALSE))
    BY Zenon DEF HasArg, At
  <2> QED BY <2>2, <2>4, <2>5 DEF Start
<1> DEFINE S == {n \in 0 .. N : n # 0 => HasArg(at[n])}
<1>5. \A n \in 0 .. N - 1 : n \in S => n + 1 \in S
  <2> SUFFICES ASSUME NEW n \in 0 .. N - 1, n # 0 => HasArg(at[n])
               PROVE  HasArg(at[n + 1]) /\ n + 1 \in 0 .. N
    OBVIOUS
  <2>1. n + 1 \in 1 .. N /\ (n + 1) - 1 = n /\ n \in 0 .. N /\ n + 1 \in 0 .. N
    BY <1>1
  <2>2. CASE n = 0
    BY <1>4, <2>1, <2>2
  <2>3. CASE n # 0
    <3>1. at[n + 1] = Scanned(at[n], line[n + 1]) /\ at[n] \in ScanState /\ line[n + 1] \in Text
      BY <1>1, <1>3, <2>1
    <3> QED BY <2>1, <2>3, <3>1, ScannedHasArg
  <2> QED BY <2>2, <2>3
<1>6. 0 \in S
  BY <1>1
<1>7. 0 .. N \subseteq S
  <2> HIDE DEF S
  <2> QED BY <1>1, <1>5, <1>6, InductionUpTo
<1>8. N \in 0 .. N /\ N # 0
  BY <1>1
<1>9. HasArg(Scan(line)) /\ Scan(line) \in ScanState
  BY <1>2, <1>3, <1>7, <1>8
<1> DEFINE s == Scan(line)
<1> HIDE DEF s
<1>10. HasArg(s) /\ s.args \in Seq(Line) /\ s.cur \in Line
  BY <1>9, ScanStateIs DEF s
<1>11. Ended(s).args # <<>>
  <2>1. CASE s.inArg
    <3> DEFINE a == Append(s.args, s.cur)
    <3>1. a # <<>>
      BY <1>10
    <3> HIDE DEF a
    <3>2. At(a, <<>>, FALSE, s.quote, s.escaped).args = a
      BY Zenon DEF At
    <3>3. Ended(s) = At(a, <<>>, FALSE, s.quote, s.escaped)
      BY <2>1 DEF Ended, a
    <3> QED BY <3>1, <3>2, <3>3
  <2>2. CASE ~s.inArg
    BY <1>10, <2>2 DEF Ended, HasArg
  <2> QED BY <2>1, <2>2
<1> QED BY <1>11 DEF splitArgs, AllArgs, s

\* TrimSpace takes the last rune of such a name off the line.
NamesEndInText == \A name \in Names : name[Len(name)] # Space

Given == <<<<"/">>>> \o files

ArgsInv ==
  /\ tidy => TidyLine(meant, Given)
  /\ main = "command" => args = splitArgs(Trimmed(meant))

LEMMA GivenMore ==
  ASSUME NEW fs \in Seq(Line), NEW name \in Line
  PROVE  /\ <<<<"/">>>> \o fs \in Seq(Line)
         /\ <<<<"/">>>> \o Append(fs, name) = Append(<<<<"/">>>> \o fs, name)
<1> DEFINE g == <<"/">>
           u == <<g>> \o Append(fs, name)
           v == Append(<<g>> \o fs, name)
<1>1. g \in Line
  <2>1. "/" \in Text
    BY DEF Text
  <2> QED BY <2>1 DEF Line
<1> HIDE DEF g
<1>2. <<g>> \o fs \in Seq(Line) /\ u \in Seq(Line) /\ v \in Seq(Line)
  BY <1>1
<1>3. Len(u) = Len(fs) + 2 /\ Len(v) = Len(u)
  BY <1>1
<1>4. \A k \in 1 .. Len(u) : u[k] = v[k]
  BY <1>1
<1> HIDE DEF u, v
<1>5. u = v
  BY <1>2, <1>3, <1>4, SeqEqual
<1> QED BY <1>2, <1>5 DEF u, v, g

LEMMA ArgsUserStep ==
  ASSUME ArgsInv, LineInv, Types, User, NamesEndInText
  PROVE  ArgsInv'
<1>0. meant \in Line /\ files \in Seq(Line) /\ tidy \in BOOLEAN
  BY DEF Types, UserType
<1>1. ASSUME NEW p \in Presses, Press(p) PROVE tidy' => TidyLine(meant', Given')
  <2> SUFFICES ASSUME tidy' PROVE TidyLine(meant', Given')
    OBVIOUS
  <2>0. /\ meant' = Means(p) /\ (tidy => files' = files) /\ (~tidy => files' = <<>>)
        /\ (p = "command" /\ meant = <<>>) \/ (tidy /\ p \in Ignored \cup {Space, "tab"})
    <3>1. meant' = Means(p)
      BY <1>1, Zenon DEF Press
    <3>2. files' = IF tidy' /\ tidy THEN files ELSE <<>>
      BY <1>1, Zenon DEF Press
    <3>3. (p = "command" /\ meant = <<>>) \/ (tidy /\ p \in Ignored \cup {Space, "tab"})
      <4>1. tidy' = \/ p = "command" /\ meant = <<>>
                    \/ tidy /\ p \in Ignored \cup {Space, "tab"}
        BY <1>1, Zenon DEF Press
      <4> QED BY <4>1, Zenon
    <3>4. (tidy => files' = files) /\ (~tidy => files' = <<>>)
      BY <3>2, Zenon
    <3> QED BY <3>1, <3>3, <3>4
  <2>1. CASE tidy /\ p \in Ignored \cup {Space, "tab"}
    <3>1. files' = files /\ TidyLine(meant, Given)
      BY <2>0, <2>1 DEF ArgsInv
    <3>2. meant' = meant \/ meant' = Append(meant, Space)
      <4>1. CASE p \in Ignored
        <5>1. p \notin {"tab", "backspace", "ctrl-u", "ctrl-w", "command"}
          BY <4>1 DEF Ignored
        <5>2. Means(p) = meant
          BY <4>1, <5>1, Zenon DEF Means
        <5> QED BY <2>0, <5>2
      <4>2. CASE p = Space
        BY <2>0, <4>2 DEF Means, Space, Ignored
      <4>3. CASE p = "tab"
        BY <2>0, <4>3 DEF Means, Ignored
      <4> QED BY <2>1, <4>1, <4>2, <4>3
    <3>3. Given' = Given
      BY <3>1 DEF Given
    <3> QED BY <1>0, <3>1, <3>2, <3>3, TidySpace
  <2>2. CASE p = "command" /\ meant = <<>>
    <3>1. ~tidy
      BY <2>2 DEF ArgsInv, TidyLine
    <3>2. files' = <<>>
      BY <2>0, <3>1
    <3>3. meant' = meant \o <<"/", Space>>
      BY <2>0, <2>2 DEF Means, Ignored
    <3>4. meant' = <<"/", Space>>
      <4>1. "/" \in Text /\ Space \in Text
        BY DEF Text
      <4>2. <<"/", Space>> \in Seq(Text) /\ \A s \in Seq(Text) : <<>> \o s = s
        BY <4>1
      <4> QED BY <2>2, <3>3, <4>2
    <3>5. Given' = <<<<"/">>>>
      <4> DEFINE g == <<<<"/">>>>
      <4>1. g \in Seq(Line)
        <5>1. <<>> \in Seq(Line) /\ <<"/">> \in Line
          BY DEF Line, Text
        <5> QED BY <5>1
      <4> HIDE DEF g
      <4>2. g \o <<>> = g
        BY <4>1
      <4> QED BY <3>2, <4>2 DEF Given, g
    <3> QED BY <3>4, <3>5, TidyCommand
  <2> QED BY <2>0, <2>1, <2>2
<1>2. ASSUME NEW name \in Names, NEW style \in Styles, Drag(name, style) PROVE tidy' => TidyLine(meant', Given')
  <2>1. SUFFICES ASSUME tidy' PROVE TidyLine(meant', Given')
    OBVIOUS
  <2>2. /\ tidy /\ meant' = meant \o Append(Quoted(name, style), Space) /\ files' = Append(files, name)
    BY <1>2, <2>1 DEF Drag
  <2>3. TidyLine(meant, Given) /\ name[Len(name)] # Space /\ name \in Line
    BY <2>2, QuotedType DEF ArgsInv, NamesEndInText, Line
  <2>4. Given \in Seq(Line) /\ Given' = Append(Given, name)
    BY <1>0, <2>2, <2>3, GivenMore DEF Given
  <2>5. TidyLine(meant \o Append(Quoted(name, style), Space), Append(Given, name))
    BY <1>0, <2>3, <2>4, TidyDrag
  <2> QED BY <2>2, <2>4, <2>5
<1>3. main' # "command"
  BY DEF User, Press, Drag, CanPress, edit
<1> QED BY <1>1, <1>2, <1>3 DEF User, ArgsInv

LEMMA ArgsReadStep ==
  ASSUME ArgsInv, LineInv, Types, ReadLine
  PROVE  ArgsInv'
<1>0. CASE ReadLineRelocks \/ ReadLineRedraws
  <2>1. UNCHANGED <<meant, files, tidy, main, args>>
    BY <1>0 DEF ReadLineRelocks, ReadLineRedraws, user, edit
  <2> QED BY <2>1 DEF ArgsInv, Given
<1>1. ~ (ReadLineRelocks \/ ReadLineRedraws) => main = "reading" /\ UNCHANGED <<meant, files, tidy>>
  BY DEF ReadLine, ReadText, SkipsOne, ReadTab, ReadBackspace, ReadCtrlU, ReadCtrlW, ReadEnter, ReadCtrlC,
         ReadCtrlD, Quits, ReadEscape, Edits, Takes, Reads
<1>3. CASE ReadEnter
  <2>1. esc = "no" /\ Reads("enter") /\ args' = splitArgs(Trimmed(input)) /\ "enter" \in Controls
    BY <1>3 DEF ReadEnter, Takes, Controls
  <2>2. meant' = Effect("enter", input)
    BY <2>1, WhenTaken
  <2>3. Effect("enter", input) = input
    BY DEF Effect
  <2>4. args' = splitArgs(Trimmed(meant'))
    BY <2>1, <2>2, <2>3
  <2>5. UNCHANGED <<meant, files, tidy>>
    BY <2>1 DEF Reads
  <2> QED BY <2>4, <2>5 DEF ArgsInv, Given
<1>4. CASE ~ ReadEnter /\ ~ (ReadLineRelocks \/ ReadLineRedraws)
  <2>1. main' # "command"
    BY <1>1, <1>4 DEF ReadLine, ReadText, SkipsOne, ReadTab, ReadBackspace, ReadCtrlU, ReadCtrlW, ReadCtrlC,
         ReadCtrlD, Quits, ReadEscape, Edits
  <2> QED BY <1>1, <1>4, <2>1 DEF ArgsInv, Given
<1> QED BY <1>0, <1>3, <1>4

LEMMA ArgsNext == ArgsInv /\ LineInv /\ Types /\ NamesEndInText /\ [Next]_vars => ArgsInv'
<1> SUFFICES ASSUME ArgsInv, LineInv, Types, NamesEndInText, [Next]_vars PROVE ArgsInv'
  OBVIOUS
<1>1. CASE User
  BY <1>1, ArgsUserStep
<1>2. CASE ReadLine
  BY <1>2, ArgsReadStep
<1>3. CASE CommandDone
  <2>1. tidy' = FALSE /\ main' # "command"
    BY <1>3 DEF CommandDone
  <2> QED BY <2>1 DEF ArgsInv
<1>4. CASE Wants \/ PrintBlock \/ PrintRedraws \/ (\E b \in BOOLEAN : SetOnline(b)) \/ Transfers
           \/ (\E w \in Ways : Shutdown(w)) \/ UNCHANGED vars
  <2>1. UNCHANGED <<meant, files, tidy, main, args>>
    BY <1>4 DEF Wants, PrintBlock, PrintRedraws, SetOnline, SetStatus, Shows, Transfers, Begins, Finishes, DownloadReports,
                TransportReads, UploadReports, Shutdown, Restores, Exits, vars, user, edit
  <2> QED BY <2>1 DEF ArgsInv, Given
<1> QED BY <1>1, <1>2, <1>3, <1>4 DEF Next

\* What App.run and App.command split is split as it was meant: files dragged
\* onto a command in any way a terminal quotes them are its arguments, and a line
\* that starts with a slash has a first argument (splitArgs), for names that
\* TrimSpace leaves whole.
THEOREM ArgsHold == ASSUME NamesEndInText PROVE Spec => []ArgsArrive
<1>0. Init => ArgsInv
  <2> SUFFICES ASSUME Init PROVE ArgsInv
    OBVIOUS
  <2>1. ~tidy /\ main # "command"
    BY DEF Init
  <2> QED BY <2>1 DEF ArgsInv
<1>1. ScreenIInv => Types
  BY DEF ScreenIInv
<1>2. ArgsInv /\ Types => ArgsArrive
  <2> SUFFICES ASSUME ArgsInv, Types, main = "command" PROVE ArgsArrive
    BY DEF ArgsArrive, FilesArrive, SplitsOff
  <2>1. meant \in Line /\ files \in Seq(Line) /\ args = splitArgs(Trimmed(meant))
    BY DEF ArgsInv, Types, UserType
  <2>2. ASSUME tidy PROVE args # <<>> /\ Head(args) = <<"/">> /\ Tail(args) = files
    <3>1. args = Given
      BY <2>1, <2>2, TidySplit DEF ArgsInv
    <3> DEFINE g == <<"/">>
    <3>2. g \in Line
      BY DEF Line, Text
    <3> HIDE DEF g
    <3> DEFINE all == <<g>> \o files
    <3>3. all \in Seq(Line) /\ Len(all) = Len(files) + 1 /\ all[1] = g
          /\ \A k \in 1 .. Len(files) : all[k + 1] = files[k]
      BY <2>1, <3>2
    <3>4. args = all
      BY <3>1 DEF Given, g
    <3> HIDE DEF all
    <3>5. all # <<>> /\ Head(all) = g
      BY <2>1, <3>3
    <3>6. Tail(all) = files
      <4>1. /\ Tail(all) \in Seq(Line) /\ Len(Tail(all)) = Len(files)
            /\ \A k \in 1 .. Len(files) : Tail(all)[k] = files[k]
        BY <2>1, <3>3, <3>5
      <4> QED BY <2>1, <4>1, SeqEqual
    <3> QED BY <3>4, <3>5, <3>6 DEF g
  <2>3. ASSUME Trimmed(meant) # <<>>, Head(Trimmed(meant)) = "/" PROVE args # <<>>
    <3> DEFINE t == Trimmed(meant)
    <3>1. t \in Line /\ t # <<>>
      BY <2>1, <2>3, TrimmedType
    <3>2. t[1] = "/"
      BY <2>3, <3>1 DEF Line
    <3> HIDE DEF t
    <3>3. splitArgs(t) # <<>>
      BY <3>1, <3>2, SplitsOffFirst
    <3> QED BY <2>1, <3>3 DEF t
  <2> QED BY <2>2, <2>3 DEF ArgsArrive, FilesArrive, SplitsOff
<1> QED BY <1>0, <1>1, <1>2, ScreenStart, ScreenNext, LineStart, LineNext, ArgsNext, PTL DEF Spec
================================================================================
