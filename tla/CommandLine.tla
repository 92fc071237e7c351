------------------------------ MODULE CommandLine ------------------------------
(***************************************************************************)
(* ui.go's splitArgs: a command line is cut into arguments at its spaces,  *)
(* except where quotes or a backslash keep them, and what terminals insert *)
(* when a file is dragged onto them.  A line is a sequence of runes.       *)
(***************************************************************************)
EXTENDS Integers, Sequences

Space       == "space"
Backslash   == "backslash"
SingleQuote == "squote"
DoubleQuote == "dquote"
Unquoted    == "none"

\* The runes of a line.
Text == {"a", "A", "O", "P", "3", "~", "[", "/", Space, Backslash, SingleQuote, DoubleQuote}

-------------------------------------------------------------------------------
(* splitArgs, one rune after the other.                                    *)

At(args, cur, inArg, quote, escaped) ==
  [args |-> args, cur |-> cur, inArg |-> inArg, quote |-> quote, escaped |-> escaped]

Start == At(<<>>, <<>>, FALSE, Unquoted, FALSE)

Written(s, r) == At(s.args, Append(s.cur, r), TRUE, s.quote, FALSE)
Ended(s)      == IF s.inArg THEN At(Append(s.args, s.cur), <<>>, FALSE, s.quote, s.escaped) ELSE s

\* Where a backslash escapes the next rune: everywhere but in single quotes.
BugEscapesOutsideQuotes(s) == s.quote = Unquoted
Escapes(s) == s.quote # SingleQuote

Scanned(s, r) ==
  CASE s.escaped                            -> Written(s, r)
    [] ~s.escaped /\ r = Backslash /\ Escapes(s)
                                            -> At(s.args, s.cur, TRUE, s.quote, TRUE)
    [] ~s.escaped /\ ~(r = Backslash /\ Escapes(s)) /\ s.quote # Unquoted
                                            -> IF r = s.quote THEN At(s.args, s.cur, s.inArg, Unquoted, FALSE)
                                                              ELSE Written(s, r)
    [] OTHER ->
         IF r \in {SingleQuote, DoubleQuote} THEN At(s.args, s.cur, TRUE, r, FALSE)
         ELSE IF r = Space THEN Ended(s) ELSE Written(s, r)

\* The line's end ends an argument too.
AllArgs(s) == Ended(s).args

Scan(line) ==
  LET at[n \in 0 .. Len(line)] == IF n = 0 THEN Start ELSE Scanned(at[n - 1], line[n])
  IN at[Len(line)]

splitArgs(line) == AllArgs(Scan(line))

-------------------------------------------------------------------------------
(* Terminals write a file's name in one of three ways.                     *)

Styles == {"backslashes", "single", "double"}

\* What stands for a rune of the name.
Typed(r, style) ==
  CASE style = "backslashes" /\ r \in {Space, Backslash, SingleQuote, DoubleQuote} -> <<Backslash, r>>
    [] style = "single" /\ r = SingleQuote -> <<SingleQuote, Backslash, SingleQuote, SingleQuote>>
    [] style = "double" /\ r \in {Backslash, DoubleQuote} -> <<Backslash, r>>
    [] OTHER -> <<r>>

EachRune(name, style) ==
  LET out[n \in 0 .. Len(name)] == IF n = 0 THEN <<>> ELSE out[n - 1] \o Typed(name[n], style)
  IN out[Len(name)]

Quoted(name, style) ==
  CASE style = "backslashes" -> EachRune(name, style)
    [] style = "single" -> <<SingleQuote>> \o EachRune(name, style) \o <<SingleQuote>>
    [] style = "double" -> <<DoubleQuote>> \o EachRune(name, style) \o <<DoubleQuote>>
================================================================================
