------------------------------ MODULE MCTerminal ------------------------------
(* Instances of Terminal for TLC. *)
EXTENDS Terminal

Keys == {"a", Space, "tab", "backspace", "ctrl-u", "ctrl-w", "enter", "ctrl-c", "ctrl-d",
         "delete", "f1", "alt-a", "command"}

\* A file with everything in its name that splitArgs treats specially.
Awkward == {<<Space, SingleQuote, Backslash>>}
===============================================================================
