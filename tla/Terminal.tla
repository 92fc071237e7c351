------------------------------- MODULE Terminal -------------------------------
(***************************************************************************)
(* The terminal (ui.go): the main goroutine edits a line key by key in     *)
(* UI.ReadLine while the other goroutines print above it and change what   *)
(* the prompt says, each under UI.mu, which ReadLine has from a rune's     *)
(* effect to the redraw and gives back while it skips an escape sequence;  *)
(* and what main.go does around it: a finished line is a command,          *)
(* transfers report how far they are, and shutdown gives the terminal back.*)
(*                                                                         *)
(* The user presses keys; some of them arrive as several runes, which a    *)
(* slow line may deliver one at a time.  Every rune takes one column.      *)
(***************************************************************************)
EXTENDS CommandLine, FiniteSets

CONSTANTS
  Width,       \* termWidth: columns
  StatusCells, \* how long the text of a transfer is
  Presses,     \* the keys the user has
  Names,       \* files that are dragged onto the terminal
  MaxPresses,  \* bound: keys pressed for a line, its first command's name and its Enter not counted
  MaxBlocks    \* bound: blocks printed

\* Keys that leave the line as it is, and keys that edit it.
Ignored == {"delete", "f1", "alt-a", "ctrl-c", "ctrl-d", "enter"}
Editing == {"tab", "backspace", "ctrl-u", "ctrl-w", "command"}

ASSUME TerminalAssumption ==
  /\ Width \in Nat \ {0} /\ StatusCells \in Nat \ {0} /\ MaxPresses \in Nat /\ MaxBlocks \in Nat
  /\ Presses \subseteq Text \cup Ignored \cup Editing
  /\ Names \subseteq Seq(Text) \ {<<>>}

VARIABLES
  raw,      \* the terminal is in raw mode
  mu,       \* who has UI.mu
  bottom,   \* the row of the cursor, as it was drawn last
  rows,     \* blocks printed above it
  scraps,   \* the marks of wrapped prompts whose upper rows are still there
  keys,     \* runes of the last key pressed that are not read yet
  pressed,  \* keys pressed so far for the line
  meant,    \* the line the user means to have typed
  files,    \* the files dragged onto it
  tidy,     \* nothing but a command's name and files was typed
  input,    \* UI.input
  esc,      \* ReadLine: not in skipEscape, at its first rune, after it, or done with it
  main,     \* the main goroutine: reading, in App.command, or leaving the loop
  args,     \* the arguments of the command
  online,   \* UI.online
  status,   \* the keys of UI.status
  transfer, \* what uploadLoop and downloadLoop are at
  late,     \* a transport has read bytes of an upload and not reported them
  wanted,   \* blocks to be printed so far
  leaving,  \* shutdown: who has restored the terminal
  gone      \* the process has ended

screen == <<raw, mu, bottom, rows, scraps>>
user   == <<keys, pressed, meant, files, tidy>>
edit   == <<input, esc, main, args>>
marks  == <<online, status>>
work   == <<transfer, late, wanted>>
ending == <<leaving, gone>>
vars   == <<screen, user, edit, marks, work, ending>>

Loops == {"up", "down"}
Ways  == {"main", "watcher"}

-------------------------------------------------------------------------------
(* UI.redraw.                                                              *)

\* The columns of "connecting...", of the texts of the transfers and of what is
\* around and between them: "[", " . ", "] " and "> ".
InfoCells(isOnline, shown) ==
  LET parts == Cardinality(shown) + (IF isOnline THEN 0 ELSE 1)
      texts == StatusCells * Cardinality(shown) + (IF isOnline THEN 0 ELSE 11)
  IN IF parts = 0 THEN 0 ELSE texts + 3 * (parts - 1) + 3

PromptCells(isOnline, shown) == InfoCells(isOnline, shown) + 2

\* One column is left for the cursor.
Room(isOnline, shown) == Width - PromptCells(isOnline, shown) - 1

Tail1(s, n) == IF Len(s) > n THEN SubSeq(s, Len(s) - n + 1, Len(s)) ELSE s

Prompt(isOnline, shown, line) ==
  LET room == Room(isOnline, shown)
  IN [online |-> isOnline, shown |-> shown, tail |-> Tail1(line, IF room < 1 THEN 1 ELSE room)]

\* "\r\x1b[K" clears the row of the cursor only: of a prompt that takes several
\* rows the upper ones stay where they are.
Wraps(row) == PromptCells(row.online, row.shown) + Len(row.tail) > Width

ClearsRow ==
  scraps' = scraps \cup (IF Wraps(bottom) THEN {[online |-> bottom.online, shown |-> bottom.shown]} ELSE {})

Draws  == bottom' = Prompt(online', status', input')
Redraw == ClearsRow /\ Draws

-------------------------------------------------------------------------------
(* The user.                                                               *)

\* The runes a key sends.
Runes(p) ==
  CASE p = "delete"  -> <<"esc", "[", "3", "~">>
    [] p = "f1"      -> <<"esc", "O", "P">>
    [] p = "alt-a"   -> <<"esc", "a">>
    [] p = "command" -> <<"/", Space>>
    [] OTHER         -> <<p>>

\* A line without its last word and what follows it.
WithoutLastWord(s) ==
  LET word  == {k \in 1 .. Len(s) : s[k] # Space}
      spaces == {k \in 1 .. Len(s) : s[k] = Space /\ \E j \in word : k < j}
  IN SubSeq(s, 1, Cardinality({k \in 1 .. Len(s) : \E j \in spaces : k <= j}))

Means(p) ==
  CASE p \in Ignored     -> meant
    [] p = "tab"         -> Append(meant, Space)
    [] p = "backspace"   -> SubSeq(meant, 1, Len(meant) - 1)
    [] p = "ctrl-u"      -> <<>>
    [] p = "ctrl-w"      -> WithoutLastWord(meant)
    [] p = "command"     -> meant \o <<"/", Space>>
    [] OTHER             -> Append(meant, p)

\* What is pressed while ReadLine waits for the lock is as good as pressed later.
CanPress == raw /\ ~gone /\ main = "reading" /\ keys = <<>> /\ esc = "no"

Counted(n) == pressed + n <= MaxPresses /\ pressed' = pressed + n

Press(p) ==
  /\ CanPress /\ Counted(IF p = "enter" \/ (p = "command" /\ meant = <<>>) THEN 0 ELSE 1)
  /\ keys' = Runes(p) /\ meant' = Means(p)
  /\ tidy' = \/ p = "command" /\ meant = <<>>
             \/ tidy /\ p \in Ignored \cup {Space, "tab"}
  /\ files' = IF tidy' /\ tidy THEN files ELSE <<>>
  /\ UNCHANGED <<screen, edit, marks, work, ending>>

\* The terminal writes the name of a file, quoted, and a space.
Drag(name, style) ==
  /\ CanPress /\ Counted(1)
  /\ keys' = Append(Quoted(name, style), Space)
  /\ meant' = meant \o keys' /\ files' = IF tidy THEN Append(files, name) ELSE <<>>
  /\ UNCHANGED <<screen, tidy, edit, marks, work, ending>>

-------------------------------------------------------------------------------
(* UI.ReadLine: one action for each case of its switch.  A rune in ReadLine's *)
(* hand while it waits for the lock is one that is not read yet.            *)

Reads(r) ==
  /\ main = "reading" /\ keys # <<>> /\ r = Head(keys) /\ keys' = Tail(keys)
  /\ UNCHANGED <<raw, bottom, rows, scraps, pressed, meant, files, tidy, marks, work, ending>>

Takes(r) == esc = "no" /\ mu = "free" /\ Reads(r)

Edits(r, line) ==
  /\ Takes(r)
  /\ input' = line
  /\ mu' = "ReadLine"
  /\ UNCHANGED <<esc, main, args>>

\* The end of each round: the redraw, and the lock is given back.
ReadLineRedraws ==
  /\ mu = "ReadLine" /\ esc = "no"
  /\ mu' = "free"
  /\ UNCHANGED <<raw, rows, user, edit, marks, work, ending>>
  /\ Redraw

\* A tab is typed as a space.
TypedTab == Space

ReadText(r)   == r \in Text /\ Edits(r, Append(input, r))
ReadTab == Edits("tab", Append(input, TypedTab))
ReadBackspace == Edits("backspace", SubSeq(input, 1, Len(input) - 1))
ReadCtrlU     == Edits("ctrl-u", <<>>)

Stripped(s, P(_)) ==
  LET kept == {k \in 1 .. Len(s) : ~P(s[k])}
  IN IF kept = {} THEN <<>> ELSE SubSeq(s, 1, CHOOSE k \in kept : \A j \in kept : j <= k)
IsSpace(r)  == r = Space
NotSpace(r) == r # Space

\* strings.TrimSpace.
Trimmed(s) ==
  LET kept == {k \in 1 .. Len(s) : s[k] # Space}
  IN IF kept = {} THEN <<>>
     ELSE SubSeq(s, CHOOSE k \in kept : \A j \in kept : k <= j, CHOOSE k \in kept : \A j \in kept : j <= k)

EraseWord(s)   == Stripped(Stripped(s, IsSpace), NotSpace)

ReadCtrlW == Edits("ctrl-w", EraseWord(input))

\* The line is returned after the redraw; App.run trims it and App.command splits it.
ReadEnter ==
  /\ Takes("enter")
  /\ input' = <<>>
  /\ mu' = "ReadLine"
  /\ main' = "command" /\ args' = splitArgs(Trimmed(input))
  /\ UNCHANGED esc

\* Ctrl-C, and Ctrl-D on an empty line: Outgoing says when confirmQuit lets the
\* program end; otherwise run calls ReadLine again, which goes on with the line.
LineKept == input

Quits(r) ==
  /\ Takes(r)
  /\ main' \in {"reading", "leaving"}
  /\ input' = LineKept
  /\ UNCHANGED <<mu, esc, args>>

ReadCtrlC == Quits("ctrl-c")
ReadCtrlD ==
  \/ input = <<>> /\ Quits("ctrl-d")
  \/ input # <<>> /\ Edits("ctrl-d", input)

\* Who has the lock while skipEscape waits for the rest of a key.
BugHeldInEscape == "ReadLine"
InEscape == "free"

ReadEscape ==
  /\ Takes("esc")
  /\ esc' = "first" /\ mu' = InEscape
  /\ UNCHANGED <<input, main, args>>

\* The runes that end a sequence, 0x40 to 0x7e, among those of Text.
BugTildeGoesOn == {"a", "A", "O", "P", "[", Backslash}
Finals == {"a", "A", "O", "P", "[", Backslash, "~"}

\* skipEscape reads one more rune.
SkipsOne(r) ==
  /\ esc \in {"first", "rest"} /\ Reads(r)
  /\ esc' = CASE esc = "first" -> IF r \in {"[", "O"} THEN "rest" ELSE "done"
              [] esc = "rest"  -> IF r \in Finals THEN "done" ELSE "rest"
  /\ UNCHANGED <<mu, input, main, args>>

ReadLineRelocks ==
  /\ esc = "done" /\ mu = InEscape
  /\ esc' = "no" /\ mu' = "ReadLine"
  /\ UNCHANGED <<raw, bottom, rows, scraps, user, input, main, args, marks, work, ending>>

\* App.command is done and run calls ReadLine again.
CommandDone ==
  /\ main = "command" /\ mu # "ReadLine"
  /\ main' \in {"reading", "leaving"}
  /\ args' = <<>> /\ meant' = <<>> /\ files' = <<>> /\ tidy' = FALSE /\ pressed' = 0
  /\ UNCHANGED <<screen, keys, input, esc, marks, work, ending>>

-------------------------------------------------------------------------------
(* The other goroutines.                                                   *)

Wants ==
  /\ ~gone /\ wanted < MaxBlocks /\ wanted = rows
  /\ wanted' = wanted + 1
  /\ UNCHANGED <<screen, user, edit, marks, transfer, late, ending>>

\* UI.Print: the block takes the place of the prompt, which is drawn below it.
PrintBlock ==
  /\ ~gone /\ rows < wanted /\ mu = "free"
  /\ mu' = "Print"
  /\ ClearsRow /\ rows' = rows + 1
  /\ UNCHANGED <<raw, bottom, user, edit, marks, work, ending>>

PrintRedraws ==
  /\ ~gone /\ mu = "Print"
  /\ mu' = "free"
  /\ UNCHANGED <<raw, rows, scraps, user, edit, marks, work, ending>>
  /\ Draws

\* UI.SetOnline and UI.SetStatus lock, set, redraw and unlock.
Shows ==
  /\ ~gone /\ mu = "free"
  /\ UNCHANGED <<raw, mu, rows, user, edit, wanted, ending>>
  /\ Redraw

\* UI.SetOnline, from subscribeLoop.
SetOnline(b) ==
  /\ online' = b
  /\ UNCHANGED <<status, transfer, late>>
  /\ Shows

\* UI.SetStatus.
SetStatus(key, shown) ==
  /\ status' = IF shown THEN status \cup {key} ELSE status \ {key}
  /\ UNCHANGED online
  /\ Shows

\* uploadLoop and downloadLoop take something.
Begins(k) ==
  /\ ~gone /\ transfer[k] = "idle"
  /\ transfer' = [transfer EXCEPT ![k] = "busy"]
  /\ UNCHANGED <<screen, user, edit, marks, late, wanted, ending>>

\* downloadLoop reads the body itself; an upload's is read by the transport, which
\* reports in a goroutine of its own, after the site's answer too.
DownloadReports == transfer["down"] = "busy" /\ SetStatus("down", TRUE) /\ UNCHANGED <<transfer, late>>

TransportReads ==
  /\ ~gone /\ transfer["up"] = "busy" /\ ~late
  /\ late' = TRUE
  /\ UNCHANGED <<screen, user, edit, marks, transfer, wanted, ending>>

UploadReports == late /\ late' = FALSE /\ SetStatus("up", TRUE) /\ UNCHANGED transfer

BugNotCleared(k) == k \in status
StillShown(k) == FALSE

Finishes(k) ==
  /\ transfer[k] = "busy"
  /\ transfer' = [transfer EXCEPT ![k] = "idle"]
  /\ SetStatus(k, StillShown(k))
  /\ UNCHANGED late

-------------------------------------------------------------------------------
(* shutdown in App.run, by the main goroutine or by the one that waits for  *)
(* signals and for the end of the room, or by both.                         *)

RawAfter(w) == FALSE

\* It has said goodbye and restores the terminal.
Restores(w) ==
  /\ ~gone /\ w \notin leaving /\ (w = "main" => main = "leaving")
  /\ leaving' = leaving \cup {w}
  /\ raw' = RawAfter(w)
  /\ UNCHANGED <<mu, bottom, rows, scraps, user, edit, marks, work, gone>>

Exits(w) ==
  /\ ~gone /\ w \in leaving
  /\ gone' = TRUE
  /\ UNCHANGED <<screen, user, edit, marks, work, leaving>>

-------------------------------------------------------------------------------
Init ==
  /\ raw = TRUE /\ mu = "free" /\ rows = 0 /\ scraps = {} /\ keys = <<>> /\ pressed = 0
  /\ meant = <<>> /\ files = <<>> /\ tidy = FALSE
  /\ input = <<>> /\ esc = "no" /\ main = "reading" /\ args = <<>>
  /\ online = FALSE /\ status = {}
  /\ bottom = Prompt(online, status, input)
  /\ transfer = [k \in Loops |-> "idle"] /\ late = FALSE /\ wanted = 0
  /\ leaving = {} /\ gone = FALSE

User == (\E p \in Presses : Press(p)) \/ (\E name \in Names, style \in Styles : Drag(name, style))

ReadLine ==
  \/ (\E r \in Text : ReadText(r) \/ SkipsOne(r))
  \/ ReadTab \/ ReadBackspace \/ ReadCtrlU \/ ReadCtrlW \/ ReadEnter \/ ReadCtrlC \/ ReadCtrlD
  \/ ReadEscape \/ ReadLineRelocks \/ ReadLineRedraws

Transfers ==
  \/ \E k \in Loops : Begins(k) \/ Finishes(k)
  \/ DownloadReports \/ TransportReads \/ UploadReports

Shutdown(w) == Restores(w) \/ Exits(w)

Next ==
  \/ User
  \/ ~gone /\ (ReadLine \/ CommandDone)
  \/ Wants \/ PrintBlock \/ PrintRedraws \/ (\E b \in BOOLEAN : SetOnline(b)) \/ Transfers
  \/ \E w \in Ways : Shutdown(w)

Spec == Init /\ [][Next]_vars

\* A goroutine that has the mutex goes on with what it does, and one that waits
\* for it gets it if it is free again and again: sync.Mutex hands itself to a
\* goroutine that has waited for a millisecond.  The user and the line to the
\* terminal owe nothing, so that a key may stop in the middle of its runes.
FairSpec ==
  /\ Spec
  /\ WF_vars(~gone /\ ReadLineRedraws) /\ WF_vars(PrintRedraws)
  /\ SF_vars(PrintBlock)

-------------------------------------------------------------------------------
(* Properties.                                                             *)

Line == Seq(Text)

TypeOK ==
  /\ raw \in BOOLEAN /\ mu \in {"free", "ReadLine", "Print"}
  /\ rows \in 0 .. wanted /\ wanted \in 0 .. MaxBlocks
  /\ scraps \subseteq [online : BOOLEAN, shown : SUBSET Loops]
  /\ bottom.online \in BOOLEAN /\ bottom.shown \subseteq Loops /\ bottom.tail \in Line
  /\ keys \in Seq(Text \cup Presses \cup {"esc"}) /\ pressed \in 0 .. MaxPresses
  /\ meant \in Line /\ files \in Seq(Line) /\ tidy \in BOOLEAN
  /\ input \in Line /\ esc \in {"no", "first", "rest", "done"}
  /\ main \in {"reading", "command", "leaving"} /\ args \in Seq(Line)
  /\ online \in BOOLEAN /\ status \subseteq Loops
  /\ transfer \in [Loops -> {"idle", "busy"}] /\ late \in BOOLEAN
  /\ leaving \subseteq Ways /\ gone \in BOOLEAN

\* What the user edits is what the user means to edit, whatever keys send several
\* runes, whatever is printed meanwhile, in the middle of one too, and though
\* Ctrl-C returned from ReadLine and came back: no rune of a cursor key or a
\* function key stays in the line, and Ctrl-W takes a word.
LineIsMeant == keys = <<>> /\ main = "reading" => esc \in {"no", "done"} /\ input = meant

\* Files dragged onto a command, in any way a terminal quotes them, with cursor
\* keys and spaces between them, are the arguments of the command, byte for byte
\* (not so a name that ends in a space: run trims the line before it is split).
FilesArrive ==
  main = "command" /\ tidy => args # <<>> /\ Head(args) = <<"/">> /\ Tail(args) = files

\* splitArgs(line)[0] in App.command is there for every line it is called with.
SplitsOff == main = "command" /\ Trimmed(meant) # <<>> /\ Head(Trimmed(meant)) = "/" => args # <<>>

\* What App.command and App.run get to split is split as it was meant.
ArgsArrive == FilesArrive /\ SplitsOff

Suffixes(s) == {SubSeq(s, k, Len(s)) : k \in 1 .. Len(s) + 1}

\* Whenever nobody is writing, the bottom row says what is true: whether the
\* reader is online, the transfers that reported, and as much of the end of the
\* line as fits before the last column ("so the prompt never wraps"), one rune at
\* the least.
PromptTrue ==
  raw /\ mu = "free" =>
    LET used == PromptCells(online, status)
        fits == {s \in Suffixes(input) : used + Len(s) < Width \/ Len(s) <= 1}
    IN /\ bottom.online = online /\ bottom.shown = status
       /\ bottom.tail \in fits /\ \A s \in fits : Len(s) <= Len(bottom.tail)

\* Only prompts whose marks alone fill the terminal leave rows behind among what
\* is printed: no line the user types, however long, makes one that does.
ScrapsOfMarks == \A p \in scraps : PromptCells(p.online, p.shown) >= Width

\* The download in the prompt is one that runs.
DownloadTrue == "down" \in status => transfer["down"] = "busy"

\* The terminal is given back before the process ends, whoever ends it.
Restored == gone => ~raw

\* The screen and the terminal are as the program believes they are.
ScreenInv == TypeOK /\ PromptTrue /\ ScrapsOfMarks /\ DownloadTrue /\ Restored

\* What is to be printed is printed, though the user stops in the middle of a key
\* or types without end.
PrintsGoOn == (rows < wanted) ~> (rows = wanted \/ gone)

\* ui.go: "show the tail of long input so the prompt never wraps".  Refuted: a
\* transfer's text alone can be wider than the terminal, and then the upper rows
\* of each prompt stay on the screen when the next one is drawn.
NeverWraps == raw => ~Wraps(bottom) /\ scraps = {}

\* Refuted as well: an upload the site refuses early is reported once more by
\* the transport after uploadLoop has taken it off the prompt.
UploadTrue == "up" \in status => transfer["up"] = "busy"
================================================================================
