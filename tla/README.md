# A verification of the bchr.xyz terminal reader

TLA+ models of the reader in `src/` (a Go client for end-to-end encrypted chat
rooms), TLC configurations that check them on small instances, and proofs that
TLAPS checks for every value of their constants.

## The system

One process (`reader`) joins one room of the bchr.xyz server. The server is not
in the repository: everything about it is modelled from how the client uses it
(frames it parses, requests it sends) and marked *external* in `PROJECT.json`.

| component | code | state it keeps | operations | talks to |
|---|---|---|---|---|
| startup | `main.go` `main`, `login.go`, `term_*.go` | password, session cookie | flags, sign-in or guest name, first `/initialize`, password prompt | terminal, server, `run` / `runSend` |
| connection | `main.go` `subscribeLoop`, `run`; `room.go` `Initialize`, `Subscribe`, `ticket` | websocket, backoff, `joined`, `closed` | initialize, ticket, dial, read, ping, back off, shut down | server, `receive`, signals, main loop |
| keeper | `keep-room.sh` | none | restart the reader 30 s after it ends | the process |
| conversation | `main.go` `receive`, `show`, `remember`, `editLog`, `applyVote`, `trackPoll` | `replayLeft`, `seenMIDs`, `log`, `files`, `polls`, `lastSpoiler` | one per kind of frame | websocket, download queue, screen |
| presence | `main.go` `seen`, `signal`, `heartbeat`, `sayLeave`, `who`, `/away`, `/back` | `peers`, `away` | join, here, leave, away, heartbeat, prune | other readers through the server |
| outgoing | `main.go` main loop, `command`, `sendLoop`, `uploadLoop`, `confirmQuit`, `runSend` | `outbox`, `uploads`, `pendingUploads`, `quitWarned` | commands, publish, upload, quit | terminal, server |
| file store | `room.go` `Upload`, `Download`, `reserveName`, `safeFilename`; `main.go` `downloadLoop`, `get` | download directory, `downloads` | upload, download, choose a free name | server, file system |
| file and message codec | `room.go` `encryptFile`, `decryptFile`, `chunkAAD`, `encryptChat`, `decryptChat`, keys | none | seal and open records and envelopes | file store, outgoing, connection |
| forum | `main.go` `loadForum`, `applyForum`, `printThread`, `forumSend`; `room.go` `ForumInfo`, `ForumLog`, `ForumPost` | threads and posts | load the log in pages, apply live events, post | server, screen |
| terminal | `ui.go`, `splitArgs` | `input`, `online`, `status`, raw mode | read a line key by key, print above the prompt, split arguments, give the terminal back | `command`, every printing goroutine |
| moderation | `room.go` `Nuke`, `Report`; `main.go` `/nuke`, `/report`, `/flag`, `/feature` | none | one request each | server |

How they interact. `main` signs in, finds out whether the room's password is
right and calls `App.run`, which starts one goroutine per loop (`subscribeLoop`,
`heartbeat`, `sendLoop`, `uploadLoop`, `downloadLoop`, and one that waits for a
signal or a block) and then reads lines until the process ends. `Subscribe`
calls `receive` for every frame it decrypts and `onOpen` when the websocket is
open. `receive` fills the download channel, changes the lists under `App.mu`
and starts a goroutine for every presence signal it answers with. `/flag`,
`/thread` and `/post` start a goroutine per use. Whoever prints takes `UI.mu`
and redraws the prompt. Everything ends through `shutdown`, which says goodbye,
restores the terminal and calls `os.Exit`: no deferred call runs then.

Sections under the two mutexes, `App.mu` and `UI.mu`, are short and wait for
nothing but each other, always in this order: `printThreads` and `threadArg`
(`main.go:1076`, `main.go:1093`) print with `App.mu` held, and nothing in `ui.go`
takes `App.mu`. So a section under `App.mu` is one step of a model. `UI.mu` is a
variable of `Terminal`, because `ReadLine` gives it up and takes it back around an
escape sequence, whose runes may never come.

### What is hard here

* **Lost connections and replays.** A subscription to a room that keeps its
  messages starts with "replay *n*" and the last *n* messages, repeats of what
  was shown included, and the reader only has a countdown (`replayLeft`) and a
  set of ids (`seenMIDs`) to tell old from live and new from seen.
* **Presence without order.** Every signal is a request of its own in a
  goroutine of its own: a reader's signals overtake each other, fail, and arrive
  after it has gone, while the lists of the others only have ages to go by.
* **Ends at any moment.** A signal, a block by the admins, `/quit` and an error
  come together with requests, reads, waits and downloads in any state.
* **Failures in the middle.** Each of `Download`'s calls can fail with a
  temporary file made or a name taken; several readers share one directory. A
  file that is uploaded changes under `encryptFile`'s hands.
* **Three goroutines, one counter.** `/quit` asks `pendingUploads`, which the main
  loop raises before it pushes a file and `uploadLoop` lowers when it is done.
* **A load without a lock.** The forum's log is read in pages, before the
  subscription and while it grows.
* **A prompt everybody draws.** `ReadLine` gives `UI.mu` up while it waits for
  the next rune, in the middle of an escape sequence too; whoever draws takes one
  row off the screen, and a prompt can be wider than that.
* **Limits.** 200 remembered messages, 1024 queued downloads and uploads, an
  outbox of 256, three passwords, a wait of at most 30 seconds, 1000 names tried.

### What makes each component correct

| component | properties |
|---|---|
| conversation | messages are shown once and in order, none missed where the server keeps them; `replayLeft` never takes live for old; deleted, cleared and wiped things stay away; only their authors change messages; the log and the votes converge to what was said |
| connection | the online mark is true; waits double up to 30 s and are reset by success; only a block or the user ends the reader; it always comes back to a room that can be entered; a signal always ends it |
| presence | whoever has gone is forgotten in time; whoever is here stays listed although signals get lost; invisible users are never listed; nobody changes anybody else's entry; lists settle on the truth |
| file store | saved files are whole, nothing is overwritten, nothing is left behind, every whole file gets a name or an error |
| outgoing | messages go out in the order they were typed, once, or are reported; what was accepted does not vanish; `/quit` warns while a file is on its way; an announced file decrypts and a damaged one does not; `reader send` tells the truth; everything comes to an end, also while transfers hang |
| forum | the list is what the log holds of what reached the reader: each thread and reply once, in order, under its thread and its first number; loading ends |
| terminal | the line is what the user means, the arguments are the dragged files; the bottom row is true whenever nobody is writing; no line, however long, makes a prompt that leaves rows behind among the prints; a print never waits for the user; the terminal is given back |

## Modules

| module | what it is | proofs |
|---|---|---|
| `Transcript` | abstract: a room's postings are shown to a reader in order, each once, optionally none missed | |
| `Conversation` | `App.receive` and its helpers against a server that keeps, replays, relays and forgets | `ConversationProofs` |
| `Connection` | the life of a reader process: password, subscription loop, ends, `keep-room.sh` | `ConnectionProofs` |
| `SavedFiles` | abstract: files appear at once, whole, under free names | |
| `FileStore` | `Room.Download`, `decryptFile`, `reserveName` as `downloadLoop` runs them, several readers in one directory | `FileStoreProofs` |
| `Presence` | what several readers say of themselves and the lists they keep, in discrete time | `PresenceProofs` |
| `Postbox` | abstract: messages are posted in order, once, or reported | |
| `FileStream` | pure: the records of an upload, the announced length, what `decryptFile` accepts | in `OutgoingProofs` |
| `Outgoing` | the main loop, `command`'s channels, `sendLoop`, `uploadLoop`, `/flag`, `/quit`, `reader send` (EXTENDS `FileStream`) | `OutgoingProofs` |
| `Forum` | `loadForum`, `applyForum`, own events, against a forum that grows (refines `Transcript`) | `ForumProofs` |
| `CommandLine` | pure: `splitArgs`, and how terminals quote dragged files | in `TerminalProofs` |
| `Induction` | lemmas of arithmetic and induction over sets that the proofs share | itself |
| `Terminal` | keys, `ReadLine`, the prompt, prints and the end (EXTENDS `CommandLine`) | `TerminalProofs` |
| `MCConversation`, `MCConnection`, `MCFileStore`, `MCPresence`, `MCOutgoing`, `MCForum`, `MCTerminal` | instances for TLC | |

The components are modelled apart. Their common variables are few and are
treated as input where they are not modelled: `Conversation` takes `Connect` and
`Drop` as they come, and `Connection` describes when they do; `Conversation` and
`Outgoing` end at the download channel, which `FileStore` takes items from;
`Presence` and `Forum` have subscriptions of their own; `Outgoing` takes the first
subscription, a signal and the end of the room as events, and says when
`confirmQuit` lets the program go, which `Terminal` leaves open. Operators named
`Bug…` are plausible mistakes in the definition that follows them; no
specification uses them, and each property is known to fail when its mistake is
put in (`mutants` in `PROJECT.json`).

### Conversation

State: `replayLeft`, `seenMIDs`, `log`, `files`, `downloads`, `lastSpoiler`,
`polls`/`votes`/`lastPoll` are the fields of `App` of those names (`log` as a set,
its order being that of ids, which `ShownInOrder` justifies; a posting's number
stands for its id and its timestamp). `said`, `kept`, `wire` are the server's and
the network's. `shown`, `joinedAt`, `since`, `offered`, `hints`, `deleted`,
`cleared`, `wipedAt` are history for the properties.

Actions: `Receive…` is one action for each way through `App.receive`, from the
frame's arrival to the end of what it does (`show`, `remember`, `trackPoll`, the
offer to the download channel included); a frame that is only printed (typing,
pins, notices, reactions) is `ReceiveAside`, which still counts down, unless it is
of the room's settings or archive; a timer is content and counts as a text.
`Get` pushes what was on the list at some time (`Listed`), because `App.get` pushes
from a copy it took before.
`ReceiveSealed` is `Subscribe` dropping what does not decrypt. `Post`,
`ServerFrame`, `Connect`, `Drop`, `ServerRestart` are the room; the reader's own
posts come back to it like everybody's.

### Connection

State: `main`, `loop` and `watch` are the places of the three goroutines that
matter (`main`/`run`, `subscribeLoop`, the one waiting for `ctx` and `closed`);
`canceled`, `joined`, `closed` are `ctx` and the two channels; `backoff`,
`lastErr`, `online` are the loop's own; `key` is the room's access token, reduced
to whether it is none, wrong or right; `link` is what the next read will come to,
`mark` whom the server takes the websocket for. `failures`, `everClosed` and
`everBanned` are history.

Actions: `SignIn`, `Knock`, `TypePassword`, `LeavePrompt` are `main`;
`LoopInitialize`, `LoopTicket`, `LoopDial`, `LoopReadFails`, `PingTimesOut`,
`LoopWaits` are one round of `subscribeLoop`; `WatchWakes`, `WatchExits`,
`UserQuits`, `MainExits` are the ways out (saying goodbye lies between the two
steps of each); `Restarts` is `keep-room.sh`. The environment takes the server
down and up, cuts links with or without an error, blocks and reopens the room,
bans us, sets a password and sends a signal.

### FileStore

State: `dir` is the directory (free, the user's file, an empty placeholder, or
some records of an item), `temps` the temporary files, and `phase`, `item`,
`body`, `got`, `try` the variables of each reader's `Download`. One action for
each stretch between two calls: `Start` (request), `MakeTemp`, `Decrypt` (one
record), `EmptyBody`, `StartReserving`, `TryName` (one round of `reserveName`),
`Rename`, `CallFails` (any call returns an error; the deferred `Remove` runs) and
`Crash` (`os.Exit` or a kill; it does not).

Assumed: nobody else touches placeholders and temporary files between their
creation and the rename; temporary names and saved names are disjoint
(`safeFilename` gives out no name with the prefix `CreateTemp` is given); the server ends a
file early or not, but does not splice the records of two files.

### Presence

State: `peers` and `served` are `App.peers`, whose entries from the server's
"here" frame have keys of another kind (`srv:` and a name); an entry keeps its
age where the code keeps the time it was last heard. `beat` is the ticker of
`heartbeat`, `pruning` its place between saying "here" and forgetting. `flight`
holds signals between the goroutine and the server. `lost` and `goneFor` are
history.

Actions: `Start`, `Subscribe` (with its "join"), `Away`/`Back`, `Beat`, `Prune`,
`Leave`, `Crash` are a reader's; `Relay` is the server passing a signal on and
every subscribed reader's `App.seen` (and its answer to a "join"); `Lose` a failed
request; `HereFrame` the server's frame; `Cut` a broken websocket; `Tick` half a
minute, which cannot pass before what was due has happened.

Simplifications: the readers handle a relayed message in one step (the server
sends it to all, and none of them looks at the others); two equal signals on
their way at once are one; the "here" frame comes once after each subscription;
a reader that comes back is another session; what the server replays to a newcomer
is not listened to (`main.go:693`) and is no step; goodbyes are in flight like any
signal, while `sayLeave` waits up to two seconds for its own.

### Outgoing and FileStream

State: `outbox`, `uploads`, `downloads` are the channels (of downloads only how
many), `pending` and `quitWarned` the fields of `App`; `main` and `hand` say where
`command` is and what it has yet to push, `counted` that it has raised `pending`
for a file not yet pushed; `sender` and `uploader` are the two loops with the
message or file in work, `flagging` and `flagged` the goroutines of `/flag`;
`leaving` holds the goroutines in `shutdown`. `posts` and `shared` are the room's;
`taken`, `notSent` and `notShared` are history. A message is the number of the
line it comes from, an upload its place in the order asked for. With mode "send"
the process is `reader send`, whose arguments are `uploads`.

Actions: `TypeMessage`, `TypeAction`, `TypeSend`, `TypeGet`, `TypeFlag`, `Quit`,
`InputEnds` are one round of `run` each; `PushMessage`, `CountUpload`,
`PushUpload`, `PushDownload` the blocking pushes, which are steps of their own
because a channel may be full; `LiveFile` is `receive`'s push, which does not wait; `SenderStarts` … `ReportFailure` are `sendLoop`,
`UploaderStarts` … `UploadReported` `uploadLoop` and `Upload`; a request that the
server acts upon and whose answer is lost is `Answered` against `ReportFailure`
and `Announce` against `AnnounceFails`. `StoreFile` reads the file record by
record with a length that may change between the reads (`FileStream!BytesRead`)
and requires that as many bytes came as `Content-Length` announced. In
`FileStream` one byte of a stream knows its record, that record's mark, its place
in it and the record's length: ideal sealing, so that a block opens exactly when
it is a whole record under its own number and mark.

Assumed: the server acts on a request while the client waits for it or not at
all; Go's channels serve those who wait in turn.

### Forum

State: `log` and `relayed` are the server's; `after`, `fetched`, `replayed` are
`ForumLog`'s cursor and result and `loadForum`'s place in it; `title`, `threads`,
`replies` are `forumState`; `drafts` are the goroutines of `/thread` and `/post`;
`lost`, `heldFirst` and `shownAs` are history. An event's number is its id.

Actions: `Begin`, `ReadPage` (one request, its entries decrypted or dropped, the
cursor moved), `ReplayOne`, `Ready`, `LoadFails` are `loadForum`; `Subscribe`,
`Receive`, `ReceiveSealed` the loop afterwards; `TypeThread`, `TypePost`,
`OwnStored`, `OwnFails` the reader's own events; others store events at any
moment, and the server relays them in another step.

### Terminal and CommandLine

State: `input`, `online`, `status` are `UI`'s and `mu` its lock; `bottom` is the
prompt drawn last as its mark, its texts and the end of the line, `rows` counts the
blocks above it, and `scraps` are the marks of prompts that took more than one row,
of which "\r\x1b[K" (`ui.go:47`, `ui.go:105`) left the upper ones on the screen;
`keys` are runes of the key pressed last that have not arrived, `esc` is
`skipEscape`'s place; `args` is what `command` gets; `transfer` and `late` are what
the transfer loops and the HTTP transport are at. `meant`, `files`, `tidy` are the
user's intention, for the properties: `meant` is edited by keys, `input` by runes.

Actions: `Press` and `Drag` put a key's runes on their way; `Read…` are the cases
of `ReadLine`'s switch, which take `UI.mu` with the rune; `ReadLineRedraws` ends the
round and gives the lock back. `ReadEscape` gives it back at once, `SkipsOne` is one
rune of `skipEscape`, and `ReadLineRelocks` takes the lock again. `PrintBlock` and
`PrintRedraws` are a print that waited for the lock; `SetOnline` and `SetStatus`
lock, redraw and unlock in one step.
`Restores` and `Exits` are `shutdown`, which the main goroutine and the watcher
can run at once.

Assumed: a key's runes arrive before the next key is pressed, and what is pressed
while `ReadLine` waits for the lock is as good as pressed later; every rune takes
one column.

## Runs

| run | checks | instance | states |
|---|---|---|---|
| `conv_history` | exact countdown, log is a window, wiped stays away, live files are queued, implements `Transcript` with gaps | files, disappearing and deleted messages, clears and wipes by two people; four postings, server keeps two, log of two, download channel of one, a drop, a restart | 5 681 000 |
| `conv_whole` | the whole conversation is shown in the end; deletes stay, log and votes converge, only authors change messages | three people, one of them vouched for; texts, edits, deletes, polls, votes, undecryptable messages; three postings, two drops; fair | 1 480 000 |
| `conv_desync` | *violated:* `LiveFileQueued` | files and undecryptable messages | |
| `conn_safety` | online mark and waits, reasons to stop, three passwords | guest at a terminal, wrong password given, nine changes of the world | 1 342 000 |
| `conn_live` | comes back, stays, ends in a closed room and on signals, the keeper's promise | invisible account user under `keep-room.sh`, six changes; fair | 49 000 |
| `file_store` | nothing left behind, nothing overwritten, implements `SavedFiles`, placement ends | two readers, items of two and one records whose candidate names overlap, two tries, a crash of each, a failing call, a user's move | 762 000 |
| `pres_kept` | forgotten in time, whoever is here is kept | two readers (one not vouched for), the program's timing, losses, a post | 889 000 |
| `pres_hidden` | invisible users unlisted, entries have owners | an invisible reader, a reader, and an invisible website user with the reader's session id who posts | 244 000 |
| `pres_settles` | lists settle on the truth | two readers, a broken websocket, a use of `/away` or `/back`; fair | 263 000 |
| `outgoing` | counter, order and nothing lost (`QueuesInv`), `/quit` warns, streams decrypt and damage shows, `reader send` tells the truth, implements `Postbox`, all settles | both modes, channels of one, two lines, two files of sizes around one and two records and one too large, live files; fair | 497 000 |
| `forum` | pages, list and numbers agree with the log (`ForumInv`), implements `Transcript` with gaps, loading ends and the reader catches up | four events in pages of two, one of the reader's, a drop; fair | 1 300 000 |
| `terminal` | the line and the arguments are what was meant, screen and terminal are as believed, no print waits for the user | lines of a command's name, two more keys or dragged files and Enter, 26 columns, a name of a space, a quote and a backslash, one block; fair locks | 1 833 000 |

All passing runs finish within four minutes on two cores. A run with
`CHECK_DEADLOCK FALSE` is of a system that may stop: a process that has ended
without a keeper, or a conversation in which nobody posts any more.

What was checked by runs of their own while the proofs were made and is proved
now is not run again: the type invariants of Conversation, Connection, FileStore
and Presence, `OrderInv`, `ShownInOrder`, `ClearedStayCleared`, `SafetyInv`,
`StoreInv`, `SavedIsWhole` and `PresenceInv`.

### Why the bounds are enough

*Conversation.* What goes wrong with replays needs an old message kept by the
server, a new one, and a reconnection between them; `conv_history` with four
postings and a server that keeps two has old messages forgotten, repeated and new
in one replay, and the two drops of `conv_whole` have a replay cut off by another.
The log of two overflows with three messages, the channel of one with two files.
The order, the countdown and the queue are proved without bounds (below).
*Connection.* Six failures reach the limit of the wait and stay there; nine
changes allow a block after a reconnection after a password change. Safety is
proved for any number. *FileStore.* `MaxTries` is 2 instead of 1000: the second
name tried and the last one are the two cases of the loop; two readers and
overlapping candidate names suffice for a race on a name; proved for any number.
*Presence.* `pres_kept` has the program's own numbers in units of 30 seconds: a
heartbeat of 2, a timeout of 5, and a delay of 1 (requests have a 10-second
timeout). No two signals of a session in a row are lost (`LossRun` = 1), which is
what the timeout of two and a half heartbeats is for; with two in a row `Kept`
fails, as it should. `pres_hidden` and `pres_settles` do not depend on the numbers
and use smaller ones (heartbeat 1, timeout 1 or 2, no delay). *Outgoing.* Channels
of one are full with the second item, so that every push blocks in some behaviour;
two lines and two files put each kind of work before, between and after the other,
and a warning before both. Records of two bytes and files of none to four bytes are
files of no, part of one, one whole and two records, and one that is too large;
order and counter are proved for any capacity. *Forum.* Pages of two and four
events have the last page full, half full and empty, and a whole page that does not
decrypt; one drop and one event of the reader's own meet all of it. *Terminal.* With
26 columns two statuses and a mark leave no room for the line and one of them
leaves little; a command's name and two keys put a cursor key or an end before, between
and after runes; one block finds the lock taken in every round of `ReadLine`; the file name holds all three characters that quoting is about.

### Fairness

`Conversation!FairSpec`: `Connect` and `Receive`, because `subscribeLoop` retries
until the process ends and `Subscribe` reads while it is connected; drops are
bounded. `Connection!FairSpec`: the reader's steps that wait for nobody
(requests and reads end, if only by their timeout, by TCP or by the pinger;
waits by time) and the keeper's 30 seconds; never the user, the server's return
or the admins. `FileStore!FairSpec`: only the search for a name and the rename,
since the request has no timeout and a silent server may hold a download for
ever. `Presence!FairSpec`: the heartbeat's ticker, `subscribeLoop`'s
reconnection, the delivery of what is in flight, and time.

`Outgoing!FairSpec`: the goroutines' own steps, each request that has a timeout,
and the ten seconds of `waitJoined`. A transfer has no timeout (`room.go:294`) and is
fair only after `cancel`; what needs transfers to end says so as a premise
(`TransfersEnd`), and all the rest of `EverythingSettles` holds while one hangs for
ever. Pushes on a channel are strongly fair, since Go serves the goroutines that wait
for a channel in turn. The user is never required to type. `Forum!FairSpec`: the
load, the subscription, the frames on the wire, the goroutines of the reader's own
events and the server's relaying; the load ends because the instance's forum stops
growing. `Terminal!FairSpec`: whoever has `UI.mu` goes on to its redraw (weak), and a print
that waits for the lock gets it if it is free again and again (strong: a
`sync.Mutex` is handed to a goroutine that has waited for a millisecond). Keys need
not come, the rest of an escape sequence included, so a lock held while waiting for
them would be held for good; this is what `PrintsGoOn` is about.

## Where the code does not do what it says

One run ends with a counterexample against words of the repository. `conv_desync`:
`Subscribe` passes on only what decrypts (`room.go:388`), while "replay *n*" counts
all that the server kept, so one undecryptable kept message leaves `replayLeft` above
zero ("earlier messages still to come", `main.go:232`) and the next live file of
somebody else is not saved.

Further properties are stated in the modules and are refuted by the code in the
same way; they have no run. Each can be tried by putting it in place of the
properties of the configuration named.

| property | the words | what happens |
|---|---|---|
| `Conversation!FilesOffered` (ConvHistory) | `README:49` shared files are saved | a file shared while the reader is reconnecting comes with the replay, counts as old and is neither saved nor announced |
| `Conversation!HintsStayTrue` (ConvHistory, kinds file and cleared, five postings) | `main.go:851` "use /get %d later" | a clear or a wipe renumbers the list, and the number fetches another file |
| `Conversation!SpoilerIsWiped` (ConvHistory, kinds spoiler and nuke) | `main.go:721` "messages and files are gone" | `/reveal` still shows a spoiler from before the wipe |
| `Conversation!WipesTogether` (ConvHistory) | `README:57` "everyone wipes together" | a reader that is reconnecting is never told of the wipe and keeps its log and list |
| `Connection!OnlyAClosedRoomStops` (ConnSafety) | `README:102` only a blocked room | a ban of the person ends the reader as well |
| `Connection!PasswordIsAsked` (ConnSafety, `Given = FALSE`) | `README:67` "or it asks" | when the first request fails for another reason, the loop later finds the password wrong and never asks |
| `Connection!InvisibleIsHidden` (ConnLive) | `main.go:67` an invisible user is not announced | when the ticket cannot be had, `Subscribe` dials without (`room.go:338`) and the reader counts as visible |
| `Presence!AwayShown` (PresSettles) | `main.go:449` "show as away" | the "here" that answers a "join" carries no away mark (`main.go:707`), nor does the "join" of a reconnection: until the next heartbeat the user shows as here |
| `FileStore!NoLitter` (FileStore) | `room.go:828` the deferred `Remove` | quitting during a download calls `os.Exit` and leaves the temporary file |
| `Forum!AllShowUp` (Forum) | `README:63` new threads "show up as they're posted" | what is relayed between the last page and the subscription, or while disconnected, is not shown until the next start |
| `Terminal!NeverWraps` (Terminal) | `ui.go:96` "so the prompt never wraps" | marks as wide as the terminal wrap the prompt all the same, and its upper rows stay on the screen when it is drawn again or something is printed (`Terminal!ScrapsOfMarks`, which is proved, says that only such marks do) |
| `Terminal!UploadTrue` (Terminal) | `main.go:1209` what the prompt shows is taken off after the upload | the HTTP transport may read on after an early answer and set it again, for good |

Observed while modelling and stated here only:

* Lines piped in before a `/quit` can be lost: the process ends with the outbox as it
  is, and with the messages that wait for the room to be joined (`README:35`).
* `quitWarned` is only reset by a plain message, so uploads asked for after a first
  warning are aborted by a single `/quit`. `QuitAsksFirst` states what holds.
* A file that shrinks while it is read and grows again can be announced with a
  stream nobody can decrypt. `AnnouncedDecrypts` has "the file did not shrink"
  (`steady`) as its premise.
* A dragged file whose name ends in a space loses it to `TrimSpace`
  (`main.go:350`). A lone Esc swallows the next key; Alt with an arrow and the
  Linux console's function keys leave runes in the line. The keys of the model are
  those whose sequences `skipEscape` knows.
* `/post  2 hello`, with two spaces, posts "2 hello" instead of "hello"
  (`main.go:423`).
* Own forum events are a goroutine each, so two of them can be stored in the other
  order than they were typed in. `Forum` has this behaviour; no property excludes it.
* A signal while the password is asked for finds no handler yet and leaves the
  terminal raw; what was typed ahead of the prompt's end is lost with the prompt's
  own buffer (`login.go`).
* A read error other than the end of the input ends the main loop's reading: the
  reader stays in the room and hears no key any more.

## Proofs

TLAPS checks every theorem for all values of the constants, under the named
assumption of each module: sets are what their comments say, bounds are natural
numbers, capacities are positive, `Invisible` implies `Login`, and so on. Where a
theorem has a further hypothesis it is named below with the theorem; the
configuration of the run that checks the property satisfies it.

Every safety property that a passing run checks, the refinements included, is a
theorem.

* **ConversationProofs.** `TypeCorrect`; `OrderInvariant`: the inductive
  invariant `OrderInv`. That messages are shown in order is not inductive by
  itself: it needs that what is new on the wire or kept is later than all that
  was seen (`NewComesLater`), and this needs that while the reader is connected
  whatever the server keeps and the reader has not seen is still on the wire
  (`NewIsOnItsWay`), or a later replay could bring it after newer ones.
  `InOrderOnce` and `ImplementsTranscript` (refinement of `Transcript`, with gaps
  allowed) follow. `GoneForGood` proves that deleted messages and cleared files
  do not come back, since their ids stay in `seenMIDs`. `WipedForGood`: nothing
  from before a wipe is in a list, since the server keeps nothing from before a
  wipe that it has reported (`KeptAfterWipes`) and what is on the wire comes in
  time (`HeardInTime`). `AuthorsOnly`: a message's text is its author's. `ReplayCounts` and
  `LiveFilesQueued`: the countdown is the number of frames on the wire that were
  said before the subscription (`Expected`, `EarlierWasKept`, `HeaderMeansKept`),
  so a live file is never taken for an old one. Their hypothesis is that no
  message is undecryptable (`"sealed" \notin Kinds`), and `conv_desync` shows what
  happens otherwise. `LogIsAWindow`: with a message the log holds every later one
  shown and not taken away, since `remember` drops the earliest. `WholeLogConverges`
  and `WholeVotesConverge` have the hypothesis `WholeRoom`: the server keeps and
  shares the room's messages, its window and the reader's are as large as the room,
  it does not restart, and there are no wipes; a reader whose log is smaller than
  the room must forget, so it cannot agree with the whole room. There, what the
  server keeps and is later than something on the wire is on the wire too
  (`KeepInv`): whatever the reader handles last of one message's edits is the last
  edit. So the log is right about every message whose newest edit and whose deletes
  are not on the wire any more (`LogWhole`), and the votes about everybody whose
  newest ballot is not (`VotesWhole`); in between, both may show older choices again
  while a replay passes.
* **ConnectionProofs.** `TypeCorrect`, whose step for `asks` needs that the
  prompt is reached only with tries left; `Safety`: `SafetyInv` is inductive
  because the wait is a function of the number of failures (`BackoffStep`) and
  because what says "blocked" was said by the admins (`BlockIsTold`). `LoopTruthful`
  (the online mark, the waits) and `BlockedOnly` (why the reader stops) are its
  parts as the run checks them. `AskedThreeTimes`: there are only three ways to the
  exit status 1 (`StatusOne`), and at a terminal the third wrong password is the one
  the program exits with.
* **FileStoreProofs.** `StoreInv` is inductive: a reader about to rename owns the
  placeholder at its destination and nobody else is about to rename there, and
  its temporary file has all the records. `SavedWhole`, `NothingOverwritten` and
  `Implements` (refinement of `SavedFiles`) follow, for any number of readers
  and whichever candidate names overlap.
* **PresenceProofs.** `Laws`: `PresenceInv` is inductive. An entry's age and the
  units until its reader's next pruning never sum to more than the timeout and a
  heartbeat (`AgeLaw`); a signal's sender has been gone for at most the part of
  the delay it has used up (`FlightLaw`); so somebody behind an entry has been
  gone for at most its age and the delay (`EntryLaw`, `ServedLaw`). `TypeCorrect`
  and `Forgets` follow for any timing, any number of sessions and any sharing of
  ids and names; `OwnersKeep` is the action property that entries change hands
  only after they were dropped. `InvisibleStay` has the hypothesis `Apart`: no
  visible user has an invisible one's name, and no visible guest an invisible
  one's session id. A vouched entry is bound to its name, but a guest's is bound to
  nothing but the session id, and whoever copies that from a message may
  refresh the entry under a name of theirs. `NobodyDropped` has the hypothesis
  `Steadfast`: session ids are not shared, websockets do not break, and the timeout
  is at least one heartbeat more than can get lost in a row, and a delay (the
  program's two and a half heartbeats are exactly that for one lost signal). An
  entry's age alone says nothing about its owner; the invariant (`Within`) bounds it
  by what has happened to the owner's signals since: it and the units to the next
  "here" come to no more than a heartbeat for each signal lost in a row, for each
  still on its way and for the next; and for every signal on its way, it and what
  is left of that signal's delay to no more than a heartbeat for each signal lost,
  each due earlier and one more, and the delay. The second half makes signals that
  overtake each other harmless: at the pruning, the one due first has none before it.
* **OutgoingProofs.** `Queues`: the counter is the number of files between `/send`
  and their report (`PendingExact`), and messages and files are taken out in the
  order they were put in with nothing lost between (`MessagesKept`, `Posted`,
  `FilesKept`, `FileOrder`), over channels of any capacity, with `/flag`'s
  goroutines pushing into the outbox as well. `QuitWarned`: no `/quit` ends the
  process with a file on its way before a warning was given. `Truth`: `reader send`
  exits with 0 exactly when every file was shared. `Implements`: refinement of
  `Postbox`; it needs that a message is posted only while it is in work
  (`MessageInv`), so that it cannot be posted twice nor reported and posted by the
  same answer. `AnnouncedWhole` and `DamageNoticed` are about streams of any size,
  over records and seals of any size. A stream is the records one after the other
  (`FlattenAt` says which byte is where), the blocks `decryptFile` reads are the
  pieces of equal size (`BlockAt`), and a stream decrypts exactly when every byte
  is where it was sealed to be and the last one, and no other, ends the file
  (`DecryptsFits`). What `encryptFile` writes has this property whatever the file
  does between two reads, as long as it does not shrink (`SteadyReads`,
  `SteadyDecrypts`); a cut, a repetition or an exchange moves some byte or takes
  the end away (`PieceMissed`, `RecordTwice`, `RecordsSwapped`). The streams on the
  server are of the first kind (`StreamInv`), which is the inductive invariant.
* **ForumProofs.** `ForumIsFollowed`: the inductive invariant `IInv`. The pages
  fetched are what the log holds up to the cursor (`LoadedWhole`), wire and lost
  events are those relayed and not handled (`WireInv`), and the list is what the
  events told so far come to (`ListIs`): threads ascending and complete, replies
  ascending and under a thread that was told of, the title the first one. The step
  that adds an event is the same lemma for the replay, for the websocket and for
  one's own events. That a number once printed stands for its thread for good
  (`NumbersStand`) follows because threads are only appended: what arrives later
  was stored later. `ThreadsAreATranscript` (refinement of `Transcript`) and
  `TypeCorrect` follow.
* **TerminalProofs.** `ScreenHolds`: `ScreenIInv` is inductive because each
  section under `UI.mu` ends with a prompt drawn from the line and the marks there are
  (`Believed`); what stands in the bottom row is always a prompt of some line and some
  marks (`Drawn`), and one that takes more than the terminal's width is one whose marks
  fill it (`WrapsWide`), so that only such rows are left behind (`ScrapsOfMarks`);
  whoever leaves first gives the terminal back (`Back`). `LineHolds`: the runes still to be read and
  `skipEscape`'s place always make the line into what was meant (`Pending`): plain
  runes, one control key, or the rest of a cursor key. `ArgsHold` has the
  hypothesis `NamesEndInText`: no dragged name ends in a space, which `TrimSpace`
  would take off. The proof reads `splitArgs` as its states after each rune
  (`Scan`, `EachRune`): a name in any of the three quotings takes the scan from
  between two words to between two words and adds this name, and so does a line
  of such names, by induction over their number (`TidyLine`).
* **Induction.** The library's induction theorems take an operator, which these
  provers cannot instantiate. Taking a set in its place is as good: `Least` and
  `Greatest` follow from the natural numbers being well-founded, `SetInduction` and
  `InductionUpTo` from these, and `Recursion` is the existence of recursively
  defined functions. What folds and recursive functions compute is proved with them.

Only model-checked: everything under fairness (`ShowsWholeTranscript`,
`Reconnects`, `KeeperReturns`, `ClosedRoomEnds`, `SignalEnds`, `Placed`,
`Settles`, `EverythingSettles`, `KeepsUp`, `PrintsGoOn`), since liveness and
`ENABLED` are beyond this prover.

## Not modelled

* Cryptography and encoding (envelopes, key derivation, mention tags, safety words):
  functions without state. Sealing is ideal where it is used.
* Flags and links, colours, `clean`, `formatBytes`, printing of lists: wording and
  layout. Runes of two columns.
* Reading from a pipe, the runes of a password, the system calls of raw mode on
  the three platforms.
* The requests of `/nuke`, `/keep`, `/report` and `/feature`: one call each, whose
  answer is printed.
* The server, but for what its frames and answers make the reader do.
* Clock skew between senders and the server ("cleared" compares the two): the
  model has one clock.
* In `Connection`, a forum's load before the subscription, and a terminal that hangs
  up while the password is asked for; no signal interrupts the prompt, which reads
  keys and does not look at `ctx`.

## Plan

Done: Conversation, Connection, FileStore, Presence, Outgoing with FileStream,
Forum, Terminal with CommandLine; the abstract specifications Transcript,
SavedFiles and Postbox; their runs and the proofs above.

Left, in this order:

1. **Reader**: Connection and Conversation composed over one websocket, so that
   `Connect` and `Drop` are the loop's own and the announcements of `Presence`
   follow them.
2. Proofs: weaker hypotheses. `WholeRoom` could allow wipes, whose effect on kept
   messages is `KeptAfterWipes`; `Steadfast` could allow a websocket to break, with
   `Reads` as a premise of `Kept`.
3. **Locks**: `App.mu` as a variable like `UI.mu`, if a section of it ever comes to
   wait for anything but `UI.mu`.

New runs replace weaker ones: each question keeps one run.
