------------------------------- MODULE Outgoing -------------------------------
(***************************************************************************)
(* What a user gives the reader and what becomes of it: App.run reads      *)
(* lines and App.command handles them, App.sendLoop and App.uploadLoop     *)
(* publish what they took from their channels, App.downloadLoop fetches,   *)
(* one goroutine per /flag reports and then tells the room, and a watcher  *)
(* ends the process.  "reader send" (runSend) uploads its arguments.       *)
(*                                                                         *)
(* Messages are the numbers of the lines they come from, uploads are       *)
(* numbered in the order they were asked for.  The server, the network,    *)
(* the files and the user are the environment; the first subscription      *)
(* (module Connection) is the step Joins.                                  *)
(***************************************************************************)
EXTENDS FileStream, FiniteSets

CONSTANTS
  Modes,         \* "room": the reader stays in the room; "send": reader send
  OutboxCap,     \* capacity of the outbox channel
  UploadsCap,    \* capacity of the uploads channel
  DownloadsCap,  \* capacity of the downloads channel
  FileSizes,     \* sizes a file to upload can have at a moment
  MaxLines,      \* bound: lines of input that do something
  MaxPaths       \* bound: files to upload in all, or named in a /get

ASSUME OutgoingAssumption ==
  /\ Modes \subseteq {"room", "send"}
  /\ OutboxCap \in Nat \ {0} /\ UploadsCap \in Nat \ {0} /\ DownloadsCap \in Nat \ {0}
  /\ FileSizes \subseteq Nat
  /\ MaxLines \in Nat /\ MaxPaths \in Nat \ {0}

VARIABLES
  mode,        \* how the reader was started
  main,        \* App.run: reading a line, pushing on a channel, deaf (stdin closed), quitting
  hand,        \* what command still has to push, and on which channel
  counted,     \* pendingUploads was raised for the path that is pushed next
  lines,       \* lines read
  asked,       \* uploads asked for
  outbox, uploads, downloads,  \* the channels; of downloads, how many
  pending,     \* App.pendingUploads
  quitWarned,  \* App.quitWarned
  sender,      \* sendLoop: where it is and the message it has in work
  uploader,    \* uploadLoop or runSend: the same of a file
  stored,      \* the stream the server has of a file until it is announced
  flagging,    \* /flag: lines whose report is on its way to the site
  flagged,     \* and those whose announcement is to be pushed on the outbox
  joined,      \* App.joined: subscribed at least once
  tenSeconds,  \* ten seconds have passed and we have not joined
  canceled,    \* a signal has arrived: ctx is done
  closed,      \* App.closed: the admins closed the room or banned us
  leaving,     \* the goroutines in shutdown (saying goodbye)
  status,      \* exit status, -1 while the process runs
  posts,       \* messages the room has, in the order it got them
  shared,      \* uploads announced to the room, in the order it got them
  notSent,     \* messages reported as not sent
  notShared,   \* uploads reported as not sent
  taken        \* messages pushed on the outbox

input   == <<main, hand, counted, lines, asked, quitWarned>>
flags   == <<flagging, flagged>>
events  == <<joined, tenSeconds, canceled, closed>>
ending  == <<leaving, status>>
sending == <<sender, posts, notSent>>
sharing == <<uploader, stored, shared, notShared>>
vars == <<mode, input, outbox, uploads, downloads, pending, flags, events, ending,
          sending, sharing, taken>>

NoStream == [size |-> 0, steady |-> TRUE, bytes |-> <<>>]
Nothing  == [to |-> "nothing", left |-> 0]

AtWork == {"streaming", "announcing", "shared", "failed"}

TypeOK ==
  /\ mode \in Modes
  /\ main \in {"reading", "pushing", "deaf", "quitting", "sending"}
  /\ hand \in [to : {"nothing", "outbox", "uploads", "downloads"}, left : 0 .. MaxPaths]
  /\ counted \in BOOLEAN /\ lines \in 0 .. MaxLines /\ asked \in 0 .. MaxPaths
  /\ outbox \in Seq(Nat) /\ Len(outbox) <= OutboxCap
  /\ uploads \in Seq(Nat) /\ (mode = "room" => Len(uploads) <= UploadsCap)
  /\ downloads \in 0 .. DownloadsCap
  /\ pending \in Nat /\ quitWarned \in BOOLEAN
  /\ sender \in [at : {"waiting", "idle", "posting", "posted", "failed"}, msg : Nat]
  /\ uploader \in [at : {"waiting", "idle", "telling"} \cup AtWork, file : Nat]
  /\ stored.size \in Nat /\ stored.steady \in BOOLEAN
  /\ flagging \subseteq Nat /\ flagged \subseteq Nat
  /\ joined \in BOOLEAN /\ tenSeconds \in BOOLEAN /\ canceled \in BOOLEAN /\ closed \in BOOLEAN
  /\ leaving \subseteq {"main", "watcher"} /\ status \in {-1, 0, 1, 130}
  /\ posts \in Seq(Nat) /\ shared \in Seq(Nat)
  /\ notSent \subseteq Nat /\ notShared \subseteq Nat /\ taken \subseteq Nat

Init ==
  /\ mode \in Modes
  /\ main = IF mode = "send" THEN "sending" ELSE "reading"
  /\ asked \in IF mode = "send" THEN 0 .. MaxPaths ELSE {0}
  /\ uploads = [k \in 1 .. asked |-> k]
  /\ hand = Nothing /\ counted = FALSE /\ lines = 0
  /\ outbox = <<>> /\ downloads = 0
  /\ pending = 0 /\ quitWarned = FALSE
  /\ sender = [at |-> "waiting", msg |-> 0]
  /\ uploader = [at |-> "waiting", file |-> 0]
  /\ stored = NoStream
  /\ flagging = {} /\ flagged = {}
  /\ joined = FALSE /\ tenSeconds = FALSE /\ canceled = FALSE /\ closed = FALSE
  /\ leaving = {} /\ status = -1
  /\ posts = <<>> /\ shared = <<>> /\ notSent = {} /\ notShared = {} /\ taken = {}

-------------------------------------------------------------------------------
(* The environment.                                                        *)

\* The clock is only waitJoined's: it no longer matters once we have joined.
Joins ==
  /\ mode = "room" /\ ~joined
  /\ joined' = TRUE /\ tenSeconds' = FALSE
  /\ UNCHANGED <<mode, input, outbox, uploads, downloads, pending, flags,
                 canceled, closed, ending, sending, sharing, taken>>

TenSecondsPass ==
  /\ mode = "room" /\ ~joined /\ ~tenSeconds
  /\ tenSeconds' = TRUE
  /\ UNCHANGED <<mode, input, outbox, uploads, downloads, pending, flags, joined,
                 canceled, closed, ending, sending, sharing, taken>>

SignalArrives ==
  /\ ~canceled
  /\ canceled' = TRUE
  /\ UNCHANGED <<mode, input, outbox, uploads, downloads, pending, flags, joined,
                 tenSeconds, closed, ending, sending, sharing, taken>>

\* subscribeLoop learns that the room was closed or we were banned.
RoomCloses ==
  /\ ~closed /\ mode = "room"
  /\ closed' = TRUE
  /\ UNCHANGED <<mode, input, outbox, uploads, downloads, pending, flags, joined,
                 tenSeconds, canceled, ending, sending, sharing, taken>>

-------------------------------------------------------------------------------
(* App.run and App.command.                                                *)

Read == main = "reading" /\ lines < MaxLines /\ lines' = lines + 1

Hands(channel, n) ==
  /\ hand' = [to |-> channel, left |-> n]
  /\ main' = "pushing"

aside == <<mode, outbox, uploads, downloads, pending, events, ending, sending, sharing,
           taken>>

\* A plain message; only this forgets that quitting was warned of.
TypeMessage ==
  /\ Read /\ Hands("outbox", 1)
  /\ quitWarned' = FALSE
  /\ UNCHANGED <<counted, asked, flags, aside>>

\* /me, /poll and /vote.
TypeAction ==
  /\ Read /\ Hands("outbox", 1)
  /\ UNCHANGED <<counted, asked, quitWarned, flags, aside>>

\* /send: expandPaths makes one path or more of its arguments.
TypeSend(n) ==
  /\ asked + n <= MaxPaths
  /\ Read /\ Hands("uploads", n)
  /\ UNCHANGED <<counted, asked, quitWarned, flags, aside>>

\* /get: App.get pushes the files it names.
TypeGet(n) ==
  /\ Read /\ Hands("downloads", n)
  /\ UNCHANGED <<counted, asked, quitWarned, flags, aside>>

\* /flag starts a goroutine.
TypeFlag ==
  /\ Read
  /\ flagging' = flagging \cup {lines'}
  /\ UNCHANGED <<main, hand, counted, asked, quitWarned, flagged, aside>>

\* App.confirmQuit.
BugLooksAtQueue == uploads = <<>> \/ quitWarned
MayQuit == pending = 0 \/ quitWarned

ConfirmQuit ==
  IF MayQuit
  THEN /\ main' = "quitting" /\ leaving' = leaving \cup {"main"}
       /\ UNCHANGED quitWarned
  ELSE /\ quitWarned' = TRUE
       /\ UNCHANGED <<main, leaving>>

\* /quit, and Ctrl-C or Ctrl-D at a terminal.
Quit ==
  /\ main = "reading"
  /\ ConfirmQuit
  /\ UNCHANGED <<mode, hand, counted, lines, asked, outbox, uploads, downloads, pending,
                 flags, events, status, sending, sharing, taken>>

\* The end of piped input, or input that cannot be read: keep listening.
InputEnds ==
  /\ main = "reading"
  /\ main' = "deaf"
  /\ UNCHANGED <<mode, hand, counted, lines, asked, quitWarned, outbox, uploads, downloads,
                 pending, flags, events, ending, sending, sharing, taken>>

\* One pushed: go on with the next or read a line.
Pushed ==
  IF hand.left = 1 THEN hand' = Nothing /\ main' = "reading"
                   ELSE hand' = [hand EXCEPT !.left = @ - 1] /\ UNCHANGED main

PutMessage == Len(outbox) < OutboxCap /\ outbox' = Append(outbox, lines)

PushMessage ==
  /\ main = "pushing" /\ hand.to = "outbox"
  /\ PutMessage
  /\ taken' = taken \cup {lines}
  /\ Pushed
  /\ UNCHANGED <<mode, counted, lines, asked, quitWarned, uploads, downloads, pending,
                 flags, events, ending, sending, sharing>>

\* /send counts a file before it pushes it ...
CountedUp == pending + 1

CountUpload ==
  /\ main = "pushing" /\ hand.to = "uploads" /\ ~counted
  /\ pending' = CountedUp
  /\ counted' = TRUE /\ asked' = asked + 1
  /\ UNCHANGED <<mode, main, hand, lines, quitWarned, outbox, uploads, downloads, flags,
                 events, ending, sending, sharing, taken>>

\* ... and waits until there is room.
PushUpload ==
  /\ main = "pushing" /\ hand.to = "uploads" /\ counted
  /\ Len(uploads) < UploadsCap
  /\ uploads' = Append(uploads, asked)
  /\ counted' = FALSE
  /\ Pushed
  /\ UNCHANGED <<mode, lines, asked, quitWarned, outbox, downloads, pending, flags,
                 events, ending, sending, sharing, taken>>

PushDownload ==
  /\ main = "pushing" /\ hand.to = "downloads"
  /\ downloads < DownloadsCap
  /\ downloads' = downloads + 1
  /\ Pushed
  /\ UNCHANGED <<mode, counted, lines, asked, quitWarned, outbox, uploads, pending, flags,
                 events, ending, sending, sharing, taken>>

-------------------------------------------------------------------------------
(* App.sendLoop and the goroutines of /flag.                               *)

\* App.waitJoined.
BugWaitsForRoom == joined \/ canceled
WaitOver == joined \/ canceled \/ tenSeconds

fromSender == <<mode, input, uploads, downloads, pending, events, ending, sharing>>

SenderStarts ==
  /\ sender.at = "waiting" /\ mode = "room" /\ WaitOver
  /\ sender' = [sender EXCEPT !.at = "idle"]
  /\ UNCHANGED <<fromSender, outbox, flags, posts, notSent, taken>>

\* Room.Publish fails at once when ctx is done.
TakeMessage ==
  /\ sender.at = "idle" /\ outbox # <<>>
  /\ sender' = [at |-> IF canceled THEN "failed" ELSE "posting", msg |-> Head(outbox)]
  /\ outbox' = Tail(outbox)
  /\ UNCHANGED <<fromSender, flags, posts, notSent, taken>>

ServerTakes ==
  /\ sender.at = "posting"
  /\ posts' = Append(posts, sender.msg)
  /\ sender' = [sender EXCEPT !.at = "posted"]
  /\ UNCHANGED <<fromSender, outbox, flags, notSent, taken>>

\* The request is refused, does not arrive, or is canceled or timed out first.
PublishFails ==
  /\ sender.at = "posting"
  /\ sender' = [sender EXCEPT !.at = "failed"]
  /\ UNCHANGED <<fromSender, outbox, flags, posts, notSent, taken>>

\* 202: on with the next message.
BugRetries == "posting"
AfterAnswer == "idle"

Answered ==
  /\ sender.at = "posted"
  /\ sender' = [sender EXCEPT !.at = AfterAnswer]
  /\ UNCHANGED <<fromSender, outbox, flags, posts, notSent, taken>>

\* The error is printed, also when only the answer was lost.
ReportFailure ==
  /\ sender.at \in {"failed", "posted"}
  /\ notSent' = notSent \cup {sender.msg}
  /\ sender' = [sender EXCEPT !.at = "idle"]
  /\ UNCHANGED <<fromSender, outbox, flags, posts, taken>>

\* The answer to Room.Report; a failure is printed and the room not told.
FlagAnswered(n) ==
  /\ n \in flagging
  /\ flagging' = flagging \ {n}
  /\ flagged' = flagged \cup {n} \/ UNCHANGED flagged
  /\ UNCHANGED <<fromSender, outbox, sending, taken>>

FlagPushed(n) ==
  /\ n \in flagged /\ Len(outbox) < OutboxCap
  /\ outbox' = Append(outbox, n)
  /\ flagged' = flagged \ {n}
  /\ taken' = taken \cup {n}
  /\ UNCHANGED <<fromSender, flagging, sending>>

-------------------------------------------------------------------------------
(* App.uploadLoop and runSend: Room.Upload, one file at a time.            *)

fromUploader == <<mode, input, outbox, downloads, flags, events, sending, taken>>

UploaderStarts ==
  /\ uploader.at = "waiting" /\ mode = "room" /\ WaitOver
  /\ uploader' = [uploader EXCEPT !.at = "idle"]
  /\ UNCHANGED <<fromUploader, uploads, pending, stored, shared, notShared, ending>>

NextUpload == Head(uploads)

TakeUpload ==
  /\ uploader.at = "idle" /\ uploads # <<>>
  /\ uploader' = [at |-> IF canceled THEN "failed" ELSE "streaming", file |-> NextUpload]
  /\ uploads' = Tail(uploads)
  /\ UNCHANGED <<fromUploader, pending, stored, shared, notShared, ending>>

\* The lengths the file has while its records are read.
Readings(size) == [1 .. Records(size) -> FileSizes]
Steady(now, size) == \A i, j \in DOMAIN now : now[i] >= size /\ (i < j => now[i] <= now[j])

\* The file is sealed and sent while it is read; the server has it when as many
\* bytes came as were announced, and Upload goes on to Publish.
Streamed(size, now) ==
  /\ size <= MaxBytes
  /\ LET bytes == Encrypted(BytesRead(now))
     IN /\ Len(bytes) = Total(size)
        /\ stored' = [size |-> size, steady |-> Steady(now, size), bytes |-> bytes]

StoreFile ==
  /\ uploader.at = "streaming" /\ ~canceled
  /\ \E size \in FileSizes : \E now \in Readings(size) : Streamed(size, now)
  /\ uploader' = [uploader EXCEPT !.at = "announcing"]
  /\ UNCHANGED <<fromUploader, uploads, pending, shared, notShared, ending>>

\* It cannot be read, is a directory or too large, changes its length, the
\* server or the network does not take it, or does when ctx is done and Publish
\* fails at once.
UploadFails ==
  /\ uploader.at = "streaming"
  /\ uploader' = [uploader EXCEPT !.at = "failed"]
  /\ UNCHANGED <<fromUploader, uploads, pending, stored, shared, notShared, ending>>

\* Upload's Publish: the room hears of the file, also when ctx is done while
\* the request is on its way.
Announce ==
  /\ uploader.at = "announcing"
  /\ shared' = Append(shared, uploader.file)
  /\ uploader' = [uploader EXCEPT !.at = "shared"]
  /\ stored' = NoStream
  /\ UNCHANGED <<fromUploader, uploads, pending, notShared, ending>>

\* The message is not taken, or its answer is lost.
AnnounceFails ==
  /\ uploader.at \in {"announcing", "shared"}
  /\ uploader' = [uploader EXCEPT !.at = "failed"]
  /\ stored' = NoStream
  /\ UNCHANGED <<fromUploader, uploads, pending, shared, notShared, ending>>

\* uploadLoop counts the file down first and prints the error then.
BugErrorsNotCounted == IF uploader.at = "failed" THEN pending ELSE pending - 1
CountedDown == pending - 1

UploadDone ==
  /\ mode = "room" /\ uploader.at \in {"shared", "failed"}
  /\ pending' = CountedDown
  /\ uploader' = [uploader EXCEPT !.at = IF @ = "failed" THEN "telling" ELSE "idle"]
  /\ UNCHANGED <<fromUploader, uploads, stored, shared, notShared, ending>>

UploadReported ==
  /\ uploader.at = "telling"
  /\ notShared' = notShared \cup {uploader.file}
  /\ uploader' = [uploader EXCEPT !.at = "idle"]
  /\ UNCHANGED <<fromUploader, uploads, pending, stored, shared, ending>>

\* runSend: the room is opened, or the program gives up.
SendStarts ==
  /\ mode = "send" /\ uploader.at = "waiting"
  /\ \/ uploader' = [uploader EXCEPT !.at = "idle"] /\ UNCHANGED status
     \/ status' = 1 /\ UNCHANGED uploader
  /\ UNCHANGED <<fromUploader, uploads, pending, stored, shared, notShared, leaving>>

SendDone ==
  /\ mode = "send" /\ uploader.at \in {"shared", "failed"}
  /\ notShared' = IF uploader.at = "failed" THEN notShared \cup {uploader.file} ELSE notShared
  /\ uploader' = [uploader EXCEPT !.at = "idle"]
  /\ UNCHANGED <<fromUploader, uploads, pending, stored, shared, ending>>

BugLastCounts == IF asked \in notShared THEN 1 ELSE 0
SendStatus == IF notShared # {} THEN 1 ELSE 0

SendEnds ==
  /\ mode = "send" /\ uploader.at = "idle" /\ uploads = <<>>
  /\ status' = SendStatus
  /\ UNCHANGED <<fromUploader, uploads, pending, sharing, leaving>>

-------------------------------------------------------------------------------
(* App.downloadLoop, and the end.                                          *)

fromOthers == <<mode, input, outbox, uploads, pending, flags, events, sending, sharing, taken>>

\* A file that arrives live: App.receive does not wait, it is not saved when the
\* channel is full.
LiveFile ==
  /\ joined /\ downloads < DownloadsCap
  /\ downloads' = downloads + 1
  /\ UNCHANGED <<fromOthers, ending>>

\* Done with a file, whatever came of it (module FileStore), it takes the next.
TakeDownload ==
  /\ downloads > 0
  /\ downloads' = downloads - 1
  /\ UNCHANGED <<fromOthers, ending>>

\* The goroutine that waits for a signal or the end of the room.
MustEnd == canceled \/ closed

WatcherActs ==
  /\ MustEnd
  /\ mode = "room" /\ "watcher" \notin leaving
  /\ leaving' = leaving \cup {"watcher"}
  /\ UNCHANGED <<fromOthers, downloads, status>>

\* shutdown: goodbye takes two seconds at most, then os.Exit.
Exit ==
  /\ \/ "main" \in leaving /\ status' = 0
     \/ "watcher" \in leaving /\ canceled /\ status' = 130
     \/ "watcher" \in leaving /\ closed /\ status' = 1
  /\ UNCHANGED <<fromOthers, downloads, leaving>>

-------------------------------------------------------------------------------
Alive == status = -1

Environment == Joins \/ SignalArrives \/ RoomCloses \/ LiveFile
Push        == PushMessage \/ CountUpload \/ PushUpload \/ PushDownload
SendStep    == SenderStarts \/ TakeMessage \/ ServerTakes \/ PublishFails \/ Answered \/ ReportFailure
FlagStep    == \E n \in flagging \cup flagged : FlagAnswered(n) \/ FlagPushed(n)
Transfer    == StoreFile \/ UploadFails \/ Announce \/ AnnounceFails
UploadStep  == \/ UploaderStarts \/ TakeUpload \/ UploadDone \/ UploadReported
               \/ SendStarts \/ SendDone \/ SendEnds
User        == \/ TypeMessage \/ TypeAction \/ TypeFlag \/ Quit \/ InputEnds
               \/ \E n \in 1 .. MaxPaths : TypeSend(n) \/ TypeGet(n)

Next == Alive /\ (Environment \/ TenSecondsPass \/ User \/ Push \/ SendStep \/ FlagStep
                    \/ Transfer \/ UploadStep \/ TakeDownload \/ WatcherActs \/ Exit)

Spec == Init /\ [][Next]_vars

\* The goroutines run and a channel serves those who wait for room in turn; a
\* Publish and a Report end after thirty seconds, the goodbye after two, the wait
\* for the room after ten, and an upload when ctx is done.  Nothing else ends an
\* upload or a download that the server lets hang: see TransfersEnd.
FairSpec == /\ Spec
            /\ WF_vars(Alive /\ TenSecondsPass) /\ WF_vars(Alive /\ SendStep)
            /\ SF_vars(Alive /\ Push)
            /\ WF_vars(Alive /\ \E n \in flagging : FlagAnswered(n))
            /\ SF_vars(Alive /\ \E n \in flagged : FlagPushed(n))
            /\ WF_vars(Alive /\ UploadStep) /\ WF_vars(Alive /\ canceled /\ Transfer)
            /\ WF_vars(Alive /\ WatcherActs) /\ WF_vars(Alive /\ Exit)

\* No transfer hangs forever.
TransfersEnd == /\ []<>(uploader.at \notin {"streaming", "announcing"})
                /\ []<>(downloads < DownloadsCap)

-------------------------------------------------------------------------------
(* Properties.                                                             *)

Elements(s)  == {s[k] : k \in 1 .. Len(s)}
Ascending(s) == \A a, b \in 1 .. Len(s) : a < b => s[a] < s[b]

\* What confirmQuit looks at is the number of files not done with: counted and
\* about to be pushed, in the channel, or in work (three goroutines' variables).
PendingExact ==
  mode = "room" =>
    pending = Len(uploads) + (IF counted THEN 1 ELSE 0) + (IF uploader.at \in AtWork THEN 1 ELSE 0)

InSending == IF sender.at \in {"posting", "posted", "failed"} THEN {sender.msg} ELSE {}
InSharing == IF uploader.at \in AtWork \cup {"telling"} THEN {uploader.file} ELSE {}

\* As long as the process lives, what was taken from the user is still to be
\* done, done, or reported: nothing vanishes between the channels.
MessagesKept == taken = Elements(outbox) \cup InSending \cup Elements(posts) \cup notSent
FilesKept ==
  LET coming == IF counted THEN {asked} ELSE {}
  IN 1 .. asked = coming \cup Elements(uploads) \cup InSharing \cup Elements(shared) \cup notShared
NothingVanishes == MessagesKept /\ FilesKept

\* Files are announced once each and in the order they were asked for.
SharedInOrder == Ascending(shared)

\* What the goroutines and channels of the way out hold together: the counter
\* counts, nothing is lost between two of them, and the order is kept.
QueuesInv == TypeOK /\ PendingExact /\ NothingVanishes /\ SharedInOrder

Unfinished == uploads # <<>> \/ counted \/ uploader.at \in {"streaming", "announcing"}

\* main.go:356 "asks for a second /quit while uploads are still running": nobody
\* who was not warned quits while a file is on its way or waits for its turn.
QuitAsksFirst ==
  [][main = "reading" /\ main' = "quitting" /\ ~quitWarned => ~Unfinished]_vars

\* A file that is announced can be downloaded: its stream decrypts, to as many
\* bytes as the announcement says, unless the file shrank while it was sent.
AnnouncedDecrypts ==
  uploader.at = "announcing" /\ stored.steady =>
    Decrypts(stored.bytes) /\ PlainBytes(stored.bytes) = stored.size

Without(s, i, j) == SubSeq(s, 1, i - 1) \o SubSeq(s, j + 1, Len(s))
Swapped(s, i, j) ==
  FlattenSeq([k \in 1 .. Blocks(s) |-> Block(s, IF k = i THEN j ELSE IF k = j THEN i ELSE k)])

\* A stream that lost a piece at its end or anywhere else, has a record twice or
\* two exchanged, does not pass for the file (chunkAAD's number and mark).
DamageShows ==
  Decrypts(stored.bytes) =>
    LET s == stored.bytes
    IN /\ \A i, j \in 1 .. Len(s) : i <= j => ~Decrypts(Without(s, i, j))
       /\ \A i, j \in 1 .. Blocks(s) : /\ i # j => ~Decrypts(Swapped(s, i, j))
                                       /\ ~Decrypts(s \o Block(s, i))

\* "reader send" exits with 0 only when every file was announced, and with 1
\* only when it told of a failure (or could not start).
SendTellsTruth ==
  mode = "send" /\ status # -1 =>
    /\ status = 0 => Elements(shared) = 1 .. asked
    /\ status = 1 => notShared # {} \/ uploader.at = "waiting"

\* What the user types arrives as typed: Postbox, with the message in work in
\* front of the outbox.
InQueue == IF sender.at \in {"posting", "failed"} THEN <<sender.msg>> \o outbox ELSE outbox
Promise == INSTANCE Postbox WITH Messages <- 1 .. MaxLines, queue <- InQueue, told <- notSent
ImplementsPostbox == Promise!Spec

OwedMessages == taken \ (Elements(posts) \cup notSent)
OwedFiles    == (1 .. asked) \ (Elements(shared) \cup notShared)

\* Every message taken is posted or reported in the end, or the process has
\* ended, whatever the uploads and downloads do (the user types no more than
\* MaxLines lines, so everything taken is settled at some time).
MessagesSettle == OwedMessages # {} ~> OwedMessages = {} \/ ~Alive

\* The same for files, and command always returns to the prompt, if no transfer
\* hangs forever.
UploadsSettle ==
  TransfersEnd => /\ OwedFiles # {} ~> OwedFiles = {} \/ ~Alive
                  /\ main = "pushing" ~> main # "pushing" \/ ~Alive

\* A signal ends the process, also while command waits for room in a channel
\* and while a transfer hangs.
SignalEnds == canceled ~> ~Alive

\* Whatever was begun comes to an end: messages, files and the process.
EverythingSettles == MessagesSettle /\ UploadsSettle /\ SignalEnds
================================================================================
