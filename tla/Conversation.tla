----------------------------- MODULE Conversation -----------------------------
(***************************************************************************)
(* One reader of a room: what App.receive, App.show and their helpers do   *)
(* with the frames the websocket delivers, across lost connections and the *)
(* replay that follows a reconnect.  The server (external: it is not in    *)
(* the repository) numbers postings in the order it takes them, relays     *)
(* them to the subscribed reader in that order and, in a room whose        *)
(* messages it keeps, first sends "replay" n and the last n messages.      *)
(*                                                                         *)
(* A posting's number stands for its message id and for its timestamp.     *)
(***************************************************************************)
EXTENDS Integers, Sequences, FiniteSets

CONSTANTS
  People,         \* everyone who posts, the reader included
  Me,             \* the reader
  Vouched,        \* the people whose name the server vouches for
  Nobody,         \* "by" of a message the server does not vouch for
  Kinds,          \* the kinds of frame that occur
  SharesHistory,  \* Room.SharesHistory: the reader remembers messages
  ServerKeeps,    \* the server keeps messages and replays them
  KeepMax,        \* how many messages the server keeps
  Autosave,       \* the -autosave flag
  HistoryMax,     \* historyMaxItems
  DownloadCap,    \* capacity of the downloads channel
  MaxPosts,       \* bound: postings and server frames
  MaxDrops,       \* bound: lost connections
  MaxRestarts     \* bound: server restarts

Choices == 1 .. 2                             \* the options of every poll
Content == {"text", "fleeting", "file", "spoiler", "poll"} \* a timer is shown like a text
Quiet   == {"edit", "delete", "vote"}
Kept    == Content \cup Quiet \cup {"sealed"} \* what the server keeps
AllKinds == Kept \cup {"aside", "nuke", "cleared"}

ASSUME ConversationAssumption ==
  /\ Me \in People
  /\ Vouched \subseteq People
  /\ Nobody \notin People
  /\ Kinds \subseteq AllKinds
  /\ SharesHistory \in BOOLEAN /\ ServerKeeps \in BOOLEAN /\ Autosave \in BOOLEAN
  /\ KeepMax \in Nat \ {0} /\ HistoryMax \in Nat \ {0} /\ DownloadCap \in Nat \ {0}
  /\ MaxPosts \in Nat /\ MaxDrops \in Nat /\ MaxRestarts \in Nat

Frame == [id : Nat, kind : AllKinds \cup {"replay"}, by : People \cup {Nobody},
          sid : People, target : Nat, arg : Nat]

VARIABLES
  said,        \* every frame the room has taken, said[i] has id i
  kept,        \* the messages the server still keeps, oldest first
  conn,        \* the websocket is open
  wire,        \* frames sent to the reader and not yet handled
  drops,       \* lost connections so far
  restarts,    \* server restarts so far
  joined,      \* App.joined: was connected at least once
  replayLeft,  \* App.replayLeft
  seenMIDs,    \* App.seenMIDs
  log,         \* App.log: remembered messages and their latest text
  files,       \* App.files, by message id
  downloads,   \* the downloads channel
  lastSpoiler, \* App.lastSpoiler, 0 when none
  polls,       \* keys of App.polls
  votes,       \* the votes of the polls
  lastPoll,    \* App.lastPoll, 0 when none
  \* what happened so far; the program does not keep these
  shown,       \* messages printed, in order
  joinedAt,    \* how much was said when the reader last subscribed
  since,       \* how much was said when the reader first subscribed
  offered,     \* files queued for download or announced with "/get n"
  hints,       \* <<file, n>> of every "use /get n later" that was printed
  deleted,     \* log entries removed by a delete
  cleared,     \* files taken off the list by a "cleared" frame
  wipedAt      \* number of the last passed /nuke the reader heard of

server  == <<said, kept, restarts>>
link    == <<conn, wire, drops, joined, joinedAt, since>>
listing == <<files, downloads, offered, hints>>
memory  == <<log, deleted, cleared, wipedAt>>
polling == <<polls, votes, lastPoll>>
vars == <<server, link, listing, memory, polling, replayLeft, seenMIDs,
          lastSpoiler, shown>>

Entry == [id : Nat, data : Nat]
Vote  == [poll : Nat, by : People, choice : Choices]

TypeOK ==
  /\ said \in Seq(Frame) /\ kept \in Seq(Frame) /\ wire \in Seq(Frame)
  /\ conn \in BOOLEAN /\ joined \in BOOLEAN
  /\ drops \in 0 .. MaxDrops /\ restarts \in 0 .. MaxRestarts
  /\ replayLeft \in Nat /\ seenMIDs \subseteq Nat
  /\ log \subseteq Entry
  /\ files \subseteq Nat /\ IsFiniteSet(files)
  /\ downloads \in Seq(Nat) /\ Len(downloads) <= DownloadCap
  /\ lastSpoiler \in Nat
  /\ polls \subseteq Nat /\ votes \subseteq Vote /\ lastPoll \in Nat
  /\ shown \in Seq(Nat) /\ joinedAt \in Nat /\ since \in Nat
  /\ offered \subseteq Nat /\ hints \subseteq (Nat \X Nat)
  /\ deleted \subseteq Nat /\ cleared \subseteq Nat /\ wipedAt \in Nat

Init ==
  /\ said = <<>> /\ kept = <<>> /\ restarts = 0
  /\ conn = FALSE /\ wire = <<>> /\ drops = 0
  /\ joined = FALSE /\ joinedAt = 0 /\ since = 0
  /\ replayLeft = 0 /\ seenMIDs = {}
  /\ log = {} /\ deleted = {} /\ cleared = {} /\ wipedAt = 0
  /\ files = {} /\ downloads = <<>> /\ offered = {} /\ hints = {}
  /\ lastSpoiler = 0
  /\ polls = {} /\ votes = {} /\ lastPoll = 0
  /\ shown = <<>>

-------------------------------------------------------------------------------
(* The room: people post, the server keeps, relays, forgets.               *)

LastOf(seq, n) == IF Len(seq) <= n THEN seq ELSE SubSeq(seq, Len(seq) - n + 1, Len(seq))

VouchedName(p) == IF p \in Vouched THEN p ELSE Nobody

ContentIds == {i \in 1 .. Len(said) : said[i].kind \in Content}
PollIds    == {i \in 1 .. Len(said) : said[i].kind = "poll"}

\* What a message of a kind may refer to (an id of an earlier message).
Targets(kind) == CASE kind \in {"edit", "delete"} -> ContentIds
                   [] kind = "vote" -> PollIds
                   [] OTHER -> {0}

\* A vote's choice (0 takes the vote back), an edit's new text.
Args(kind) == CASE kind = "vote" -> {0} \cup Choices
                [] kind = "edit" -> {Len(said) + 1}
                [] OTHER -> {0}

\* A session id is whatever the sender claims it to be: an edit or a delete
\* may carry anyone's.
Sids(p, kind) == IF kind \in {"edit", "delete"} THEN People ELSE {p}

\* From the terminal there is no /edit or /delete, and /vote answers lastPoll.
MeMay(kind, target, sid, arg) ==
  /\ sid = Me
  /\ kind \in {"text", "file", "poll", "vote", "aside"}
  /\ kind = "vote" => target = lastPoll /\ target # 0 /\ arg # 0

Relay(f) == wire' = IF conn THEN Append(wire, f) ELSE wire

\* Someone posts a message; the server keeps it unless it is a signal.
Post(p, kind, target, arg, sid) ==
  /\ Len(said) < MaxPosts
  /\ p = Me => MeMay(kind, target, sid, arg)
  /\ LET f == [id |-> Len(said) + 1, kind |-> kind, by |-> VouchedName(p),
               sid |-> sid, target |-> target, arg |-> arg]
     IN /\ said' = Append(said, f)
        /\ kept' = IF ServerKeeps /\ kind \in Kept THEN LastOf(Append(kept, f), KeepMax)
                                                   ELSE kept
        /\ Relay(f)
  /\ UNCHANGED <<restarts, conn, drops, joined, joinedAt, since, listing, memory,
                 polling, replayLeft, seenMIDs, lastSpoiler, shown>>

\* The server wipes the room (a passed /nuke) or an admin deletes its files.
ServerFrame(kind) ==
  /\ Len(said) < MaxPosts
  /\ LET f == [id |-> Len(said) + 1, kind |-> kind, by |-> Nobody, sid |-> Me,
               target |-> 0, arg |-> Len(said)]
     IN said' = Append(said, f) /\ Relay(f)
  /\ kept' = IF kind = "nuke" THEN <<>> ELSE kept
  /\ UNCHANGED <<restarts, conn, drops, joined, joinedAt, since, listing, memory,
                 polling, replayLeft, seenMIDs, lastSpoiler, shown>>

\* Room.Subscribe opens the websocket: onOpen, and the server starts sending.
Connect ==
  /\ ~conn
  /\ conn' = TRUE
  /\ wire' = IF ServerKeeps
             THEN <<[id |-> 0, kind |-> "replay", by |-> Nobody, sid |-> Me,
                     target |-> 0, arg |-> Len(kept)]>> \o kept
             ELSE <<>>
  /\ joined' = TRUE
  /\ joinedAt' = Len(said)
  /\ since' = IF joined THEN since ELSE Len(said)
  /\ UNCHANGED <<server, drops, listing, memory, polling, replayLeft, seenMIDs,
                 lastSpoiler, shown>>

\* The connection is lost with whatever was still on its way.
Drop ==
  /\ conn /\ drops < MaxDrops
  /\ conn' = FALSE /\ wire' = <<>> /\ drops' = drops + 1
  /\ UNCHANGED <<server, joined, joinedAt, since, listing, memory, polling,
                 replayLeft, seenMIDs, lastSpoiler, shown>>

\* The server restarts: connections and the messages in its memory are gone.
ServerRestart ==
  /\ restarts < MaxRestarts
  /\ restarts' = restarts + 1
  /\ kept' = <<>> /\ conn' = FALSE /\ wire' = <<>>
  /\ UNCHANGED <<said, drops, joined, joinedAt, since, listing, memory, polling,
                 replayLeft, seenMIDs, lastSpoiler, shown>>

-------------------------------------------------------------------------------
(* The reader: App.receive, one action for each way through it.            *)

Incoming(kinds) == conn /\ wire # <<>> /\ Head(wire).kind \in kinds

Take == wire' = Tail(wire)

\* The *Bug* operators are plausible mistakes in the definition that follows
\* them; no specification uses them.

BugNoDedupe(f)   == FALSE
BugSkipReplay(f) == f.id \in seenMIDs \/ (replayLeft > 0 /\ seenMIDs # {})
Repeated(f) == f.id \in seenMIDs

\* receive's countdown, run for everything but the server frames handled first.
BugReplayedAlways == replayLeft >= 0
Replayed  == replayLeft > 0

BugRepeatsUncounted == replayLeft' = IF Replayed /\ ~Repeated(Head(wire))
                                     THEN replayLeft - 1 ELSE replayLeft
CountDown == replayLeft' = IF Replayed THEN replayLeft - 1 ELSE replayLeft

IsOwn(f) == f.sid = Me

\* A log entry may be changed by whoever sent it: the sender the server vouched
\* for, or the session id when it vouched for nobody.
BugSidOnly(e, f)  == said[e.id].sid = f.sid
BugNameOnly(e, f) == said[e.id].by = f.by
SameSender(e, f) ==
  IF said[e.id].by # Nobody THEN said[e.id].by = f.by ELSE said[e.id].sid = f.sid

Remembered(f) == SharesHistory /\ f.kind # "fleeting"

BugKeepOneMore(entries) ==
  {e \in entries : Cardinality({d \in entries : d.id > e.id}) <= HistoryMax}
NewestOf(entries) ==
  {e \in entries : Cardinality({d \in entries : d.id > e.id}) < HistoryMax}

Remember(f) == log' = IF Remembered(f) THEN NewestOf(log \cup {[id |-> f.id, data |-> 0]})
                                       ELSE log

\* What is common to showing any message for the first time.
Show(f) ==
  /\ Take /\ CountDown
  /\ seenMIDs' = seenMIDs \cup {f.id}
  /\ shown' = Append(shown, f.id)
  /\ Remember(f)
  /\ UNCHANGED <<server, conn, drops, joined, joinedAt, since, deleted, cleared, wipedAt>>

ReceiveReplay ==
  /\ Incoming({"replay"})
  /\ Take
  /\ replayLeft' = Head(wire).arg
  /\ UNCHANGED <<server, conn, drops, joined, joinedAt, since, listing, memory,
                 polling, seenMIDs, lastSpoiler, shown>>

\* "cleared": keep the files sent after the time it names.
ReceiveCleared ==
  /\ Incoming({"cleared"})
  /\ Take
  /\ LET until == Head(wire).arg
     IN /\ files' = {i \in files : i > until}
        /\ cleared' = cleared \cup {i \in files : i <= until}
  /\ UNCHANGED <<server, conn, drops, joined, joinedAt, since, downloads, offered, hints,
                 log, deleted, wipedAt, polling, replayLeft, seenMIDs, lastSpoiler, shown>>

\* Room.Subscribe drops what does not decrypt or is not well-formed.
ReceiveSealed ==
  /\ Incoming({"sealed"})
  /\ Take
  /\ UNCHANGED <<server, conn, drops, joined, joinedAt, since, listing, memory,
                 polling, replayLeft, seenMIDs, lastSpoiler, shown>>

\* Typing, presence, pins, notices, announcements: printed or ignored.  A room's
\* settings and "archive" return before the countdown, the others after it.
ReceiveAside ==
  /\ Incoming({"aside"})
  /\ Take /\ (CountDown \/ UNCHANGED replayLeft)
  /\ UNCHANGED <<server, conn, drops, joined, joinedAt, since, listing, memory,
                 polling, seenMIDs, lastSpoiler, shown>>

BugFilesSurvive ==
  /\ Incoming({"nuke"})
  /\ Take /\ CountDown
  /\ log' = {} /\ wipedAt' = Head(wire).id
  /\ UNCHANGED <<server, conn, drops, joined, joinedAt, since, files, downloads, offered,
                 hints, deleted, cleared, polling, seenMIDs, lastSpoiler, shown>>

\* A passed /nuke.
ReceiveNuke ==
  /\ Incoming({"nuke"})
  /\ Take /\ CountDown
  /\ log' = {} /\ files' = {}
  /\ wipedAt' = Head(wire).id
  /\ UNCHANGED <<server, conn, drops, joined, joinedAt, since, downloads, offered, hints,
                 deleted, cleared, polling, seenMIDs, lastSpoiler, shown>>

ReceiveEdit ==
  /\ Incoming({"edit"})
  /\ Take /\ CountDown
  /\ LET f == Head(wire)
         hit(e) == e.id = f.target /\ SameSender(e, f)
     IN log' = {IF hit(e) THEN [e EXCEPT !.data = f.arg] ELSE e : e \in log}
  /\ UNCHANGED <<server, conn, drops, joined, joinedAt, since, listing, deleted, cleared,
                 wipedAt, polling, seenMIDs, lastSpoiler, shown>>

ReceiveDelete ==
  /\ Incoming({"delete"})
  /\ Take /\ CountDown
  /\ LET f == Head(wire)
         hit == {e \in log : e.id = f.target /\ SameSender(e, f)}
     IN /\ log' = log \ hit
        /\ deleted' = deleted \cup {e.id : e \in hit}
  /\ UNCHANGED <<server, conn, drops, joined, joinedAt, since, listing, cleared, wipedAt,
                 polling, seenMIDs, lastSpoiler, shown>>

BugVotesAddUp(f) ==
  IF f.by # Nobody /\ f.target \in polls
  THEN votes \cup {v \in [poll : {f.target}, by : {f.by}, choice : Choices] : v.choice = f.arg}
  ELSE votes

\* App.applyVote: one vote per vouched sender, a choice out of range removes it.
Voted(f) ==
  IF f.by # Nobody /\ f.target \in polls
  THEN {v \in votes : ~(v.poll = f.target /\ v.by = f.by)} \cup
       {v \in [poll : {f.target}, by : {f.by}, choice : Choices] : v.choice = f.arg}
  ELSE votes

ReceiveVote ==
  /\ Incoming({"vote"})
  /\ Take /\ CountDown
  /\ votes' = Voted(Head(wire))
  /\ UNCHANGED <<server, conn, drops, joined, joinedAt, since, listing, memory,
                 polls, lastPoll, seenMIDs, lastSpoiler, shown>>

\* Content that was shown before (a replay after reconnecting repeats some).
ReceiveRepeat ==
  /\ Incoming(Content)
  /\ Repeated(Head(wire))
  /\ Take /\ CountDown
  /\ UNCHANGED <<server, conn, drops, joined, joinedAt, since, listing, memory,
                 polling, seenMIDs, lastSpoiler, shown>>

ReceiveText ==
  /\ Incoming({"text", "fleeting"})
  /\ ~Repeated(Head(wire))
  /\ Show(Head(wire))
  /\ UNCHANGED <<listing, polling, lastSpoiler>>

ReceiveSpoiler ==
  /\ Incoming({"spoiler"})
  /\ ~Repeated(Head(wire))
  /\ Show(Head(wire))
  /\ lastSpoiler' = Head(wire).id
  /\ UNCHANGED <<listing, polling>>

\* App.trackPoll: a new poll without votes becomes the latest.
ReceivePoll ==
  /\ Incoming({"poll"})
  /\ ~Repeated(Head(wire))
  /\ Show(Head(wire))
  /\ polls' = polls \cup {Head(wire).id}
  /\ votes' = {v \in votes : v.poll # Head(wire).id}
  /\ lastPoll' = Head(wire).id
  /\ UNCHANGED <<listing, lastSpoiler>>

\* Which files are downloaded without being asked for.
SavedByItself(f) == Autosave /\ ~IsOwn(f) /\ ~Replayed

\* A file is listed, and queued for download unless the channel is full.
ReceiveFile ==
  /\ Incoming({"file"})
  /\ ~Repeated(Head(wire))
  /\ Show(Head(wire))
  /\ LET f == Head(wire)
         n == Cardinality(files) + 1
         room == Len(downloads) < DownloadCap
     IN /\ files' = files \cup {f.id}
        /\ downloads' = IF SavedByItself(f) /\ room THEN Append(downloads, f.id) ELSE downloads
        /\ hints' = IF SavedByItself(f) /\ ~room THEN hints \cup {<<f.id, n>>} ELSE hints
        /\ offered' = IF SavedByItself(f) THEN offered \cup {f.id} ELSE offered
  /\ UNCHANGED <<polling, lastSpoiler>>

\* Files are listed in the order shown, which is that of their ids (see
\* ShownInOrder): this is the number a file has in /files.
NumberOf(i) == Cardinality({j \in files : j <= i})

\* What was on the list at some time.
Listed == {shown[k] : k \in {j \in 1 .. Len(shown) : said[shown[j]].kind = "file"}}

\* /get: App.get copies the list and sends what was asked for to the channel as
\* it takes it, what "cleared" or a wipe took off the list since included.
Get(i) ==
  /\ i \in Listed /\ Len(downloads) < DownloadCap
  /\ downloads' = Append(downloads, i)
  /\ UNCHANGED <<server, link, files, offered, hints, memory, polling, replayLeft,
                 seenMIDs, lastSpoiler, shown>>

\* App.downloadLoop takes the next file from the channel.
TakeDownload ==
  /\ downloads # <<>>
  /\ downloads' = Tail(downloads)
  /\ UNCHANGED <<server, link, files, offered, hints, memory, polling, replayLeft,
                 seenMIDs, lastSpoiler, shown>>

-------------------------------------------------------------------------------
Room ==
  \/ \E p \in People, kind \in Kinds \ {"nuke", "cleared"} :
       \E target \in Targets(kind), arg \in Args(kind), sid \in Sids(p, kind) :
         Post(p, kind, target, arg, sid)
  \/ \E kind \in Kinds \cap {"nuke", "cleared"} : ServerFrame(kind)

Receive ==
  \/ ReceiveReplay \/ ReceiveCleared \/ ReceiveSealed \/ ReceiveAside \/ ReceiveNuke
  \/ ReceiveEdit \/ ReceiveDelete \/ ReceiveVote \/ ReceiveRepeat
  \/ ReceiveText \/ ReceiveSpoiler \/ ReceivePoll \/ ReceiveFile

Next ==
  \/ Room
  \/ Connect \/ Drop \/ ServerRestart
  \/ Receive
  \/ \E i \in Listed : Get(i)
  \/ TakeDownload

Spec == Init /\ [][Next]_vars

\* subscribeLoop reconnects as long as it runs and Subscribe reads as long as it
\* is connected; nobody has to post, and connections are lost only so often.
FairSpec == Spec /\ WF_vars(Connect) /\ WF_vars(Receive)

-------------------------------------------------------------------------------
(* Properties.                                                             *)

ShownSet == {shown[k] : k \in 1 .. Len(shown)}
LogIds   == {e.id : e \in log}
CaughtUp == conn /\ wire = <<>>

\* Whatever is lost, replayed or repeated, a message is printed at most once
\* and never after a later one (seenMIDs against the replay of a reconnect).
ShownInOrder == \A a, b \in 1 .. Len(shown) : a < b => shown[a] < shown[b]

Elements(s) == {s[k] : k \in 1 .. Len(s)}
Sorted(s)   == \A a, b \in 1 .. Len(s) : a < b => s[a].id < s[b].id
WasSaid(f)  == f.id \in 1 .. Len(said) /\ said[f.id] = f
IsNew(f)    == f.kind \in Content /\ f.id \notin seenMIDs

Numbered      == \A i \in 1 .. Len(said) : said[i].id = i
KeptOnlyIfSo  == ~ServerKeeps => kept = <<>>
QueuesInOrder == Sorted(kept) /\ Sorted(wire)
KeptWasSaid   == \A f \in Elements(kept) : WasSaid(f)
WireWasSaid   == \A f \in Elements(wire) : WasSaid(f) \/ (f.kind = "replay" /\ f.id = 0)
SeenIsShown   == seenMIDs = ShownSet /\ seenMIDs \subseteq ContentIds
NewComesLater == \A f \in Elements(wire) \cup Elements(kept) :
                   IsNew(f) => \A i \in seenMIDs : i < f.id
NewIsOnItsWay == conn => \A f \in Elements(kept) : IsNew(f) => f \in Elements(wire)

\* Why messages are shown in order: what the reader has not seen yet, on its
\* way or kept for a replay, is later than all it has seen, because a message
\* kept and not seen is always still on its way while the reader is connected.
OrderInv == /\ Numbered /\ KeptOnlyIfSo /\ QueuesInOrder /\ KeptWasSaid /\ WireWasSaid
            /\ SeenIsShown /\ ShownInOrder /\ NewComesLater /\ NewIsOnItsWay

\* As long as everything decrypts, replayLeft counts exactly the frames on
\* their way that were said before the reader subscribed, repeats included:
\* no live message is taken for an earlier one, nor the other way round.
ReplayExact ==
  conn /\ (wire = <<>> \/ Head(wire).kind # "replay") =>
    /\ replayLeft <= Len(wire)
    /\ \A k \in 1 .. Len(wire) : wire[k].id <= joinedAt <=> k <= replayLeft

\* A message deleted from the log does not come back with a later replay.
DeletedStaysDeleted == LogIds \cap deleted = {}

\* A file taken off the list by the admins does not come back with a replay.
ClearedStayCleared == files \cap cleared = {}

\* Once the reader has heard of a passed /nuke, nothing said before it is
\* remembered or listed, then or after any later reconnect.
WipedIsGone == \A i \in LogIds \cup files : i > wipedAt

\* What someone the server vouches for said is changed and deleted by that
\* person only, although the session id of a frame can be anyone's (editLog).
OnlyAuthorsChange ==
  /\ \A e \in log : e.data # 0 /\ said[e.id].by # Nobody =>
       said[e.data].by = said[e.id].by /\ said[e.data].target = e.id
  /\ \A i \in deleted : said[i].by # Nobody =>
       \E j \in 1 .. Len(said) : /\ said[j].kind = "delete"
                                 /\ said[j].target = i /\ said[j].by = said[i].by

\* The log is a window on the conversation: it holds at most HistoryMax
\* messages and misses none newer than the oldest it holds.
LogIsWindow ==
  /\ Cardinality(log) <= HistoryMax
  /\ \A i \in ShownSet, j \in LogIds :
       i > j /\ i > wipedAt /\ i \notin deleted /\ said[i].kind # "fleeting" => i \in LogIds

SentBy(i, f) == IF said[i].by # Nobody THEN f.by = said[i].by ELSE f.sid = said[i].sid
Changes(i, kind) == {j \in 1 .. Len(said) : said[j].kind = kind /\ said[j].target = i
                                            /\ SentBy(i, said[j])}
Newest(S) == CHOOSE x \in S : \A y \in S : y <= x
Surviving == {i \in ContentIds : said[i].kind # "fleeting" /\ Changes(i, "delete") = {}}

\* However often the connection was lost and messages, edits and deletes were
\* repeated, a reader that has caught up with a room that keeps everything
\* remembers what is left of the conversation, in its latest wording.
LogConverges ==
  CaughtUp => log = {[id |-> i, data |-> IF Changes(i, "edit") = {} THEN 0
                                         ELSE said[Newest(Changes(i, "edit"))].arg]
                       : i \in Surviving}

Ballots(poll, p) == {j \in 1 .. Len(said) : said[j].kind = "vote" /\ said[j].by = p
                                            /\ said[j].target = poll}

\* A caught-up reader has counted, for each poll and each vouched voter, the
\* last vote cast and no other, and answers the latest poll with /vote.
VotesConverge ==
  CaughtUp =>
    /\ votes = {v \in [poll : PollIds, by : Vouched, choice : Choices] :
                  LET B == Ballots(v.poll, v.by)
                  IN B # {} /\ said[Newest(B)].arg = v.choice}
    /\ lastPoll = IF PollIds = {} THEN 0 ELSE Newest(PollIds)

\* With -autosave, a file somebody else shares while the reader is connected
\* is queued for download when it arrives and there is room in the channel.
LiveFileQueued ==
  [][\A i \in ContentIds :
       /\ Incoming({"file"}) /\ Head(wire).id = i
       /\ conn' /\ wire' = Tail(wire)
       /\ Autosave /\ said[i].sid # Me /\ i > joinedAt /\ i \notin seenMIDs
       /\ Len(downloads) < DownloadCap
       => downloads' = Append(downloads, i)]_vars

\* README:49: files shared by others are saved automatically.  Every file
\* printed that others shared since the reader joined was queued for download
\* or announced as one to /get.
FilesOffered ==
  \A i \in ShownSet : said[i].kind = "file" /\ said[i].sid # Me /\ i > since /\ Autosave
                        => i \in offered

\* main.go:851 "too many downloads queued, use /get %d later": the number
\* printed never fetches another file than the one it was printed for.
HintsStayTrue ==
  \A h \in hints, i \in files : NumberOf(i) = h[2] => i = h[1]

\* main.go:721 "messages and files are gone": after the wipe /reveal has no
\* message from before it to show.
SpoilerIsWiped == lastSpoiler = 0 \/ lastSpoiler > wipedAt

\* README:57 "everyone wipes together when a majority agrees": a caught-up
\* reader holds nothing said before a passed /nuke.
WipesTogether ==
  CaughtUp =>
    \A w \in 1 .. Len(said), i \in LogIds \cup files : said[w].kind = "nuke" => i > w

\* In a room that keeps everything, the reader is shown the whole conversation
\* in order, however often the connection is lost.
Lossless == INSTANCE Transcript WITH said <- ContentIds, heard <- shown, MaySkip <- FALSE
ShowsWholeTranscript == Lossless!FairSpec

\* In every room, what the reader is shown is in order and shown once.
Ordered == INSTANCE Transcript WITH said <- ContentIds, heard <- shown, MaySkip <- TRUE
ShowsTranscript == Ordered!Spec
================================================================================
