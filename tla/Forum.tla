--------------------------------- MODULE Forum ---------------------------------
(***************************************************************************)
(* A reader of a forum: App.loadForum and Room.ForumLog read the stored    *)
(* events a page at a time before the reader subscribes, App.applyForum    *)
(* turns them and the events relayed later into a list of threads and      *)
(* replies, and every /thread and /post is sent by a goroutine of its own  *)
(* (App.forumSend, Room.ForumPost).  The server (external) numbers events  *)
(* as it stores them and relays them to the subscribers in that order, but *)
(* not in one step with storing them; it does not repeat them after a      *)
(* reconnect.                                                              *)
(*                                                                         *)
(* An event's number stands for its message id.                            *)
(***************************************************************************)
EXTENDS Integers, Sequences, FiniteSets

CONSTANTS
  PageLimit,   \* how many events a page of the log has at most
  MaxEvents,   \* bound: events in the forum
  MaxOwn,      \* bound: threads and posts of the reader
  MaxDrops     \* bound: lost connections

ASSUME ForumAssumption ==
  PageLimit \in Nat \ {0} /\ MaxEvents \in Nat /\ MaxOwn \in Nat /\ MaxDrops \in Nat

Numbers == 1 .. MaxEvents
Event == [id : Numbers, kind : {"forum", "thread", "post", "sealed"}, thread : 0 .. MaxEvents]
Draft == [own : 1 .. MaxOwn, kind : {"thread", "post"}, thread : 0 .. MaxEvents]

VARIABLES
  log,       \* the events the server has stored, log[i] has number i
  relayed,   \* how many of them it has relayed
  online,    \* the websocket is open
  wire,      \* events sent to the reader and not yet handled
  drops,     \* lost connections so far
  lost,      \* events relayed while it was closed, or lost with it
  phase,     \* loadForum: asking, reading pages, replaying them; then ready or failed
  heldFirst, \* how much the forum held when the reader came
  after,     \* ForumLog's after
  fetched,   \* ForumLog's out
  replayed,  \* how many of those loadForum has applied
  title,     \* forumState.title: the event it comes from, 0 for none
  threads,   \* forumState.threads, by number
  replies,   \* the replies in all of them, in the order they were added
  shownAs,   \* <<thread, n>> for every number n a thread was ever printed with
  drafts,    \* own events on their way to the server
  owned      \* own events so far

server == <<log, relayed>>
link   == <<online, wire, drops, lost>>
load   == <<phase, heldFirst, after, fetched, replayed>>
list   == <<title, threads, replies, shownAs>>
own    == <<drafts, owned>>
vars   == <<server, link, load, list, own>>

Elements(s) == {s[k] : k \in 1 .. Len(s)}
Ids(s)      == {s[k].id : k \in 1 .. Len(s)}

TypeOK ==
  /\ log \in Seq(Event) /\ Len(log) <= MaxEvents /\ relayed \in 0 .. Len(log)
  /\ online \in BOOLEAN /\ wire \in Seq(Event) /\ drops \in 0 .. MaxDrops /\ lost \subseteq Numbers
  /\ phase \in {"off", "paging", "replaying", "ready", "failed"}
  /\ heldFirst \in Nat /\ after \in Nat /\ fetched \in Seq(Event) /\ replayed \in 0 .. Len(fetched)
  /\ title \in 0 .. MaxEvents /\ threads \in Seq(Numbers) /\ replies \in Seq(Event)
  /\ shownAs \subseteq Numbers \X Numbers
  /\ drafts \subseteq Draft /\ owned \in 0 .. MaxOwn

Init ==
  /\ log = <<>> /\ relayed = 0
  /\ online = FALSE /\ wire = <<>> /\ drops = 0 /\ lost = {}
  /\ phase = "off" /\ heldFirst = 0 /\ after = 0 /\ fetched = <<>> /\ replayed = 0
  /\ title = 0 /\ threads = <<>> /\ replies = <<>> /\ shownAs = {}
  /\ drafts = {} /\ owned = 0

-------------------------------------------------------------------------------
(* The server and the others.                                              *)

ThreadIds(s) == {s[k].id : k \in {j \in 1 .. Len(s) : s[j].kind = "thread"}}

Stored(kind, thread) ==
  /\ Len(log) < MaxEvents
  /\ log' = Append(log, [id |-> Len(log) + 1, kind |-> kind, thread |-> thread])

\* Somebody else starts the forum or a thread, replies, or stores what does not
\* decrypt with the reader's link.
OthersStore(kind, thread) ==
  /\ Stored(kind, thread)
  /\ UNCHANGED <<relayed, link, load, list, own>>

\* The next event is relayed to whoever is subscribed.
Relay ==
  /\ relayed < Len(log)
  /\ relayed' = relayed + 1
  /\ IF online THEN wire' = Append(wire, log[relayed + 1]) /\ UNCHANGED lost
               ELSE lost' = lost \cup {relayed + 1} /\ UNCHANGED wire
  /\ UNCHANGED <<log, online, drops, load, list, own>>

Drop ==
  /\ online /\ drops < MaxDrops
  /\ online' = FALSE /\ wire' = <<>> /\ drops' = drops + 1
  /\ lost' = lost \cup Ids(wire)
  /\ UNCHANGED <<server, load, list, own>>

-------------------------------------------------------------------------------
(* App.loadForum.                                                          *)

\* Room.ForumInfo: the forum is there.
Begin ==
  /\ phase = "off"
  /\ phase' = "paging" /\ heldFirst' = Len(log)
  /\ UNCHANGED <<server, link, after, fetched, replayed, list, own>>

\* It is gone, or a request or an answer fails: run shuts down.
LoadFails ==
  /\ phase \in {"off", "paging"}
  /\ phase' = "failed"
  /\ UNCHANGED <<server, link, heldFirst, after, fetched, replayed, list, own>>

Readable(e) == e.kind # "sealed"

\* What the server answers to "log?after=...&limit=...".
Page ==
  SubSeq(log, after + 1, IF after + PageLimit < Len(log) THEN after + PageLimit ELSE Len(log))

\* after moves on with every entry of the page, readable or not.
BugLastReadable ==
  LET good == {k \in 1 .. Len(Page) : Readable(Page[k])}
  IN IF good = {} THEN after ELSE Page[CHOOSE k \in good : \A j \in good : j <= k].id
LastOfPage == IF Page = <<>> THEN after ELSE Page[Len(Page)].id

\* What decrypts of a page, one entry after the other.
ReadableOf(page) ==
  LET out[n \in 0 .. Len(page)] ==
        IF n = 0 THEN <<>>
        ELSE IF Readable(page[n]) THEN Append(out[n - 1], page[n]) ELSE out[n - 1]
  IN out[Len(page)]

LastPage(page) == Len(page) < PageLimit

ReadPage ==
  /\ phase = "paging"
  /\ fetched' = fetched \o ReadableOf(Page)
  /\ after' = LastOfPage
  /\ phase' = IF LastPage(Page) THEN "replaying" ELSE phase
  /\ UNCHANGED <<server, link, heldFirst, replayed, list, own>>

-------------------------------------------------------------------------------
(* App.applyForum: one action for each kind of event; live ones are shown. *)

BugNoDedupe(e) == TRUE
NewThread(e) == e.id \notin Elements(threads)
NewReply(e) ==
  /\ e.thread \in Elements(threads)
  /\ \A k \in 1 .. Len(replies) : ~(replies[k].thread = e.thread /\ replies[k].id = e.id)

ApplyForum(e) ==
  /\ e.kind = "forum"
  /\ title' = IF title = 0 THEN e.id ELSE title
  /\ UNCHANGED <<threads, replies, shownAs>>

AddThread(e) == Append(threads, e.id)

\* The number it is printed with.
NumberOfNew == Len(threads) + 1

ApplyThread(e, live) ==
  /\ e.kind = "thread"
  /\ IF NewThread(e)
     THEN /\ threads' = AddThread(e)
          /\ shownAs' = IF live THEN shownAs \cup {<<e.id, NumberOfNew>>} ELSE shownAs
     ELSE UNCHANGED <<threads, shownAs>>
  /\ UNCHANGED <<title, replies>>

ApplyPost(e) ==
  /\ e.kind = "post"
  /\ replies' = IF NewReply(e) THEN Append(replies, e) ELSE replies
  /\ UNCHANGED <<title, threads, shownAs>>

Apply(e, live) == ApplyForum(e) \/ ApplyThread(e, live) \/ ApplyPost(e)

ReplayOne ==
  /\ phase = "replaying" /\ replayed < Len(fetched)
  /\ replayed' = replayed + 1
  /\ Apply(fetched[replayed + 1], FALSE)
  /\ UNCHANGED <<server, link, phase, heldFirst, after, fetched, own>>

\* printThreads, and run goes on.
Ready ==
  /\ phase = "replaying" /\ replayed = Len(fetched)
  /\ phase' = "ready"
  /\ shownAs' = shownAs \cup {<<threads[n], n>> : n \in 1 .. Len(threads)}
  /\ UNCHANGED <<server, link, heldFirst, after, fetched, replayed, title, threads, replies, own>>

\* subscribeLoop, started when the log has been read.
Reconnects == TRUE

Subscribe ==
  /\ phase = "ready" /\ ~online /\ Reconnects
  /\ online' = TRUE
  /\ UNCHANGED <<server, wire, drops, lost, load, list, own>>

Take == online /\ wire # <<>> /\ wire' = Tail(wire)

Receive ==
  /\ Take
  /\ Apply(Head(wire), TRUE)
  /\ UNCHANGED <<server, online, drops, lost, load, own>>

\* Room.Subscribe drops what does not decrypt.
ReceiveSealed ==
  /\ Take
  /\ Head(wire).kind = "sealed"
  /\ UNCHANGED <<server, online, drops, lost, load, list, own>>

-------------------------------------------------------------------------------
(* App.command and App.forumSend.                                          *)

Drafted(kind, thread) ==
  /\ phase = "ready" /\ owned < MaxOwn
  /\ owned' = owned + 1
  /\ drafts' = drafts \cup {[own |-> owned + 1, kind |-> kind, thread |-> thread]}
  /\ UNCHANGED <<server, link, load, list>>

TypeThread == Drafted("thread", 0)

\* /post n: threadArg finds the n-th thread.
TypePost(n) == n \in 1 .. Len(threads) /\ Drafted("post", threads[n])

\* The site stores the event and will relay it to everybody, us included.  What
\* becomes of its answer only decides whether "not posted" is printed.
OwnStored(d) ==
  /\ d \in drafts
  /\ Stored(d.kind, d.thread)
  /\ drafts' = drafts \ {d}
  /\ UNCHANGED <<relayed, link, load, list, owned>>

\* Refused, timed out or not sent.
OwnFails(d) ==
  /\ d \in drafts
  /\ drafts' = drafts \ {d}
  /\ UNCHANGED <<server, link, load, list, owned>>

-------------------------------------------------------------------------------
Others ==
  \/ \E kind \in {"forum", "thread", "sealed"} : OthersStore(kind, 0)
  \/ \E t \in ThreadIds(log) : OthersStore("post", t)

Loading == Begin \/ ReadPage \/ ReplayOne \/ Ready
Own     == \E d \in drafts : OwnStored(d) \/ OwnFails(d)
Listen  == Receive \/ ReceiveSealed

Next ==
  \/ Others \/ Relay \/ Drop
  \/ Loading \/ LoadFails \/ Subscribe \/ Listen
  \/ TypeThread \/ (\E n \in 1 .. Len(threads) : TypePost(n))
  \/ Own

Spec == Init /\ [][Next]_vars

\* The reader loads, subscribes, reads and sends what was typed as long as it
\* runs, and the server relays what it stored.
FairSpec == Spec /\ WF_vars(Loading) /\ WF_vars(Subscribe) /\ WF_vars(Listen) /\ WF_vars(Own)
                 /\ WF_vars(Relay)

-------------------------------------------------------------------------------
(* Properties.                                                             *)

\* Pages neither skip nor repeat an event, whatever is stored between them and
\* wherever the last one ends: what ForumLog returns is all that is readable of
\* the log up to after, and after the last page that includes everything the
\* forum held when the reader came.
LoadedWhole ==
  /\ fetched = ReadableOf(SubSeq(log, 1, after))
  /\ phase \in {"replaying", "ready"} => after >= heldFirst

\* What got to the reader: loaded, or relayed and not lost.
Reached == {i \in 1 .. Len(log) : i <= after \/ (i <= relayed /\ i \notin lost \cup Ids(wire))}

KnownThreads == {i \in Reached : log[i].kind = "thread"}
KnownPosts   == {i \in Reached : log[i].kind = "post" /\ log[i].thread \in KnownThreads}
KnownTitles  == {i \in Reached : log[i].kind = "forum"}

Ascending(s) == \A a, b \in 1 .. Len(s) : a < b => s[a] < s[b]

\* The list is what replaying everything that reached the reader gives: every
\* thread and every reply to a known thread once, in the forum's order, under
\* the first title, though events come twice (in the log and live) and the log
\* grows between its last page and the subscription.
FollowsLog ==
  phase = "ready" =>
    /\ Ascending(threads) /\ Elements(threads) = KnownThreads
    /\ Ascending([k \in 1 .. Len(replies) |-> replies[k].id]) /\ Ids(replies) = KnownPosts
    /\ \A k \in 1 .. Len(replies) : replies[k] = log[replies[k].id]
    /\ IF KnownTitles = {} THEN title = 0
                           ELSE title \in KnownTitles /\ \A i \in KnownTitles : title <= i

\* The number a thread was once printed with is its number for good: /read and
\* /post never take it for another one (files are renumbered, threads are not).
NumbersStand == \A p \in shownAs : p[2] <= Len(threads) /\ threads[p[2]] = p[1]

\* The pages, the list and the numbers agree with the forum in every state.
ForumInv == TypeOK /\ LoadedWhole /\ FollowsLog /\ NumbersStand

\* What the reader is shown of a forum is a transcript of its threads.
Promise == INSTANCE Transcript WITH said <- ThreadIds(log), heard <- threads, MaySkip <- TRUE
ImplementsTranscript == Promise!Spec

\* Reading the log comes to an end, also when whole pages cannot be decrypted.
LoadEnds == phase = "paging" ~> phase \in {"ready", "failed"}

\* Once it has loaded the forum, the reader catches up with all that is stored.
CatchesUp == phase = "ready" ~> online /\ wire = <<>> /\ relayed = Len(log)

\* The reader gets at the forum as it was and then follows it.
KeepsUp == LoadEnds /\ CatchesUp

\* README:63 "New threads and replies from others show up as they're posted":
\* everything relayed is listed once the reader has caught up.
AllShowUp ==
  phase = "ready" /\ online /\ wire = <<>> =>
    \A i \in 1 .. relayed : log[i].kind = "thread" => i \in Elements(threads)
================================================================================
