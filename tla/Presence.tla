------------------------------- MODULE Presence -------------------------------
(***************************************************************************)
(* Who is here: what each reader in a room says of itself (App.signal with *)
(* join, here and leave; App.heartbeat; /away and /back) and the list it   *)
(* keeps of the others (App.peers, changed by App.seen, by the server's    *)
(* "here" frame and by the heartbeat, shown by App.who).                   *)
(*                                                                         *)
(* Every signal is a goroutine's own HTTP request: signals of one reader   *)
(* overtake each other, fail, and may reach the server after the reader    *)
(* has gone.  The server passes each on, in one order, to everybody it is  *)
(* connected to.  Time is counted in units of 30 seconds.                  *)
(***************************************************************************)
EXTENDS Integers, FiniteSets

CONSTANTS
  Sessions,        \* the processes (and browser tabs) that are ever in the room
  Sid,             \* the session id of each (a copied browser tab shares one)
  By,              \* who the server says is behind each
  NoName,          \* ... when it does not vouch for anybody
  Invisible,       \* readers started with -invisible
  Unlisted,        \* invisible users of the website: their presence says so
  HeartbeatEvery,  \* heartbeatEvery, in units
  PeerTimeout,     \* peerTimeout, in units
  Delay,           \* a signal is passed on or lost within so many units
  LossRun,         \* bound: signals of one session lost in a row
  MaxCuts,         \* bound: websockets that break
  MaxTurns,        \* bound: uses of /away and /back
  MaxPosts         \* bound: messages posted

Sids  == {Sid[s] : s \in Sessions}
Names == {By[s] : s \in Sessions} \ {NoName}

ASSUME PresenceAssumption ==
  /\ IsFiniteSet(Sessions)
  /\ Invisible \subseteq Sessions /\ Unlisted \subseteq Sessions
  /\ HeartbeatEvery \in Nat \ {0} /\ PeerTimeout \in Nat /\ Delay \in Nat
  /\ LossRun \in Nat /\ MaxCuts \in Nat /\ MaxTurns \in Nat /\ MaxPosts \in Nat

\* The longest that somebody who has gone stays listed.
Forgotten == PeerTimeout + HeartbeatEvery + Delay

VARIABLES
  status,   \* of each session: "new", "up" or "gone"
  link,     \* its websocket: "down", "fresh" (no "here" frame yet) or "open"
  away,     \* App.away
  peers,    \* App.peers, the entries by session id
  served,   \* App.peers, the "srv:" entries by name
  beat,     \* units until the heartbeat's ticker fires
  pruning,  \* the heartbeat has said "here" and has not yet pruned
  flight,   \* signals and messages on their way to the server
  lost,     \* history: how many of each session were lost in a row
  goneFor,  \* history: units since each session went, up to Forgotten + 1
  cuts, turns, posts

vars == <<status, link, away, peers, served, beat, pruning, flight, lost, goneFor,
          cuts, turns, posts>>

Unknown == [known |-> FALSE, by |-> NoName, age |-> 0, away |-> FALSE]
Nobody  == [i \in Sids |-> Unknown]
Unnamed == [known |-> FALSE, age |-> 0]
NoNames == [n \in Names |-> Unnamed]

Up(s)      == status[s] = "up"
Reads(s)   == Up(s) /\ link[s] # "down"
Visible(s) == s \notin Invisible \cup Unlisted

Messages == [from : Sessions, says : {"join", "here", "leave", "post"},
             away : BOOLEAN, left : 0 .. Delay]

Message(s, says, isAway) == [from |-> s, says |-> says, away |-> isAway, left |-> Delay]

\* A plausible mistake: -invisible only concerns the ticket.
BugSignal(s, says, isAway) == {Message(s, says, isAway)}

\* An invisible reader sends no presence.
Signal(s, says, isAway) ==
  IF s \in Invisible THEN {} ELSE {Message(s, says, isAway)}

Init ==
  /\ status = [s \in Sessions |-> "new"]
  /\ link = [s \in Sessions |-> "down"]
  /\ away = [s \in Sessions |-> FALSE]
  /\ peers = [s \in Sessions |-> Nobody]
  /\ served = [s \in Sessions |-> NoNames]
  /\ beat = [s \in Sessions |-> 0]
  /\ pruning = [s \in Sessions |-> FALSE]
  /\ flight = {}
  /\ lost = [s \in Sessions |-> 0]
  /\ goneFor = [s \in Sessions |-> 0]
  /\ cuts = 0 /\ turns = 0 /\ posts = 0

-----------------------------------------------------------------------------
(* What a reader does with a message of somebody else's. *)

\* A plausible mistake: only posts of invisible users count as hidden.
BugHidden(m) == m.from \in Unlisted /\ m.says = "post"

\* The mark an invisible user of the website puts on its presence.
Hidden(m) == m.from \in Unlisted /\ m.says # "post"

\* A plausible mistake: anybody changes any entry.
BugNoOwner(r, m) == ~Hidden(m) /\ (m.says = "post" => peers[r][Sid[m.from]].known)

\* Presence says who is here; other messages only refresh people it knows.
\* Only whoever an entry belongs to can change it.
Counts(r, m) ==
  LET known == peers[r][Sid[m.from]]
  IN  /\ ~Hidden(m)
      /\ m.says = "post" => known.known
      /\ known.known /\ known.by # NoName => known.by = By[m.from]

SeenPeers(r, m) ==
  [peers[r] EXCEPT ![Sid[m.from]] =
     IF m.says = "leave"
     THEN Unknown
     ELSE [known |-> TRUE, by |-> By[m.from], age |-> 0,
           away |-> IF m.says = "post" THEN @.away ELSE m.away]]

\* Whoever is heard from is no longer only on the server's word.
SeenServed(r, m) ==
  [n \in Names |-> IF n = By[m.from] THEN Unnamed ELSE served[r][n]]

\* Those the server passes m on to who take it for somebody else's.  What it
\* replays of the past to a newcomer (posts, never presence) is not listened to,
\* so that no replay is a step here; that replays and live messages are told
\* apart is Conversation's ReplayExact.
Receivers(m) == {r \in Sessions : Reads(r) /\ Sid[r] # Sid[m.from]}

\* A newcomer is told by everybody that they are here (App.away is not asked).
Replies(m) ==
  IF m.says = "join" THEN UNION {Signal(r, "here", FALSE) : r \in Receivers(m)} ELSE {}

Relay(m) ==
  /\ peers' = [r \in Sessions |->
                 IF r \in Receivers(m) /\ Counts(r, m) THEN SeenPeers(r, m) ELSE peers[r]]
  /\ served' = [r \in Sessions |->
                  IF r \in Receivers(m) /\ Counts(r, m) THEN SeenServed(r, m) ELSE served[r]]
  /\ flight' = (flight \ {m}) \cup Replies(m)
  /\ lost' = [lost EXCEPT ![m.from] = 0]
  /\ UNCHANGED <<status, link, away, beat, pruning, goneFor, cuts, turns, posts>>

\* The request fails, or the process ends before it was sent.
Lose(m) ==
  /\ lost[m.from] < LossRun \/ status[m.from] = "gone"
  /\ flight' = flight \ {m}
  /\ lost' = [lost EXCEPT ![m.from] = IF @ < LossRun THEN @ + 1 ELSE @]
  /\ UNCHANGED <<status, link, away, peers, served, beat, pruning, goneFor, cuts, turns, posts>>

\* The server's "here" frame: the names it vouches for, but not our own.
HereFrame(r) ==
  LET here == {By[s] : s \in {t \in Sessions : Reads(t) /\ Visible(t)}} \ {By[r]}
  IN  /\ Reads(r) /\ link[r] = "fresh"
      /\ link' = [link EXCEPT ![r] = "open"]
      /\ served' = [served EXCEPT ![r] =
                      [n \in Names |-> IF n \in here THEN [known |-> TRUE, age |-> 0] ELSE @[n]]]
      /\ UNCHANGED <<status, away, peers, beat, pruning, flight, lost, goneFor, cuts, turns, posts>>

-----------------------------------------------------------------------------
(* What a reader says. *)

Start(s) ==
  /\ status[s] = "new"
  /\ status' = [status EXCEPT ![s] = "up"]
  /\ beat' = [beat EXCEPT ![s] = HeartbeatEvery]
  /\ UNCHANGED <<link, away, peers, served, pruning, flight, lost, goneFor, cuts, turns, posts>>

Subscribe(s) ==
  /\ Up(s) /\ link[s] = "down"
  /\ link' = [link EXCEPT ![s] = "fresh"]
  /\ flight' = flight \cup Signal(s, "join", FALSE)
  /\ UNCHANGED <<status, away, peers, served, beat, pruning, lost, goneFor, cuts, turns, posts>>

\* The websocket breaks: the list stays as it is.
Cut(s) ==
  /\ Reads(s) /\ cuts < MaxCuts
  /\ link' = [link EXCEPT ![s] = "down"]
  /\ cuts' = cuts + 1
  /\ UNCHANGED <<status, away, peers, served, beat, pruning, flight, lost, goneFor, turns, posts>>

Turn(s, isAway) ==
  /\ Up(s) /\ turns < MaxTurns
  /\ away' = [away EXCEPT ![s] = isAway]
  /\ flight' = flight \cup Signal(s, "here", isAway)
  /\ turns' = turns + 1
  /\ UNCHANGED <<status, link, peers, served, beat, pruning, lost, goneFor, cuts, posts>>

Away(s) == Turn(s, TRUE)
Back(s) == Turn(s, FALSE)

Post(s) ==
  /\ Up(s) /\ posts < MaxPosts
  /\ flight' = flight \cup {Message(s, "post", FALSE)}
  /\ posts' = posts + 1
  /\ UNCHANGED <<status, link, away, peers, served, beat, pruning, lost, goneFor, cuts, turns>>

\* A plausible mistake: the heartbeat leaves the away mark out, as replies do.
BugBeat(s) ==
  /\ Up(s) /\ beat[s] = 0 /\ ~pruning[s]
  /\ flight' = flight \cup Signal(s, "here", FALSE)
  /\ beat' = [beat EXCEPT ![s] = HeartbeatEvery]
  /\ pruning' = [pruning EXCEPT ![s] = TRUE]
  /\ UNCHANGED <<status, link, away, peers, served, lost, goneFor, cuts, turns, posts>>

\* The heartbeat: say "here", then forget those not heard from.
Beat(s) ==
  /\ Up(s) /\ beat[s] = 0 /\ ~pruning[s]
  /\ flight' = flight \cup Signal(s, "here", away[s])
  /\ beat' = [beat EXCEPT ![s] = HeartbeatEvery]
  /\ pruning' = [pruning EXCEPT ![s] = TRUE]
  /\ UNCHANGED <<status, link, away, peers, served, lost, goneFor, cuts, turns, posts>>

\* A plausible mistake: the boundary counts as too old.
BugStale(p) == p.age >= PeerTimeout

Stale(p) == p.age > PeerTimeout

\* A plausible mistake: only the entries by session id are forgotten.
BugPrune(s) ==
  /\ Up(s) /\ pruning[s]
  /\ peers' = [peers EXCEPT ![s] = [i \in Sids |-> IF Stale(@[i]) THEN Unknown ELSE @[i]]]
  /\ pruning' = [pruning EXCEPT ![s] = FALSE]
  /\ UNCHANGED <<status, link, away, served, beat, flight, lost, goneFor, cuts, turns, posts>>

Prune(s) ==
  /\ Up(s) /\ pruning[s]
  /\ peers' = [peers EXCEPT ![s] = [i \in Sids |-> IF Stale(@[i]) THEN Unknown ELSE @[i]]]
  /\ served' = [served EXCEPT ![s] = [n \in Names |-> IF Stale(@[n]) THEN Unnamed ELSE @[n]]]
  /\ pruning' = [pruning EXCEPT ![s] = FALSE]
  /\ UNCHANGED <<status, link, away, beat, flight, lost, goneFor, cuts, turns, posts>>

\* A process that ends takes its list along.
Ends(s) ==
  /\ Up(s)
  /\ status' = [status EXCEPT ![s] = "gone"]
  /\ link' = [link EXCEPT ![s] = "down"]
  /\ away' = [away EXCEPT ![s] = FALSE]
  /\ peers' = [peers EXCEPT ![s] = Nobody]
  /\ served' = [served EXCEPT ![s] = NoNames]
  /\ beat' = [beat EXCEPT ![s] = 0]
  /\ pruning' = [pruning EXCEPT ![s] = FALSE]
  /\ UNCHANGED <<lost, goneFor, cuts, turns, posts>>

Leave(s) ==
  /\ Ends(s)
  /\ flight' = flight \cup Signal(s, "leave", FALSE)

Crash(s) ==
  /\ Ends(s)
  /\ UNCHANGED flight

-----------------------------------------------------------------------------

Older(e) == IF e.known THEN [e EXCEPT !.age = @ + 1] ELSE e

\* 30 seconds pass.  What was due before they do has happened.
Tick ==
  /\ \A s \in Sessions : Up(s) => beat[s] > 0 /\ ~pruning[s]
  /\ \A m \in flight : m.left > 0
  /\ beat' = [s \in Sessions |-> IF Up(s) THEN beat[s] - 1 ELSE 0]
  /\ flight' = {[m EXCEPT !.left = @ - 1] : m \in flight}
  /\ peers' = [s \in Sessions |-> [i \in Sids |-> Older(peers[s][i])]]
  /\ served' = [s \in Sessions |-> [n \in Names |-> Older(served[s][n])]]
  /\ goneFor' = [s \in Sessions |->
                   IF status[s] = "gone" /\ goneFor[s] <= Forgotten
                   THEN goneFor[s] + 1 ELSE goneFor[s]]
  /\ UNCHANGED <<status, link, away, pruning, lost, cuts, turns, posts>>

Passes == \E m \in flight : Relay(m)

Next ==
  \/ Passes
  \/ \E m \in flight : Lose(m)
  \/ Tick
  \/ \E s \in Sessions :
       \/ Start(s) \/ Subscribe(s) \/ HereFrame(s) \/ Cut(s)
       \/ Away(s) \/ Back(s) \/ Post(s)
       \/ Beat(s) \/ Prune(s)
       \/ Leave(s) \/ Crash(s)

\* The heartbeat and the subscription are the reader's own loops, a request
\* comes to an end within its timeout, and time passes.
Fairness ==
  /\ WF_vars(Passes) /\ WF_vars(Tick)
  /\ \A s \in Sessions :
       WF_vars(Beat(s)) /\ WF_vars(Prune(s)) /\ WF_vars(Subscribe(s)) /\ WF_vars(HereFrame(s))

Spec == Init /\ [][Next]_vars
FairSpec == Spec /\ Fairness

-----------------------------------------------------------------------------
(* Properties *)

MaxAge == PeerTimeout + HeartbeatEvery

Entry(ages)     == [known : BOOLEAN, by : Names \cup {NoName}, age : ages, away : BOOLEAN]
NameEntry(ages) == [known : BOOLEAN, age : ages]

\* Everything has its type; no entry gets older than the timeout and one more
\* heartbeat, which is when the next pruning comes (App.heartbeat).
TypeOK ==
  /\ status \in [Sessions -> {"new", "up", "gone"}]
  /\ link \in [Sessions -> {"down", "fresh", "open"}]
  /\ away \in [Sessions -> BOOLEAN]
  /\ peers \in [Sessions -> [Sids -> Entry(0 .. MaxAge)]]
  /\ served \in [Sessions -> [Names -> NameEntry(0 .. MaxAge)]]
  /\ beat \in [Sessions -> 0 .. HeartbeatEvery]
  /\ pruning \in [Sessions -> BOOLEAN]
  /\ flight \subseteq Messages
  /\ lost \in [Sessions -> 0 .. LossRun]
  /\ goneFor \in [Sessions -> 0 .. Forgotten + 1]
  /\ cuts \in 0 .. MaxCuts /\ turns \in 0 .. MaxTurns /\ posts \in 0 .. MaxPosts

Lists(r, s) == peers[r][Sid[s]].known

\* Whoever has gone is off every list within the timeout, a heartbeat and the
\* delay of a last signal, whether it said "leave" or crashed, even when a
\* "here" of its own overtook its "leave" (App.seen, App.heartbeat).
GoneForgotten ==
  \A r, s \in Sessions :
    goneFor[s] > Forgotten =>
      /\ Lists(r, s) => \E t \in Sessions : t # s /\ Sid[t] = Sid[s] /\ goneFor[t] <= Forgotten
      /\ By[s] # NoName /\ served[r][By[s]].known =>
           \E t \in Sessions : t # s /\ By[t] = By[s] /\ goneFor[t] <= Forgotten

\* Why: until its next pruning an entry cannot get older than MaxAge (AgeLaw);
\* a signal outlives its sender by less than its delay (FlightLaw); so a session
\* behind an entry has been gone for at most the age of the entry and the delay
\* of its last signal (EntryLaw, ServedLaw).
DueIn(s) == IF pruning[s] THEN 0 ELSE beat[s]

OnlyGoneAge == \A s \in Sessions : status[s] # "gone" => goneFor[s] = 0
AgeLaw ==
  \A s \in Sessions :
    /\ \A i \in Sids : peers[s][i].age + DueIn(s) <= MaxAge
    /\ \A n \in Names : served[s][n].age + DueIn(s) <= MaxAge
    /\ ~Up(s) => peers[s] = Nobody /\ served[s] = NoNames /\ beat[s] = 0 /\ ~pruning[s]
FlightLaw == \A m \in flight : m.left + goneFor[m.from] <= Delay
EntryLaw ==
  \A r \in Sessions, i \in Sids :
    peers[r][i].known =>
      \E t \in Sessions : Sid[t] = i /\ goneFor[t] <= peers[r][i].age + Delay
ServedLaw ==
  \A r \in Sessions, n \in Names :
    served[r][n].known =>
      \E t \in Sessions : By[t] = n /\ goneFor[t] <= served[r][n].age + Delay
PresenceInv == OnlyGoneAge /\ AgeLaw /\ FlightLaw /\ EntryLaw /\ ServedLaw

\* An invisible user never appears on anybody's list, whatever they post and
\* whosever session id they have (App.signal, App.seen).
InvisibleUnlisted ==
  \A r, s \in Sessions :
    ~Visible(s) =>
      /\ Lists(r, s) => peers[r][Sid[s]].by # By[s]
      /\ \A n \in Names : served[r][n].known => n # By[s]

\* Without broken websockets nobody who is listed and still here is dropped,
\* although signals get lost, as long as no two of a session in a row do: the
\* timeout is two heartbeats and a half (App.heartbeat).
Kept ==
  [][\A r, s \in Sessions :
       Lists(r, s) => Lists(r, s)' \/ ~Up(r)' \/ ~Up(s)']_vars

\* An entry changes hands only after it was dropped, and nobody's entry is
\* dropped by a message of somebody else's (App.seen).
OwnerOnly ==
  [][\A r \in Sessions, i \in Sids :
       LET e == peers[r][i]
       IN  e.known /\ e.by # NoName /\ Up(r)' =>
             \/ peers'[r][i].known /\ peers'[r][i].by = e.by
             \/ Stale(e)
             \/ \E m \in flight \ flight' : m.says = "leave" /\ By[m.from] = e.by]_vars

\* When nothing changes any more the lists of all readers settle: everybody
\* who is here is listed once, as away or not as they are, and nobody else is
\* (App.heartbeat, App.seen, App.who).
Settled ==
  \A r \in Sessions :
    Reads(r) =>
      /\ \A s \in Sessions \ {r} :
           IF Up(s) /\ Visible(s)
           THEN peers[r][Sid[s]].known /\ peers[r][Sid[s]].away = away[s]
           ELSE ~Lists(r, s)
      /\ served[r] = NoNames

Settles == <>[]Settled

\* Somebody who is /away shows as away on every list once what they sent has
\* arrived (what /away prints).
AwayShown ==
  \A r, s \in Sessions :
    Reads(r) /\ r # s /\ away[s] /\ Lists(r, s) /\ (\A m \in flight : m.from # s) =>
      peers[r][Sid[s]].away

================================================================================
