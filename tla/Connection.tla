------------------------------ MODULE Connection ------------------------------
(***************************************************************************)
(* The life of a reader process: sign-in and the room's password (main),   *)
(* the loop that keeps it subscribed (App.subscribeLoop, Room.Initialize,  *)
(* ticket and Subscribe with its pinger), the ways it ends (App.run) and   *)
(* keep-room.sh, which starts it again.  The room is a chat room: a forum  *)
(* loads its threads before it subscribes.  The server, the network, the   *)
(* user and the site's admins are the environment.                         *)
(***************************************************************************)
EXTENDS Integers, Sequences, FiniteSets

CONSTANTS
  Login,       \* started with -login
  LoginRight,  \* with the right account password
  Invisible,   \* started with -invisible (needs -login)
  Terminal,    \* stdin and stdout are a terminal: a user can type
  Given,       \* a room password was given with -password or in the environment
  GivenRight,  \* and it is the right one
  Keeper,      \* run by keep-room.sh
  MaxChanges   \* bound: what happens to the server, the network and the room

ASSUME ConnectionAssumption ==
  /\ Login \in BOOLEAN /\ LoginRight \in BOOLEAN /\ Invisible \in BOOLEAN /\ Terminal \in BOOLEAN
  /\ Given \in BOOLEAN /\ GivenRight \in BOOLEAN /\ Keeper \in BOOLEAN
  /\ Invisible => Login
  /\ GivenRight => Given
  /\ Keeper => ~Terminal
  /\ MaxChanges \in Nat

MaxAsks == 3                        \* how often the room's password is asked for
Killed  == 143                      \* status of a process ended by a signal

\* The seconds subscribeLoop should wait after the n-th failure in a row.
Wait(n) == CASE n <= 1 -> 1 [] n = 2 -> 2 [] n = 3 -> 4 [] n = 4 -> 8 [] n = 5 -> 16
             [] OTHER -> 30

Least(a, b) == IF a < b THEN a ELSE b

Mains   == {"start", "knock", "ask", "run", "quit", "gone"}
Loops   == {"off", "initialize", "ticket", "dial", "reading", "backoff", "stopped"}
Links   == {"none", "live", "silent", "broken", "closed", "banned"}
Watches == {"waiting", "signalled", "blocked"}

VARIABLES
  up,          \* the server can be reached
  room,        \* "open", "closed" (by the admins) or "banned" (us)
  locked,      \* the room has a password
  givenWorks,  \* and it is the one given at the start
  changes,     \* what has happened to all these so far
  canceled,    \* a signal has arrived: ctx is done
  main,        \* where main is: before App.run, in it, or in a shutdown
  loop,        \* where App.subscribeLoop is
  watch,       \* the goroutine in App.run that waits for ctx and App.closed
  identified,  \* the server gave us a token to post and ask for tickets with
  key,         \* Room's access token: for no, the wrong or the right password
  asks,        \* how often the password was asked for ("tries")
  link,        \* the websocket: what reading from it will come to
  mark,        \* whom the server takes the websocket for
  ticket,      \* the ticket in hand
  online,      \* UI.online
  backoff,     \* subscribeLoop's backoff
  lastErr,     \* subscribeLoop's lastErr
  joined,      \* App.joined is closed
  closed,      \* App.closed is closed
  status,        \* exit status, -1 while the process runs
  failures,    \* attempts that failed since the last websocket (at most 6)
  everClosed,  \* the admins closed the room at some time
  everBanned   \* or banned us

world   == <<up, room, locked, givenWorks, changes, everClosed, everBanned>>
process == <<identified, key, asks>>
subscription == <<link, mark, ticket, online, backoff, lastErr, joined, closed, failures>>
vars == <<world, canceled, main, loop, watch, process, subscription, status>>

TypeOK ==
  /\ up \in BOOLEAN /\ room \in {"open", "closed", "banned"} /\ locked \in BOOLEAN /\ givenWorks \in BOOLEAN
  /\ changes \in 0 .. MaxChanges
  /\ canceled \in BOOLEAN /\ main \in Mains /\ loop \in Loops /\ watch \in Watches
  /\ identified \in BOOLEAN /\ key \in {"none", "wrong", "right"} /\ asks \in 0 .. MaxAsks
  /\ link \in Links /\ mark \in {"nobody", "visible", "hidden"}
  /\ ticket \in {"nobody", "visible", "hidden"}
  /\ online \in BOOLEAN /\ backoff \in {1, 2, 4, 8, 16, 30}
  /\ lastErr \in {"none", "network", "password"}
  /\ joined \in BOOLEAN /\ closed \in BOOLEAN
  /\ status \in {-1, 0, 1, 130, Killed} /\ failures \in 0 .. 6
  /\ everClosed \in BOOLEAN /\ everBanned \in BOOLEAN

\* A fresh process.
Fresh ==
  /\ canceled = FALSE /\ main = "start" /\ loop = "off" /\ watch = "waiting"
  /\ identified = FALSE
  /\ key = IF ~Given THEN "none" ELSE IF givenWorks THEN "right" ELSE "wrong"
  /\ asks = 0
  /\ link = "none" /\ mark = "nobody" /\ ticket = "nobody"
  /\ online = FALSE /\ backoff = 1 /\ lastErr = "none"
  /\ joined = FALSE /\ closed = FALSE /\ status = -1 /\ failures = 0

Init ==
  /\ up \in BOOLEAN /\ room = "open" /\ locked \in BOOLEAN /\ changes = 0
  /\ givenWorks = GivenRight
  /\ everClosed = FALSE /\ everBanned = FALSE
  /\ Fresh

-------------------------------------------------------------------------------
(* The environment.                                                        *)

Change == changes < MaxChanges /\ changes' = changes + 1

\* What becomes of an open websocket when the other end or the path to it goes:
\* an error to whoever reads it, or nothing at all.
LinkCut == link' \in IF link = "live" THEN {"broken", "silent"} ELSE {link}

StaysAsItIs == UNCHANGED <<canceled, main, loop, watch, process, mark, ticket, online, backoff,
                           lastErr, joined, closed, status, failures>>

ServerDown == /\ Change /\ up /\ up' = FALSE /\ LinkCut
              /\ UNCHANGED <<room, locked, givenWorks, everClosed, everBanned>> /\ StaysAsItIs

ServerUp == /\ Change /\ ~up /\ up' = TRUE
            /\ UNCHANGED <<room, locked, givenWorks, everClosed, everBanned, link>> /\ StaysAsItIs

LinkBreaks == /\ Change /\ link = "live" /\ LinkCut
              /\ UNCHANGED <<up, room, locked, givenWorks, everClosed, everBanned>> /\ StaysAsItIs

\* The admins close the room or ban us; the server says so on the websocket,
\* and the close frame may be lost with the connection.
Blocked(how) ==
  /\ Change /\ up /\ room = "open" /\ room' = how
  /\ link' \in IF link = "live" THEN {how, "broken", "silent"} ELSE {link}
  /\ everClosed' = (everClosed \/ how = "closed")
  /\ everBanned' = (everBanned \/ how = "banned")
  /\ UNCHANGED <<up, locked, givenWorks>> /\ StaysAsItIs

Reopened == /\ Change /\ up /\ room # "open" /\ room' = "open"
            /\ UNCHANGED <<up, locked, givenWorks, everClosed, everBanned, link>> /\ StaysAsItIs

\* The owner gives the room a password (or another one).
Locked ==
  /\ Change /\ up /\ locked' = TRUE /\ givenWorks' = FALSE
  /\ key' = IF key = "right" THEN "wrong" ELSE key
  /\ UNCHANGED <<up, room, everClosed, everBanned, link, canceled, main, loop, watch,
                 identified, asks, mark, ticket, online, backoff, lastErr, joined, closed,
                 status, failures>>

\* SIGTERM, SIGHUP, or SIGINT when the terminal is not raw.
Signalled ==
  /\ Change /\ main \notin {"start", "gone"} /\ ~canceled /\ canceled' = TRUE
  /\ UNCHANGED <<up, room, locked, givenWorks, everClosed, everBanned, main, loop, watch,
                 process, subscription, status>>

-------------------------------------------------------------------------------
(* main: sign-in, and the room's password.                                 *)

\* What Room.Initialize comes to.
Answer ==
  IF canceled \/ ~up THEN "network"
  ELSE IF room # "open" THEN room
  ELSE IF locked /\ key # "right" THEN "password"
  ELSE "ok"

End(code) ==
  /\ main' = "gone" /\ status' = code /\ online' = FALSE /\ link' = "none" /\ loop' = "off"

\* Before App.run the websocket and subscribeLoop do not exist.
NotRunningYet == UNCHANGED <<loop, link, online, status>>

\* signIn, or guestName: without -login the reader goes on without a name.
SignIn ==
  /\ main = "start"
  /\ \/ /\ up /\ (Login => LoginRight)
        /\ identified' = TRUE /\ main' = "knock" /\ NotRunningYet
     \/ /\ ~Login
        /\ identified' = FALSE /\ main' = "knock" /\ NotRunningYet
     \/ /\ Login /\ ~(up /\ LoginRight)
        /\ End(1) /\ UNCHANGED identified
  /\ UNCHANGED <<world, canceled, watch, key, asks, mark, ticket, backoff, lastErr, joined,
                 closed, failures>>

\* Ctrl-C at the prompt for the account's password, or a signal before main
\* has asked for signals.
EndsEarly ==
  /\ main = "start" /\ changes < MaxChanges /\ changes' = changes + 1
  /\ \/ Login /\ Terminal /\ End(130)
     \/ End(Killed)
  /\ UNCHANGED <<up, room, locked, givenWorks, everClosed, everBanned, canceled, watch, process,
                 mark, ticket, backoff, lastErr, joined, closed, failures>>

BugGivesUpAtOnce == asks = MaxAsks \/ (asks = 0 /\ Given)
GivesUp == asks = MaxAsks \/ (asks = 0 /\ Given /\ ~Terminal)

\* One round of the password loop; any answer but "password" goes on to App.run.
Knock ==
  /\ main = "knock"
  /\ \/ /\ Answer # "password"
        /\ main' = "run" /\ loop' = "initialize"
        /\ UNCHANGED <<link, online, status>>
     \/ /\ Answer = "password" /\ ~GivesUp /\ Terminal
        /\ main' = "ask"
        /\ NotRunningYet
     \/ /\ Answer = "password" /\ (GivesUp \/ ~Terminal)
        /\ End(1)
  /\ UNCHANGED <<world, canceled, watch, process, mark, ticket, backoff, lastErr, joined,
                 closed, failures>>

\* askSecret: a password, or Ctrl-C (a key here: the terminal is raw).
TypePassword(k) ==
  /\ main = "ask"
  /\ key' = k /\ asks' = asks + 1 /\ main' = "knock"
  /\ UNCHANGED <<world, canceled, loop, watch, identified, subscription, status>>

LeavePrompt ==
  /\ main = "ask" /\ End(130)
  /\ UNCHANGED <<world, canceled, watch, process, mark, ticket, backoff, lastErr, joined,
                 closed, failures>>

-------------------------------------------------------------------------------
(* App.subscribeLoop.                                                      *)

Working == main \in {"run", "quit"}

BugStaysOnline(err) ==
  /\ link' = "none" /\ mark' = "nobody" /\ ticket' = "nobody"
  /\ failures' = Least(failures + 1, 6)
  /\ IF canceled THEN loop' = "stopped" /\ UNCHANGED <<closed, lastErr>>
     ELSE IF err \in {"closed", "banned"}
          THEN loop' = "stopped" /\ closed' = TRUE /\ UNCHANGED lastErr
          ELSE loop' = "backoff" /\ lastErr' = err /\ UNCHANGED closed
  /\ UNCHANGED <<world, canceled, main, watch, process, online, backoff, joined, status>>

BugStopsOnPassword(err) ==
  /\ online' = FALSE /\ link' = "none" /\ mark' = "nobody" /\ ticket' = "nobody"
  /\ failures' = Least(failures + 1, 6)
  /\ IF canceled THEN loop' = "stopped" /\ UNCHANGED <<closed, lastErr>>
     ELSE IF err # "network"
          THEN loop' = "stopped" /\ closed' = TRUE /\ UNCHANGED lastErr
          ELSE loop' = "backoff" /\ lastErr' = err /\ UNCHANGED closed
  /\ UNCHANGED <<world, canceled, main, watch, process, backoff, joined, status>>

\* An attempt or a subscription ended with an error: SetOnline(false), then
\* return when ctx is done, give up for good when blocked, or wait.
Fails(err) ==
  /\ online' = FALSE /\ link' = "none" /\ mark' = "nobody" /\ ticket' = "nobody"
  /\ failures' = Least(failures + 1, 6)
  /\ IF canceled THEN loop' = "stopped" /\ UNCHANGED <<closed, lastErr>>
     ELSE IF err \in {"closed", "banned"}
          THEN loop' = "stopped" /\ closed' = TRUE /\ UNCHANGED lastErr
          ELSE loop' = "backoff" /\ lastErr' = err /\ UNCHANGED closed
  /\ UNCHANGED <<world, canceled, main, watch, process, backoff, joined, status>>

Goes(to) ==
  /\ loop' = to
  /\ UNCHANGED <<world, canceled, main, watch, process, link, mark, online, backoff, lastErr,
                 joined, closed, status, failures>>

LoopInitialize ==
  /\ Working /\ loop = "initialize"
  /\ IF Answer = "ok" THEN Goes("ticket") /\ UNCHANGED ticket ELSE Fails(Answer)

\* Room.ticket: no ticket without a token, and none on any error.
LoopTicket ==
  /\ Working /\ loop = "ticket"
  /\ ticket' \in {"nobody"} \cup
                 IF identified /\ up /\ ~canceled
                 THEN {IF Invisible THEN "hidden" ELSE "visible"} ELSE {}
  /\ Goes("dial")

\* websocket.Dial and onOpen, or an error.
LoopDial ==
  /\ Working /\ loop = "dial"
  /\ \/ /\ up /\ room = "open" /\ ~canceled
        /\ loop' = "reading" /\ link' = "live" /\ mark' = ticket
        /\ online' = TRUE /\ backoff' = 1 /\ lastErr' = "none" /\ joined' = TRUE
        /\ failures' = 0
        /\ UNCHANGED <<world, canceled, main, watch, process, ticket, closed, status>>
     \/ (~up \/ room # "open" \/ canceled) /\ Fails("network")

\* c.Read returns an error: the connection broke, the server closed it, the
\* pinger closed it (PingTimesOut), or ctx is done.
LoopReadFails ==
  /\ Working /\ loop = "reading"
  /\ \/ link \in {"closed", "banned"} /\ Fails(link)
     \/ (link = "broken" \/ canceled) /\ Fails("network")

BugNoPing == FALSE /\ UNCHANGED vars

\* Within 40 seconds of silence the pinger closes the websocket.
PingTimesOut ==
  /\ Working /\ loop = "reading" /\ link = "silent"
  /\ link' = "broken"
  /\ UNCHANGED <<world, canceled, main, loop, watch, process, mark, ticket, online, backoff,
                 lastErr, joined, closed, status, failures>>

BugNoLimit == backoff' = Least(backoff * 2, 32)
NextWait   == backoff' = Least(backoff * 2, 30)

\* The wait ends, with time or with ctx.
LoopWaits ==
  /\ Working /\ loop = "backoff"
  /\ IF canceled THEN loop' = "stopped" /\ UNCHANGED backoff
                 ELSE loop' = "initialize" /\ NextWait
  /\ UNCHANGED <<world, canceled, main, watch, process, link, mark, ticket, online, lastErr,
                 joined, closed, status, failures>>

-------------------------------------------------------------------------------
(* App.run: how the process ends.                                          *)

BugWatchesSignalsOnly ==
  /\ Working /\ watch = "waiting"
  /\ canceled /\ watch' = "signalled"
  /\ UNCHANGED <<world, canceled, main, loop, process, subscription, status>>

BugWatchesRoomOnly ==
  /\ Working /\ watch = "waiting"
  /\ closed /\ watch' = "blocked"
  /\ UNCHANGED <<world, canceled, main, loop, process, subscription, status>>

\* The goroutine that waits for ctx or App.closed wakes up and says goodbye.
WatchWakes ==
  /\ Working /\ watch = "waiting"
  /\ \/ canceled /\ watch' = "signalled"
     \/ closed /\ watch' = "blocked"
  /\ UNCHANGED <<world, canceled, main, loop, process, subscription, status>>

\* shutdown, after sayLeave (at most two seconds).
WatchExits ==
  /\ Working /\ watch # "waiting"
  /\ End(IF watch = "signalled" THEN 130 ELSE 1)
  /\ UNCHANGED <<world, canceled, watch, process, mark, ticket, backoff, lastErr, joined,
                 closed, failures>>

\* /quit, or Ctrl-C or Ctrl-D as keys; the main goroutine says goodbye too.
UserQuits ==
  /\ main = "run" /\ ~Keeper
  /\ main' = "quit"
  /\ UNCHANGED <<world, canceled, loop, watch, process, subscription, status>>

MainExits ==
  /\ main = "quit" /\ End(0)
  /\ UNCHANGED <<world, canceled, watch, process, mark, ticket, backoff, lastErr, joined,
                 closed, failures>>

\* keep-room.sh starts the reader again after 30 seconds.
Restarts ==
  /\ Keeper /\ main = "gone"
  /\ canceled' = FALSE /\ main' = "start" /\ loop' = "off" /\ watch' = "waiting"
  /\ identified' = FALSE /\ asks' = 0
  /\ key' = IF ~Given THEN "none" ELSE IF givenWorks THEN "right" ELSE "wrong"
  /\ link' = "none" /\ mark' = "nobody" /\ ticket' = "nobody"
  /\ online' = FALSE /\ backoff' = 1 /\ lastErr' = "none"
  /\ joined' = FALSE /\ closed' = FALSE /\ status' = -1 /\ failures' = 0
  /\ UNCHANGED world

-------------------------------------------------------------------------------
Environment ==
  \/ ServerDown \/ ServerUp \/ LinkBreaks \/ Reopened \/ Locked
  \/ \E how \in {"closed", "banned"} : Blocked(how)
  \/ Signalled

Loop == LoopInitialize \/ LoopTicket \/ LoopDial \/ LoopReadFails \/ LoopWaits

Next ==
  \/ Environment
  \/ SignIn \/ EndsEarly \/ Knock \/ (\E k \in {"wrong", "right"} : TypePassword(k)) \/ LeavePrompt
  \/ Loop \/ PingTimesOut
  \/ WatchWakes \/ WatchExits \/ UserQuits \/ MainExits
  \/ Restarts

Spec == Init /\ [][Next]_vars

\* Every step of the reader that waits for nobody is taken in the end: requests
\* and reads end by themselves, if only when TCP gives up, waits end with time,
\* and the keeper sleeps 30 seconds.  What the user and the world do is not fair.
Fairness ==
  /\ WF_vars(SignIn) /\ WF_vars(Knock)
  /\ WF_vars(Loop) /\ WF_vars(PingTimesOut)
  /\ WF_vars(WatchWakes) /\ WF_vars(WatchExits) /\ WF_vars(MainExits)
  /\ WF_vars(Restarts)

FairSpec == Spec /\ Fairness

-------------------------------------------------------------------------------
(* Properties.                                                             *)

\* The prompt shows "online" exactly while the reader is subscribed, whatever
\* way the subscription ends (UI.SetOnline in subscribeLoop).
OnlineTruthful == online <=> loop = "reading"

\* Each wait is twice the one before, 30 seconds at most, starting from one
\* second after every websocket that opened.
BackoffLaw == loop = "backoff" => backoff = Wait(failures)

\* What subscribeLoop shows the user, and how long it waits, is right.
LoopInv == OnlineTruthful /\ BackoffLaw

\* README:101: once it has been in the room, the reader ends with status 1 only
\* when the admins blocked the room or the person, never for a lost connection
\* or a changed password.
StopsOnlyWhenBlocked ==
  /\ closed => everClosed \/ everBanned
  /\ status = 1 /\ joined => closed

\* Why these hold: the wait is always the one its number of failures asks for,
\* and what tells the reader that it is blocked was told by the admins.
BackoffStep ==
  /\ loop = "backoff" => failures # 0 /\ backoff = Wait(failures)
  /\ main \in {"start", "knock", "ask"} \/ loop \in {"initialize", "ticket", "dial", "reading"}
       => backoff = Wait(failures + 1)
BlockIsTold ==
  /\ room = "closed" => everClosed
  /\ room = "banned" => everBanned
  /\ link = "closed" => everClosed
  /\ link = "banned" => everBanned
BeforeRun ==
  main \in {"start", "knock", "ask"} => loop = "off" /\ ~joined /\ ~closed /\ watch = "waiting"
SafetyInv ==
  /\ OnlineTruthful /\ BackoffStep /\ BlockIsTold /\ BeforeRun /\ StopsOnlyWhenBlocked
  /\ (watch = "blocked" => closed) /\ (main # "gone" => status = -1)

\* main.go:135: without an account to sign in to, the reader gives up before it
\* is in only for a wrong room password, asked for three times at a terminal.
AsksThrice ==
  status = 1 /\ ~closed /\ ~Login => locked /\ key # "right" /\ (Terminal => asks = MaxAsks)

\* README:102 "The one exception is when the site's admins block the room".
OnlyAClosedRoomStops == status = 1 /\ joined => everClosed

\* main.go:67 "don't show up as here or count in /nuke votes".
InvisibleIsHidden == Invisible /\ loop = "reading" => mark = "hidden"

\* README:67 "for a password room pass -password ..., or it asks": nobody at a
\* terminal is kept out for want of a password without having been asked.
PasswordIsAsked == Terminal /\ lastErr = "password" => asks > 0

Reachable == up /\ room = "open" /\ (locked => key = "right")

\* Once the room can be entered and stays so, a reader that is not told to stop
\* is in the room in the end and stays in it, over a connection that works.
Reconnects ==
  <>[](main = "run" /\ ~canceled /\ ~closed /\ Reachable) => <>[](loop = "reading" /\ link = "live")

\* A reader whose room stays closed while the server can be reached ends.
ClosedRoomEnds == ~<>[](main = "run" /\ up /\ room = "closed")

\* A signal ends a reader that is in App.run, wherever its loops are.
SignalEnds == (main = "run" /\ canceled) ~> main = "gone"

\* With keep-room.sh somebody is in the room again in the end, whatever ended
\* the reader before.
KeeperReturns ==
  <>[](up /\ room = "open" /\ (locked => givenWorks)) => <>[](loop = "reading" /\ link = "live")
================================================================================
