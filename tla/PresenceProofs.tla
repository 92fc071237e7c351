---------------------------- MODULE PresenceProofs ----------------------------
(***************************************************************************)
(* Theorems about Presence, for any sessions, timing and bounds: types,    *)
(* that whoever has gone is forgotten in time, that nobody's entry is      *)
(* changed by anybody else, that invisible users are never listed, and     *)
(* that nobody who is still here is dropped.                               *)
(***************************************************************************)
EXTENDS Presence, FiniteSetTheorems, Induction, TLAPS

\* The parts of TypeOK; how old an entry gets is AgeLaw's business.
States  == status \in [Sessions -> {"new", "up", "gone"}] /\ link \in [Sessions -> {"down", "fresh", "open"}]
Marks   == away \in [Sessions -> BOOLEAN] /\ pruning \in [Sessions -> BOOLEAN]
Clocks  == /\ beat \in [Sessions -> 0 .. HeartbeatEvery] /\ lost \in [Sessions -> 0 .. LossRun]
           /\ goneFor \in [Sessions -> 0 .. Forgotten + 1]
Budgets == cuts \in 0 .. MaxCuts /\ turns \in 0 .. MaxTurns /\ posts \in 0 .. MaxPosts
Flight  == flight \subseteq Messages
Peers   == peers \in [Sessions -> [Sids -> Entry(Nat)]]
Served  == served \in [Sessions -> [Names -> NameEntry(Nat)]]

TypeInv == States /\ Marks /\ Clocks /\ Budgets /\ Flight /\ Peers /\ Served

-----------------------------------------------------------------------------
(* Which steps change what. *)

LEMMA PeersChange ==
  [Next]_vars =>
    \/ UNCHANGED <<peers, served>>
    \/ \E m \in flight : Relay(m)
    \/ \E s \in Sessions : Prune(s) \/ Ends(s)
    \/ \E s \in Sessions : HereFrame(s)
    \/ Tick
BY Zenon DEF Next, vars, Passes, Lose, Start, Subscribe, Cut, Away, Back, Turn, Post,
             Beat, Leave, Crash

LEMMA StatesChange ==
  [Next]_vars =>
    \/ UNCHANGED <<status, link>>
    \/ \E s \in Sessions : Start(s) \/ Subscribe(s) \/ HereFrame(s) \/ Cut(s) \/ Ends(s)
BY Zenon DEF Next, vars, Passes, Relay, Lose, Tick, Away, Back, Turn, Post, Beat, Prune,
             Leave, Crash

LEMMA MarksChange ==
  [Next]_vars =>
    \/ UNCHANGED <<away, pruning>>
    \/ \E s \in Sessions, isAway \in BOOLEAN : Turn(s, isAway)
    \/ \E s \in Sessions : Beat(s) \/ Prune(s) \/ Ends(s)
BY Zenon DEF Next, vars, Passes, Relay, Lose, Tick, HereFrame, Start, Subscribe, Cut,
             Away, Back, Post, Leave, Crash

LEMMA ClocksChange ==
  [Next]_vars =>
    \/ UNCHANGED <<beat, lost, goneFor>>
    \/ \E m \in flight : Relay(m) \/ Lose(m)
    \/ \E s \in Sessions : Start(s) \/ Beat(s) \/ Ends(s)
    \/ Tick
BY Zenon DEF Next, vars, Passes, HereFrame, Subscribe, Cut, Away, Back, Turn, Post,
             Prune, Leave, Crash

LEMMA BudgetsChange ==
  [Next]_vars =>
    \/ UNCHANGED <<cuts, turns, posts>>
    \/ \E s \in Sessions : Cut(s) \/ Post(s)
    \/ \E s \in Sessions, isAway \in BOOLEAN : Turn(s, isAway)
BY Zenon DEF Next, vars, Passes, Relay, Lose, Tick, HereFrame, Start, Subscribe,
             Away, Back, Beat, Prune, Ends, Leave, Crash

\* Whatever is put in flight comes from a session that is up, with its whole delay.
LEMMA FlightChanges ==
  Marks /\ [Next]_vars =>
    \/ Tick
    \/ \A m \in flight' : m \in flight \/ \E s \in Sessions : Up(s) /\
         \E says \in {"join", "here", "leave", "post"}, isAway \in BOOLEAN : m = Message(s, says, isAway)
<1> SUFFICES ASSUME Marks, [Next]_vars, ~Tick, NEW m \in flight', m \notin flight
             PROVE  \E s \in Sessions : Up(s) /\
                      \E says \in {"join", "here", "leave", "post"}, isAway \in BOOLEAN :
                        m = Message(s, says, isAway)
  OBVIOUS
<1>1. CASE \E n \in flight : Relay(n)
  <2>1. PICK n \in flight : Relay(n)
    BY <1>1
  <2>2. \E r \in Receivers(n) : m \in Signal(r, "here", FALSE)
    BY <2>1, Zenon DEF Relay, Replies
  <2> QED BY <2>2, Zenon DEF Receivers, Reads, Signal
<1>2. CASE \E s \in Sessions : Subscribe(s) \/ Beat(s) \/ Post(s) \/ Leave(s) \/ \E isAway \in BOOLEAN : Turn(s, isAway)
  <2>1. PICK s \in Sessions : Subscribe(s) \/ Beat(s) \/ Post(s) \/ Leave(s) \/ \E isAway \in BOOLEAN : Turn(s, isAway)
    BY <1>2
  <2>2. away[s] \in BOOLEAN
    BY <2>1, Zenon DEF Marks
  <2> QED BY <2>1, <2>2, Zenon DEF Subscribe, Beat, Post, Leave, Ends, Turn, Signal
<1>3. CASE UNCHANGED flight \/ \E n \in flight : Lose(n)
  BY <1>3, Zenon DEF Lose
<1> QED BY <1>1, <1>2, <1>3, Zenon DEF Next, vars, Passes, HereFrame, Start, Cut, Away, Back,
             Prune, Crash

-----------------------------------------------------------------------------
(* Types. *)

LEMMA Persons == \A s \in Sessions : Sid[s] \in Sids /\ By[s] \in Names \cup {NoName}
BY Zenon DEF Sids, Names

LEMMA Bounds == /\ Forgotten \in Nat /\ MaxAge \in Nat /\ MaxAge + Delay = Forgotten
                /\ HeartbeatEvery <= MaxAge
BY PresenceAssumption DEF Forgotten, MaxAge

LEMMA UnknownTyped == Unknown \in Entry(Nat) /\ Unnamed \in NameEntry(Nat)
<1>1. FALSE \in BOOLEAN /\ 0 \in Nat
  BY SMT
<1> QED BY <1>1, Zenon DEF Unknown, Unnamed, Entry, NameEntry

LEMMA TypeStart == Init => TypeInv
<1> SUFFICES ASSUME Init PROVE TypeInv
  OBVIOUS
<1>1. States /\ Budgets /\ Flight
  BY PresenceAssumption DEF Init, States, Budgets, Flight
<1>2. Marks
  BY Zenon DEF Init, Marks
<1>3. Clocks
  BY PresenceAssumption, Bounds DEF Init, Clocks
<1>4. Peers /\ Served
  BY UnknownTyped, Zenon DEF Init, Peers, Served, Nobody, NoNames
<1> QED BY <1>1, <1>2, <1>3, <1>4 DEF TypeInv

LEMMA StatesStep == States /\ [Next]_vars => States'
<1> SUFFICES ASSUME States, [Next]_vars PROVE States'
  OBVIOUS
<1>1. CASE UNCHANGED <<status, link>>
  BY <1>1 DEF States
<1>2. ASSUME NEW s \in Sessions, Start(s) PROVE States'
  BY <1>2 DEF States, Start
<1>3. ASSUME NEW s \in Sessions, Subscribe(s) PROVE States'
  BY <1>3 DEF States, Subscribe
<1>4. ASSUME NEW s \in Sessions, HereFrame(s) PROVE States'
  BY <1>4 DEF States, HereFrame
<1>5. ASSUME NEW s \in Sessions, Cut(s) PROVE States'
  BY <1>5 DEF States, Cut
<1>6. ASSUME NEW s \in Sessions, Ends(s) PROVE States'
  BY <1>6 DEF States, Ends
<1> QED BY StatesChange, <1>1, <1>2, <1>3, <1>4, <1>5, <1>6, Zenon

LEMMA MarksStep == Marks /\ [Next]_vars => Marks'
<1> SUFFICES ASSUME Marks, [Next]_vars PROVE Marks'
  OBVIOUS
<1>1. CASE UNCHANGED <<away, pruning>>
  BY <1>1, Zenon DEF Marks
<1>2. ASSUME NEW s \in Sessions, NEW isAway \in BOOLEAN, Turn(s, isAway) PROVE Marks'
  BY <1>2, Zenon DEF Marks, Turn
<1>3. ASSUME NEW s \in Sessions, Beat(s) \/ Prune(s) \/ Ends(s) PROVE Marks'
  BY <1>3, Zenon DEF Marks, Beat, Prune, Ends
<1> QED BY MarksChange, <1>1, <1>2, <1>3, Zenon

LEMMA ClocksStep == Flight /\ Clocks /\ [Next]_vars => Clocks'
<1> SUFFICES ASSUME Flight, Clocks, [Next]_vars PROVE Clocks'
  OBVIOUS
<1> USE PresenceAssumption, Bounds DEF Clocks
<1>1. CASE UNCHANGED <<beat, lost, goneFor>>
  BY <1>1
<1>2. ASSUME NEW m \in flight, Relay(m) \/ Lose(m) PROVE Clocks'
  <2>1. m.from \in Sessions
    BY DEF Flight, Messages
  <2> QED BY <1>2, <2>1 DEF Relay, Lose
<1>3. ASSUME NEW s \in Sessions, Start(s) \/ Beat(s) \/ Ends(s) PROVE Clocks'
  BY <1>3 DEF Start, Beat, Ends
<1>4. CASE Tick
  <2>1. beat' \in [Sessions -> 0 .. HeartbeatEvery]
    BY <1>4 DEF Tick
  <2>2. goneFor' \in [Sessions -> 0 .. Forgotten + 1]
    BY <1>4 DEF Tick
  <2> QED BY <1>4, <2>1, <2>2 DEF Tick
<1> QED BY ClocksChange, <1>1, <1>2, <1>3, <1>4, Zenon

LEMMA BudgetsStep == Budgets /\ [Next]_vars => Budgets'
<1> SUFFICES ASSUME Budgets, [Next]_vars PROVE Budgets'
  OBVIOUS
<1>1. CASE UNCHANGED <<cuts, turns, posts>>
  BY <1>1 DEF Budgets
<1>2. ASSUME NEW s \in Sessions, Cut(s) \/ Post(s) PROVE Budgets'
  <2>1. /\ cuts' = cuts \/ (cuts < MaxCuts /\ cuts' = cuts + 1)
        /\ posts' = posts \/ (posts < MaxPosts /\ posts' = posts + 1)
        /\ turns' = turns
    BY <1>2, Zenon DEF Cut, Post
  <2> QED BY <2>1, PresenceAssumption DEF Budgets
<1>3. ASSUME NEW s \in Sessions, NEW isAway \in BOOLEAN, Turn(s, isAway) PROVE Budgets'
  BY <1>3, PresenceAssumption DEF Budgets, Turn
<1> QED BY BudgetsChange, <1>1, <1>2, <1>3, Zenon

LEMMA FlightStep == Marks /\ Flight /\ [Next]_vars => Flight'
<1> SUFFICES ASSUME Marks, Flight, [Next]_vars, NEW m \in flight' PROVE m \in Messages
  BY DEF Flight
<1>1. CASE Tick
  <2>1. PICK n \in flight : m = [n EXCEPT !.left = @ - 1]
    BY <1>1, Zenon DEF Tick
  <2>2. n \in Messages /\ n.left > 0
    BY <1>1 DEF Tick, Flight
  <2>3. n.left - 1 \in 0 .. Delay
    BY <2>2, PresenceAssumption DEF Messages
  <2> QED BY <2>1, <2>2, <2>3, Zenon DEF Messages
<1>2. CASE m \in flight
  BY <1>2 DEF Flight
<1>3. ASSUME NEW s \in Sessions, NEW says \in {"join", "here", "leave", "post"}, NEW isAway \in BOOLEAN,
             m = Message(s, says, isAway)
      PROVE  m \in Messages
  <2>1. Delay \in 0 .. Delay
    BY PresenceAssumption
  <2> QED BY <1>3, <2>1, Zenon DEF Message, Messages
<1> QED BY FlightChanges, <1>1, <1>2, <1>3, Zenon

\* What App.seen makes of an entry is an entry.
LEMMA SeenTyped ==
  ASSUME Flight, Peers, Served, NEW r \in Sessions, NEW m \in flight
  PROVE  SeenPeers(r, m) \in [Sids -> Entry(Nat)] /\ SeenServed(r, m) \in [Names -> NameEntry(Nat)]
<1>1. m.from \in Sessions /\ m.away \in BOOLEAN
  BY Zenon DEF Flight, Messages
<1>2. peers[r] \in [Sids -> Entry(Nat)] /\ served[r] \in [Names -> NameEntry(Nat)]
  BY Zenon DEF Peers, Served
<1>3. Sid[m.from] \in Sids /\ By[m.from] \in Names \cup {NoName}
  BY <1>1, Persons, Zenon
<1>4. peers[r][Sid[m.from]].away \in BOOLEAN
  BY <1>2, <1>3, Zenon DEF Entry
<1>5. 0 \in Nat
  OBVIOUS
<1>6. [known |-> TRUE, by |-> By[m.from], age |-> 0,
       away |-> IF m.says = "post" THEN peers[r][Sid[m.from]].away ELSE m.away] \in Entry(Nat)
  BY <1>1, <1>3, <1>4, <1>5, Zenon DEF Entry
<1>7. SeenPeers(r, m) \in [Sids -> Entry(Nat)]
  BY <1>2, <1>3, <1>6, UnknownTyped, Zenon DEF SeenPeers
<1>8. SeenServed(r, m) \in [Names -> NameEntry(Nat)]
  BY <1>2, UnknownTyped, Zenon DEF SeenServed
<1> QED BY <1>7, <1>8

LEMMA OlderTyped == /\ \A e \in Entry(Nat) : Older(e) \in Entry(Nat)
                    /\ \A e \in NameEntry(Nat) : Older(e) \in NameEntry(Nat)
<1>1. \A n \in Nat : n + 1 \in Nat
  OBVIOUS
<1> QED BY <1>1, Zenon DEF Older, Entry, NameEntry

LEMMA ListsStep == Flight /\ Peers /\ Served /\ [Next]_vars => Peers' /\ Served'
<1> SUFFICES ASSUME Flight, Peers, Served, [Next]_vars PROVE Peers' /\ Served'
  OBVIOUS
<1> USE DEF Peers, Served
<1>1. CASE UNCHANGED <<peers, served>>
  BY <1>1, Zenon
<1>2. ASSUME NEW m \in flight, Relay(m) PROVE Peers' /\ Served'
  <2>1. \A r \in Sessions : /\ SeenPeers(r, m) \in [Sids -> Entry(Nat)]
                            /\ SeenServed(r, m) \in [Names -> NameEntry(Nat)]
    BY SeenTyped, Zenon
  <2> QED BY <1>2, <2>1, Zenon DEF Relay
<1>3. ASSUME NEW s \in Sessions, Prune(s) PROVE Peers' /\ Served'
  <2>1. [i \in Sids |-> IF Stale(peers[s][i]) THEN Unknown ELSE peers[s][i]] \in [Sids -> Entry(Nat)]
    BY UnknownTyped, Zenon
  <2>2. [n \in Names |-> IF Stale(served[s][n]) THEN Unnamed ELSE served[s][n]] \in [Names -> NameEntry(Nat)]
    BY UnknownTyped, Zenon
  <2> QED BY <1>3, <2>1, <2>2, Zenon DEF Prune
<1>6. ASSUME NEW s \in Sessions, Ends(s) PROVE Peers' /\ Served'
  BY <1>6, UnknownTyped, Zenon DEF Ends, Nobody, NoNames
<1>4. ASSUME NEW s \in Sessions, HereFrame(s) PROVE Peers' /\ Served'
  <2>1. [known |-> TRUE, age |-> 0] \in NameEntry(Nat)
    <3>1. 0 \in Nat
      OBVIOUS
    <3> QED BY <3>1, Zenon DEF NameEntry
  <2>2. Peers' /\ served' = [served EXCEPT ![s] = served'[s]] /\ served'[s] \in [Names -> NameEntry(Nat)]
    BY <1>4, <2>1, Zenon DEF HereFrame
  <2> QED BY <2>2, Zenon
<1>5. CASE Tick
  BY <1>5, OlderTyped, Zenon DEF Tick
<1> QED BY PeersChange, <1>1, <1>2, <1>3, <1>4, <1>5, <1>6, Zenon

LEMMA TypeStep == TypeInv /\ [Next]_vars => TypeInv'
BY StatesStep, MarksStep, ClocksStep, BudgetsStep, FlightStep, ListsStep DEF TypeInv

-----------------------------------------------------------------------------
(* Why whoever has gone is forgotten. *)

LEMMA GoneForChange == [Next]_vars => Tick \/ goneFor' = goneFor
BY Zenon DEF Next, vars, Passes, Relay, Lose, HereFrame, Start, Subscribe, Cut, Away, Back,
             Turn, Post, Beat, Prune, Ends, Leave, Crash

\* Nobody comes back from the dead.
LEMMA StatusChange ==
  States /\ [Next]_vars =>
    \A s \in Sessions : \/ status'[s] = status[s]
                        \/ status[s] = "new" /\ status'[s] = "up"
                        \/ status'[s] = "gone"
<1> SUFFICES ASSUME States, [Next]_vars, NEW s \in Sessions
             PROVE  \/ status'[s] = status[s]
                    \/ status[s] = "new" /\ status'[s] = "up"
                    \/ status'[s] = "gone"
  OBVIOUS
<1>1. \/ status' = status
      \/ \E t \in Sessions : Start(t) \/ Ends(t)
  BY StatesChange, Zenon DEF Subscribe, HereFrame, Cut
<1>2. ASSUME NEW t \in Sessions, Start(t)
      PROVE  status'[s] = status[s] \/ (status[s] = "new" /\ status'[s] = "up")
  BY <1>2 DEF Start, States
<1>3. ASSUME NEW t \in Sessions, Ends(t)
      PROVE  status'[s] = status[s] \/ status'[s] = "gone"
  BY <1>3 DEF Ends, States
<1> QED BY <1>1, <1>2, <1>3, Zenon

\* Time adds at most one unit.
LEMMA GoneForSlow ==
  Clocks /\ [Next]_vars =>
    \A s \in Sessions :
      /\ goneFor[s] \in Nat /\ goneFor'[s] \in Nat
      /\ goneFor'[s] <= goneFor[s] + 1
      /\ ~Tick => goneFor'[s] = goneFor[s]
<1> SUFFICES ASSUME Clocks, [Next]_vars, NEW s \in Sessions
             PROVE  /\ goneFor[s] \in Nat /\ goneFor'[s] \in Nat
                    /\ goneFor'[s] <= goneFor[s] + 1
                    /\ ~Tick => goneFor'[s] = goneFor[s]
  OBVIOUS
<1>1. goneFor[s] \in Nat
  BY Bounds DEF Clocks
<1>2. CASE Tick
  BY <1>1, <1>2 DEF Tick
<1> QED BY <1>1, <1>2, GoneForChange

LEMMA OnlyGoneAgeStep == States /\ Clocks /\ OnlyGoneAge /\ [Next]_vars => OnlyGoneAge'
<1> SUFFICES ASSUME States, Clocks, OnlyGoneAge, [Next]_vars, NEW s \in Sessions, status'[s] # "gone"
             PROVE  goneFor'[s] = 0
  BY Zenon DEF OnlyGoneAge
<1>1. status[s] # "gone" /\ goneFor[s] = 0
  BY StatusChange, Zenon DEF OnlyGoneAge
<1>2. CASE Tick
  BY <1>1, <1>2, Zenon DEF Tick
<1> QED BY <1>1, <1>2, GoneForChange, Zenon

\* A signal outlives its sender by less than its delay.
LEMMA FlightLawStep ==
  TypeInv /\ OnlyGoneAge /\ FlightLaw /\ [Next]_vars => FlightLaw'
<1> SUFFICES ASSUME TypeInv, OnlyGoneAge, FlightLaw, [Next]_vars, NEW m \in flight'
             PROVE  m.left + goneFor'[m.from] <= Delay
  BY Zenon DEF FlightLaw
<1> USE DEF TypeInv
<1>1. CASE Tick
  <2>1. PICK n \in flight : m = [n EXCEPT !.left = @ - 1]
    BY <1>1, Zenon DEF Tick
  <2>2. n \in Messages
    BY Zenon DEF Flight
  <2>3. n.from \in Sessions /\ n.left \in 0 .. Delay /\ n.left + goneFor[n.from] <= Delay
    BY <2>2, Zenon DEF Messages, FlightLaw
  <2>4. m.from = n.from /\ m.left = n.left - 1
    BY <2>1, <2>2, Zenon DEF Messages
  <2>5. goneFor[n.from] \in Nat /\ goneFor'[n.from] \in Nat /\ goneFor'[n.from] <= goneFor[n.from] + 1
    BY <2>3, GoneForSlow, Zenon
  <2>6. goneFor'[m.from] = goneFor'[n.from]
    BY <2>4, Zenon
  <2> QED BY <2>3, <2>4, <2>5, <2>6, PresenceAssumption
<1>2. CASE ~Tick /\ m \in flight
  <2>1. m.from \in Sessions
    BY <1>2, Zenon DEF Flight, Messages
  <2> QED BY <1>2, <2>1, GoneForChange, Zenon DEF FlightLaw
<1>3. ASSUME ~Tick, NEW s \in Sessions, Up(s),
             NEW says \in {"join", "here", "leave", "post"}, NEW isAway \in BOOLEAN,
             m = Message(s, says, isAway)
      PROVE  m.left + goneFor'[m.from] <= Delay
  <2>1. goneFor[s] = 0
    BY <1>3 DEF OnlyGoneAge, Up
  <2>2. goneFor'[s] = 0
    BY <1>3, <2>1, GoneForChange, Zenon
  <2>3. m.left = Delay /\ goneFor'[m.from] = 0
    BY <1>3, <2>2, Zenon DEF Message
  <2> QED BY <2>3, PresenceAssumption
<1> QED BY <1>1, <1>2, <1>3, FlightChanges, Zenon

\* An entry that is not there.
LEMMA Blank == /\ Unknown.age = 0 /\ ~Unknown.known /\ Older(Unknown) = Unknown
               /\ Unnamed.age = 0 /\ ~Unnamed.known /\ Older(Unnamed) = Unnamed
               /\ \A i \in Sids : Nobody[i] = Unknown
               /\ \A n \in Names : NoNames[n] = Unnamed
<1>1. Unknown.age = 0 /\ ~Unknown.known
  BY DEF Unknown
<1>2. Unnamed.age = 0 /\ ~Unnamed.known
  BY DEF Unnamed
<1>3. Older(Unknown) = Unknown /\ Older(Unnamed) = Unnamed
  BY <1>1, <1>2, Zenon DEF Older
<1> QED BY <1>1, <1>2, <1>3, Zenon DEF Nobody, NoNames

LEMMA OlderEntry ==
  /\ \A e \in Entry(Nat) : Older(e).known = e.known /\ Older(e).age = IF e.known THEN e.age + 1 ELSE e.age
  /\ \A e \in NameEntry(Nat) : Older(e).known = e.known /\ Older(e).age = IF e.known THEN e.age + 1 ELSE e.age
<1>1. ASSUME NEW e \in Entry(Nat), e.known
      PROVE  Older(e).known = e.known /\ Older(e).age = e.age + 1
  BY <1>1, Zenon DEF Older, Entry
<1>2. ASSUME NEW e \in NameEntry(Nat), e.known
      PROVE  Older(e).known = e.known /\ Older(e).age = e.age + 1
  BY <1>2, Zenon DEF Older, NameEntry
<1>3. \A e : ~e.known => Older(e) = e
  BY Zenon DEF Older
<1>4. ASSUME NEW e \in Entry(Nat) \cup NameEntry(Nat), ~e.known
      PROVE  Older(e).known = e.known /\ Older(e).age = e.age
  BY <1>3, <1>4, Zenon
<1> QED BY <1>1, <1>2, <1>4, Zenon

LEMMA AgesTyped ==
  TypeInv => \A s \in Sessions :
    /\ \A i \in Sids : peers[s][i].age \in Nat
    /\ \A n \in Names : served[s][n].age \in Nat
    /\ beat[s] \in Nat /\ beat[s] <= HeartbeatEvery
    /\ DueIn(s) \in Nat
<1> SUFFICES ASSUME TypeInv, NEW s \in Sessions
             PROVE  /\ \A i \in Sids : peers[s][i].age \in Nat
                    /\ \A n \in Names : served[s][n].age \in Nat
                    /\ beat[s] \in Nat /\ beat[s] <= HeartbeatEvery
                    /\ DueIn(s) \in Nat
  OBVIOUS
<1>1. \A i \in Sids : peers[s][i].age \in Nat
  BY Zenon DEF TypeInv, Peers, Entry
<1>2. \A n \in Names : served[s][n].age \in Nat
  BY Zenon DEF TypeInv, Served, NameEntry
<1>3. beat[s] \in Nat /\ beat[s] <= HeartbeatEvery
  BY PresenceAssumption DEF TypeInv, Clocks
<1> QED BY <1>1, <1>2, <1>3 DEF DueIn

\* AgeLaw for one reader.
Young(s) == /\ \A i \in Sids : peers[s][i].age + DueIn(s) <= MaxAge
            /\ \A n \in Names : served[s][n].age + DueIn(s) <= MaxAge
Empty(s) == ~Up(s) => peers[s] = Nobody /\ served[s] = NoNames /\ beat[s] = 0 /\ ~pruning[s]

LEMMA AgeLawParts == AgeLaw <=> \A s \in Sessions : Young(s) /\ Empty(s)
BY Zenon DEF AgeLaw, Young, Empty

\* A step that leaves what a reader has alone.
LEMMA Untouched ==
  ASSUME NEW s \in Sessions, Young(s), Empty(s), Up(s)' <=> Up(s),
         peers'[s] = peers[s], served'[s] = served[s], beat'[s] = beat[s], pruning'[s] = pruning[s]
  PROVE  Young(s)' /\ Empty(s)'
BY Zenon DEF Young, Empty, DueIn

\* A message heard makes entries young.
LEMMA RelayYoung ==
  ASSUME TypeInv, NEW s \in Sessions, Young(s), Empty(s), NEW m \in flight, Relay(m)
  PROVE  Young(s)' /\ Empty(s)'
<1> USE DEF Young
<1>1. /\ peers'[s] = IF s \in Receivers(m) /\ Counts(s, m) THEN SeenPeers(s, m) ELSE peers[s]
      /\ served'[s] = IF s \in Receivers(m) /\ Counts(s, m) THEN SeenServed(s, m) ELSE served[s]
      /\ UNCHANGED <<status, beat, pruning>>
  BY Zenon DEF Relay
<1>2. DueIn(s)' = DueIn(s) /\ (Up(s)' <=> Up(s))
  BY <1>1, Zenon DEF DueIn, Up
<1>3. 0 + DueIn(s) <= MaxAge
  BY AgesTyped, PresenceAssumption, Bounds DEF DueIn
<1>4. ASSUME NEW i \in Sids PROVE peers'[s][i].age + DueIn(s) <= MaxAge
  <2>1. peers'[s][i].age = 0 \/ peers'[s][i] = peers[s][i]
    <3>1. peers[s] \in [Sids -> Entry(Nat)]
      BY Zenon DEF TypeInv, Peers
    <3>2. SeenPeers(s, m)[i].age = 0 \/ SeenPeers(s, m)[i] = peers[s][i]
      BY <3>1, Zenon DEF SeenPeers, Unknown
    <3> QED BY <1>1, <3>2, Zenon
  <2> QED BY <1>3, <2>1, Zenon
<1>5. ASSUME NEW n \in Names PROVE served'[s][n].age + DueIn(s) <= MaxAge
  <2>1. SeenServed(s, m)[n] = Unnamed \/ SeenServed(s, m)[n] = served[s][n]
    BY Zenon DEF SeenServed
  <2>2. served'[s][n].age = 0 \/ served'[s][n] = served[s][n]
    BY <1>1, <2>1, Blank, Zenon
  <2> QED BY <1>3, <2>2, Zenon
<1>6. Empty(s)'
  BY <1>1, <1>2, Zenon DEF Empty, Receivers, Reads
<1> QED BY <1>2, <1>4, <1>5, <1>6, Zenon

LEMMA HereFrameYoung ==
  ASSUME TypeInv, NEW s \in Sessions, Young(s), Empty(s), NEW t \in Sessions, HereFrame(t)
  PROVE  Young(s)' /\ Empty(s)'
<1> USE DEF Young
<1>1. /\ UNCHANGED <<status, peers, beat, pruning>>
      /\ t # s => served'[s] = served[s]
      /\ t = s => Up(s) /\ \A n \in Names : served'[s][n].age = 0 \/ served'[s][n] = served[s][n]
  BY Zenon DEF HereFrame, Reads, TypeInv, Served
<1>2. DueIn(s)' = DueIn(s) /\ (Up(s)' <=> Up(s))
  BY <1>1, Zenon DEF DueIn, Up
<1>3. 0 + DueIn(s) <= MaxAge
  BY AgesTyped, PresenceAssumption, Bounds DEF DueIn
<1>4. ASSUME NEW n \in Names PROVE served'[s][n].age + DueIn(s) <= MaxAge
  BY <1>1, <1>3, Zenon
<1>5. Empty(s)'
  BY <1>1, <1>2, Zenon DEF Empty
<1> QED BY <1>1, <1>2, <1>4, <1>5, Zenon

LEMMA StartYoung ==
  ASSUME TypeInv, NEW s \in Sessions, Young(s), Empty(s), Start(s)
  PROVE  Young(s)' /\ Empty(s)'
<1>1. UNCHANGED <<peers, served, pruning>> /\ beat'[s] = HeartbeatEvery /\ status'[s] = "up" /\ ~Up(s)
  BY Zenon DEF Start, Up, TypeInv, States, Clocks
<1>2. peers'[s] = Nobody /\ served'[s] = NoNames /\ ~pruning'[s]
  BY <1>1, Zenon DEF Empty
<1>3. DueIn(s)' = HeartbeatEvery
  BY <1>1, <1>2, Zenon DEF DueIn
<1>4. (\A i \in Sids : peers'[s][i].age = 0) /\ (\A n \in Names : served'[s][n].age = 0)
  BY <1>2, Blank, Zenon
<1>5. 0 + HeartbeatEvery <= MaxAge
  BY PresenceAssumption, Bounds
<1> QED BY <1>1, <1>3, <1>4, <1>5, Zenon DEF Young, Empty, Up

LEMMA BeatYoung ==
  ASSUME TypeInv, NEW s \in Sessions, Young(s), Empty(s), Beat(s)
  PROVE  Young(s)' /\ Empty(s)'
<1>1. UNCHANGED <<status, peers, served>> /\ beat[s] = 0 /\ ~pruning[s] /\ pruning'[s] /\ Up(s)
  BY Zenon DEF Beat, TypeInv, Marks
<1>2. DueIn(s)' = 0 /\ DueIn(s) = 0
  BY <1>1, Zenon DEF DueIn
<1> QED BY <1>1, <1>2, Zenon DEF Young, Empty, Up

LEMMA PruneYoung ==
  ASSUME TypeInv, NEW s \in Sessions, Young(s), Empty(s), Prune(s)
  PROVE  Young(s)' /\ Empty(s)'
<1>1. /\ UNCHANGED <<status, beat>> /\ ~pruning'[s] /\ Up(s)
      /\ peers'[s] = [i \in Sids |-> IF Stale(peers[s][i]) THEN Unknown ELSE peers[s][i]]
      /\ served'[s] = [n \in Names |-> IF Stale(served[s][n]) THEN Unnamed ELSE served[s][n]]
  BY Zenon DEF Prune, TypeInv, Marks, Peers, Served
<1>2. DueIn(s)' = beat[s]
  BY <1>1, Zenon DEF DueIn
<1>3. beat[s] \in Nat /\ beat[s] <= HeartbeatEvery
  BY AgesTyped, Zenon
<1>4. ASSUME NEW i \in Sids PROVE peers'[s][i].age + beat[s] <= MaxAge
  <2>1. peers'[s][i] = IF Stale(peers[s][i]) THEN Unknown ELSE peers[s][i]
    BY <1>1, Zenon
  <2>3. \/ peers'[s][i].age = 0
        \/ peers'[s][i].age = peers[s][i].age /\ ~(peers[s][i].age > PeerTimeout)
    BY <2>1, Blank, Zenon DEF Stale
  <2>2. peers[s][i].age \in Nat
    BY AgesTyped, Zenon
  <2> QED BY <1>3, <2>2, <2>3, PresenceAssumption DEF MaxAge
<1>5. ASSUME NEW n \in Names PROVE served'[s][n].age + beat[s] <= MaxAge
  <2>1. served'[s][n] = IF Stale(served[s][n]) THEN Unnamed ELSE served[s][n]
    BY <1>1, Zenon
  <2>3. \/ served'[s][n].age = 0
        \/ served'[s][n].age = served[s][n].age /\ ~(served[s][n].age > PeerTimeout)
    BY <2>1, Blank, Zenon DEF Stale
  <2>2. served[s][n].age \in Nat
    BY AgesTyped, Zenon
  <2> QED BY <1>3, <2>2, <2>3, PresenceAssumption DEF MaxAge
<1> QED BY <1>1, <1>2, <1>4, <1>5, Zenon DEF Young, Empty, Up

LEMMA EndsYoung ==
  ASSUME TypeInv, NEW s \in Sessions, Ends(s)
  PROVE  Young(s)' /\ Empty(s)'
<1>1. peers'[s] = Nobody /\ served'[s] = NoNames /\ beat'[s] = 0 /\ ~pruning'[s]
  BY Zenon DEF Ends, TypeInv, Marks, Clocks, Peers, Served
<1>2. DueIn(s)' = 0
  BY <1>1, Zenon DEF DueIn
<1>3. (\A i \in Sids : peers'[s][i].age = 0) /\ (\A n \in Names : served'[s][n].age = 0)
  BY <1>1, Blank, Zenon
<1>4. 0 + 0 <= MaxAge
  BY Bounds
<1> QED BY <1>1, <1>2, <1>3, <1>4, Zenon DEF Young, Empty

LEMMA TickYoung ==
  ASSUME TypeInv, NEW s \in Sessions, Young(s), Empty(s), Tick
  PROVE  Young(s)' /\ Empty(s)'
<1>1. /\ UNCHANGED <<status, pruning>>
      /\ beat'[s] = IF Up(s) THEN beat[s] - 1 ELSE 0
      /\ Up(s) => beat[s] > 0 /\ ~pruning[s]
      /\ peers'[s] = [i \in Sids |-> Older(peers[s][i])]
      /\ served'[s] = [n \in Names |-> Older(served[s][n])]
  BY Zenon DEF Tick
<1>2. Up(s)' <=> Up(s)
  BY <1>1, Zenon DEF Up
<1>3. ~Up(s) => peers'[s] = Nobody /\ served'[s] = NoNames
  <2>1. ASSUME ~Up(s) PROVE peers'[s] = Nobody /\ served'[s] = NoNames
    <3>1. peers[s] = Nobody /\ served[s] = NoNames
      BY <2>1, Zenon DEF Empty
    <3>2. /\ \A i \in Sids : Older(peers[s][i]) = Unknown
          /\ \A n \in Names : Older(served[s][n]) = Unnamed
      BY <3>1, Blank, Zenon
    <3> QED BY <1>1, <3>2, Zenon DEF Nobody, NoNames
  <2> QED BY <2>1, Zenon
<1>4. Empty(s)'
  BY <1>1, <1>2, <1>3, Zenon DEF Empty
<1>5. CASE Up(s)
  <2>1. DueIn(s) = beat[s] /\ DueIn(s)' = beat[s] - 1 /\ beat[s] \in Nat /\ beat[s] > 0
    BY <1>1, <1>5, AgesTyped, Zenon DEF DueIn
  <2>2. ASSUME NEW i \in Sids PROVE peers'[s][i].age + DueIn(s)' <= MaxAge
    <3>1. peers[s][i] \in Entry(Nat)
      BY Zenon DEF TypeInv, Peers
    <3>4. peers'[s][i] = Older(peers[s][i])
      BY <1>1, Zenon
    <3>2. peers'[s][i].age = peers[s][i].age + 1 \/ peers'[s][i].age = peers[s][i].age
      BY <3>1, <3>4, OlderEntry, Zenon
    <3>3. peers[s][i].age \in Nat /\ peers[s][i].age + DueIn(s) <= MaxAge
      BY AgesTyped, Zenon DEF Young
    <3> QED BY <2>1, <3>2, <3>3, Bounds
  <2>3. ASSUME NEW n \in Names PROVE served'[s][n].age + DueIn(s)' <= MaxAge
    <3>1. served[s][n] \in NameEntry(Nat)
      BY Zenon DEF TypeInv, Served
    <3>4. served'[s][n] = Older(served[s][n])
      BY <1>1, Zenon
    <3>2. served'[s][n].age = served[s][n].age + 1 \/ served'[s][n].age = served[s][n].age
      BY <3>1, <3>4, OlderEntry, Zenon
    <3>3. served[s][n].age \in Nat /\ served[s][n].age + DueIn(s) <= MaxAge
      BY AgesTyped, Zenon DEF Young
    <3> QED BY <2>1, <3>2, <3>3, Bounds
  <2> QED BY <1>4, <2>2, <2>3, Zenon DEF Young
<1>6. CASE ~Up(s)
  <2>1. DueIn(s)' = 0
    BY <1>1, <1>6, Zenon DEF DueIn, Empty
  <2>2. (\A i \in Sids : peers'[s][i].age = 0) /\ (\A n \in Names : served'[s][n].age = 0)
    BY <1>3, <1>6, Blank, Zenon
  <2>3. 0 + 0 <= MaxAge
    BY Bounds
  <2> QED BY <1>4, <2>1, <2>2, <2>3, Zenon DEF Young
<1> QED BY <1>5, <1>6

LEMMA AgeChange ==
  [Next]_vars =>
    \/ UNCHANGED <<status, peers, served, beat, pruning>>
    \/ \E m \in flight : Relay(m)
    \/ \E t \in Sessions : HereFrame(t) \/ Start(t) \/ Beat(t) \/ Prune(t) \/ Ends(t)
    \/ Tick
BY Zenon DEF Next, vars, Passes, Lose, Subscribe, Cut, Away, Back, Turn, Post, Leave, Crash

LEMMA AgeLawStep == TypeInv /\ AgeLaw /\ [Next]_vars => AgeLaw'
<1> SUFFICES ASSUME TypeInv, AgeLaw, [Next]_vars, NEW s \in Sessions PROVE Young(s)' /\ Empty(s)'
  BY Zenon DEF AgeLaw, Young, Empty
<1> Young(s) /\ Empty(s)
  BY AgeLawParts, Zenon
<1>1. CASE UNCHANGED <<status, peers, served, beat, pruning>>
  BY <1>1, Untouched, Zenon DEF Up
<1>2. ASSUME NEW m \in flight, Relay(m) PROVE Young(s)' /\ Empty(s)'
  BY <1>2, RelayYoung, Zenon
<1>3. ASSUME NEW t \in Sessions, HereFrame(t) PROVE Young(s)' /\ Empty(s)'
  BY <1>3, HereFrameYoung, Zenon
<1>4. ASSUME NEW t \in Sessions \ {s}, Start(t) \/ Beat(t) \/ Prune(t) \/ Ends(t)
      PROVE  Young(s)' /\ Empty(s)'
  <2>1. /\ peers'[s] = peers[s] /\ served'[s] = served[s] /\ beat'[s] = beat[s]
        /\ pruning'[s] = pruning[s] /\ status'[s] = status[s]
    BY <1>4, Zenon DEF Start, Beat, Prune, Ends, TypeInv, States, Marks, Clocks, Peers, Served
  <2> QED BY <2>1, Untouched, Zenon DEF Up
<1>5. CASE Start(s)
  BY <1>5, StartYoung, Zenon
<1>6. CASE Beat(s)
  BY <1>6, BeatYoung, Zenon
<1>7. CASE Prune(s)
  BY <1>7, PruneYoung, Zenon
<1>8. CASE Ends(s)
  BY <1>8, EndsYoung, Zenon
<1>9. CASE Tick
  BY <1>9, TickYoung, Zenon
<1> QED BY AgeChange, <1>1, <1>2, <1>3, <1>4, <1>5, <1>6, <1>7, <1>8, <1>9, Zenon

\* The entries a reader has after a step, by where they come from.
LEMMA EntryLawStep ==
  TypeInv /\ OnlyGoneAge /\ FlightLaw /\ EntryLaw /\ [Next]_vars => EntryLaw'
<1> SUFFICES ASSUME TypeInv, OnlyGoneAge, FlightLaw, EntryLaw, [Next]_vars,
                    NEW r \in Sessions, NEW i \in Sids, peers'[r][i].known
             PROVE  \E t \in Sessions : Sid[t] = i /\ goneFor'[t] <= peers'[r][i].age + Delay
  BY Zenon DEF EntryLaw
<1>1. peers \in [Sessions -> [Sids -> Entry(Nat)]] /\ peers[r] \in [Sids -> Entry(Nat)]
  BY Zenon DEF TypeInv, Peers
<1>2. CASE Tick
  <2>1. peers'[r][i] = Older(peers[r][i]) /\ peers[r][i] \in Entry(Nat)
    BY <1>1, <1>2, Zenon DEF Tick
  <2>7. /\ Older(peers[r][i]).known = peers[r][i].known
        /\ Older(peers[r][i]).age = IF peers[r][i].known THEN peers[r][i].age + 1 ELSE peers[r][i].age
    BY <2>1, OlderEntry, Zenon
  <2>2. peers[r][i].known /\ peers'[r][i].age = peers[r][i].age + 1
    BY <2>1, <2>7, Zenon
  <2>3. PICK t \in Sessions : Sid[t] = i /\ goneFor[t] <= peers[r][i].age + Delay
    BY <2>2, Zenon DEF EntryLaw
  <2>4. goneFor[t] \in Nat /\ goneFor'[t] \in Nat /\ goneFor'[t] <= goneFor[t] + 1
    BY GoneForSlow, Zenon DEF TypeInv
  <2>5. peers[r][i].age \in Nat
    BY AgesTyped, Zenon
  <2>6. goneFor'[t] <= peers'[r][i].age + Delay
    BY <2>2, <2>3, <2>4, <2>5, PresenceAssumption
  <2> QED BY <2>3, <2>6, Zenon
<1>3. CASE ~Tick /\ peers'[r][i] = peers[r][i]
  <2>1. PICK t \in Sessions : Sid[t] = i /\ goneFor[t] <= peers[r][i].age + Delay
    BY <1>3, Zenon DEF EntryLaw
  <2> QED BY <1>3, <2>1, GoneForChange, Zenon
<1>4. ASSUME ~Tick, NEW m \in flight, Relay(m) PROVE peers'[r][i] = peers[r][i] \/ Sid[m.from] = i
  BY <1>1, <1>4, Zenon DEF Relay, SeenPeers
<1>5. ASSUME ~Tick, NEW m \in flight, Relay(m), Sid[m.from] = i, peers'[r][i] # peers[r][i]
      PROVE  \E t \in Sessions : Sid[t] = i /\ goneFor'[t] <= peers'[r][i].age + Delay
  <2>1. m \in Messages
    BY Zenon DEF TypeInv, Flight
  <2>2. m.from \in Sessions /\ m.left \in 0 .. Delay
    BY <2>1, Zenon DEF Messages
  <2>3. m.left + goneFor[m.from] <= Delay
    BY Zenon DEF FlightLaw
  <2>4. goneFor[m.from] \in Nat /\ goneFor'[m.from] = goneFor[m.from]
    BY <1>5, <2>2, GoneForSlow, Zenon DEF TypeInv
  <2>5. peers'[r][i] = SeenPeers(r, m)[i]
    BY <1>5, Zenon DEF Relay
  <2>8. \/ SeenPeers(r, m)[i] = Unknown
        \/ \E isAway : SeenPeers(r, m)[i] = [known |-> TRUE, by |-> By[m.from], age |-> 0, away |-> isAway]
    BY <1>1, <1>5, Zenon DEF SeenPeers
  <2>9. \A isAway : [known |-> TRUE, by |-> By[m.from], age |-> 0, away |-> isAway].age = 0
    OBVIOUS
  <2>6. peers'[r][i].age = 0
    BY <2>5, <2>8, <2>9, Blank, Zenon
  <2>7. goneFor'[m.from] <= peers'[r][i].age + Delay
    BY <2>2, <2>3, <2>4, <2>6, PresenceAssumption
  <2> QED BY <1>5, <2>2, <2>7, Zenon
<1>6. ASSUME NEW s \in Sessions, Prune(s) \/ Ends(s) PROVE peers'[r][i] = peers[r][i]
  <2>1. CASE s # r
    BY <1>1, <1>6, <2>1, Zenon DEF Prune, Ends
  <2>2. CASE s = r /\ Prune(r)
    <3>1. peers'[r][i] = IF Stale(peers[r][i]) THEN Unknown ELSE peers[r][i]
      BY <1>1, <2>2, Zenon DEF Prune
    <3> QED BY <3>1, Blank, Zenon
  <2>3. CASE s = r /\ Ends(r)
    <3>1. peers'[r] = Nobody
      BY <1>1, <2>3, Zenon DEF Ends
    <3> QED BY <3>1, Blank, Zenon
  <2> QED BY <1>6, <2>1, <2>2, <2>3
<1>7. ASSUME NEW s \in Sessions, HereFrame(s) PROVE peers'[r][i] = peers[r][i]
  BY <1>7, Zenon DEF HereFrame
<1> QED BY PeersChange, <1>2, <1>3, <1>4, <1>5, <1>6, <1>7, Zenon

LEMMA ServedLawStep ==
  TypeInv /\ OnlyGoneAge /\ ServedLaw /\ [Next]_vars => ServedLaw'
<1> SUFFICES ASSUME TypeInv, OnlyGoneAge, ServedLaw, [Next]_vars,
                    NEW r \in Sessions, NEW n \in Names, served'[r][n].known
             PROVE  \E t \in Sessions : By[t] = n /\ goneFor'[t] <= served'[r][n].age + Delay
  BY Zenon DEF ServedLaw
<1>1. served \in [Sessions -> [Names -> NameEntry(Nat)]] /\ served[r] \in [Names -> NameEntry(Nat)]
  BY Zenon DEF TypeInv, Served
<1>2. CASE Tick
  <2>1. served'[r][n] = Older(served[r][n]) /\ served[r][n] \in NameEntry(Nat)
    BY <1>1, <1>2, Zenon DEF Tick
  <2>7. /\ Older(served[r][n]).known = served[r][n].known
        /\ Older(served[r][n]).age = IF served[r][n].known THEN served[r][n].age + 1 ELSE served[r][n].age
    BY <2>1, OlderEntry, Zenon
  <2>2. served[r][n].known /\ served'[r][n].age = served[r][n].age + 1
    BY <2>1, <2>7, Zenon
  <2>3. PICK t \in Sessions : By[t] = n /\ goneFor[t] <= served[r][n].age + Delay
    BY <2>2, Zenon DEF ServedLaw
  <2>4. goneFor[t] \in Nat /\ goneFor'[t] \in Nat /\ goneFor'[t] <= goneFor[t] + 1
    BY GoneForSlow, Zenon DEF TypeInv
  <2>5. served[r][n].age \in Nat
    BY AgesTyped, Zenon
  <2>6. goneFor'[t] <= served'[r][n].age + Delay
    BY <2>2, <2>3, <2>4, <2>5, PresenceAssumption
  <2> QED BY <2>3, <2>6, Zenon
<1>3. CASE ~Tick /\ served'[r][n] = served[r][n]
  <2>1. PICK t \in Sessions : By[t] = n /\ goneFor[t] <= served[r][n].age + Delay
    BY <1>3, Zenon DEF ServedLaw
  <2> QED BY <1>3, <2>1, GoneForChange, Zenon
<1>4. ASSUME NEW m \in flight, Relay(m) PROVE served'[r][n] = served[r][n]
  <2>1. SeenServed(r, m)[n] = Unnamed \/ SeenServed(r, m)[n] = served[r][n]
    BY Zenon DEF SeenServed
  <2>2. served'[r] = served[r] \/ served'[r] = SeenServed(r, m)
    BY <1>4, Zenon DEF Relay
  <2> QED BY <2>1, <2>2, Blank, Zenon
<1>5. ASSUME NEW s \in Sessions, Prune(s) \/ Ends(s) PROVE served'[r][n] = served[r][n]
  <2>1. CASE s # r
    BY <1>1, <1>5, <2>1, Zenon DEF Prune, Ends
  <2>2. CASE s = r /\ Prune(r)
    <3>1. served'[r][n] = IF Stale(served[r][n]) THEN Unnamed ELSE served[r][n]
      BY <1>1, <2>2, Zenon DEF Prune
    <3> QED BY <3>1, Blank, Zenon
  <2>3. CASE s = r /\ Ends(r)
    <3>1. served'[r] = NoNames
      BY <1>1, <2>3, Zenon DEF Ends
    <3> QED BY <3>1, Blank, Zenon
  <2> QED BY <1>5, <2>1, <2>2, <2>3
<1>6. ASSUME ~Tick, NEW s \in Sessions, HereFrame(s), served'[r][n] # served[r][n]
      PROVE  \E t \in Sessions : By[t] = n /\ goneFor'[t] <= served'[r][n].age + Delay
  <2>1. s = r
    BY <1>1, <1>6, Zenon DEF HereFrame
  <2>2. served'[r] = [k \in Names |->
                        IF k \in {By[t] : t \in {u \in Sessions : Reads(u) /\ Visible(u)}} \ {By[r]}
                        THEN [known |-> TRUE, age |-> 0] ELSE served[r][k]]
    BY <1>1, <1>6, <2>1, Zenon DEF HereFrame
  <2>3. /\ n \in {By[t] : t \in {u \in Sessions : Reads(u) /\ Visible(u)}} \ {By[r]}
        /\ served'[r][n] = [known |-> TRUE, age |-> 0]
    BY <1>6, <2>2, Zenon
  <2>4. PICK t \in Sessions : By[t] = n /\ Reads(t)
    BY <2>3, Zenon
  <2>5. goneFor[t] = 0
    BY <2>4 DEF Reads, Up, OnlyGoneAge
  <2>6. goneFor'[t] = 0
    BY <1>6, <2>5, GoneForChange, Zenon
  <2>7. served'[r][n].age = 0
    BY <2>3
  <2>8. goneFor'[t] <= served'[r][n].age + Delay
    BY <2>6, <2>7, PresenceAssumption
  <2> QED BY <2>4, <2>8, Zenon
<1> QED BY PeersChange, <1>2, <1>3, <1>4, <1>5, <1>6, Zenon

LEMMA LawsStart == Init => PresenceInv
<1> SUFFICES ASSUME Init PROVE PresenceInv
  OBVIOUS
<1>1. /\ peers = [s \in Sessions |-> Nobody] /\ served = [s \in Sessions |-> NoNames]
      /\ flight = {} /\ \A s \in Sessions : goneFor[s] = 0 /\ beat[s] = 0 /\ ~pruning[s]
  BY Zenon DEF Init
<1>2. /\ \A s \in Sessions, i \in Sids : peers[s][i] = Unknown
      /\ \A s \in Sessions, n \in Names : served[s][n] = Unnamed
  BY <1>1, Blank, Zenon
<1>3. 0 + 0 <= MaxAge
  BY Bounds
<1>4. \A s \in Sessions : DueIn(s) = 0
  BY <1>1, Zenon DEF DueIn
<1>5. AgeLaw
  BY <1>1, <1>2, <1>3, <1>4, Blank, Zenon DEF AgeLaw
<1> QED BY <1>1, <1>2, <1>5, Blank, Zenon DEF PresenceInv, OnlyGoneAge, FlightLaw, EntryLaw, ServedLaw

LEMMA LawsStep == TypeInv /\ PresenceInv /\ [Next]_vars => PresenceInv'
BY OnlyGoneAgeStep, AgeLawStep, FlightLawStep, EntryLawStep, ServedLawStep, Zenon
   DEF PresenceInv, TypeInv

-----------------------------------------------------------------------------
(* The theorems. *)

\* The inductive invariant: types, how old entries get, and how long whoever
\* is behind an entry or a signal has been gone (App.seen, App.heartbeat).
THEOREM Laws == Spec => [](TypeInv /\ PresenceInv)
<1>1. Init => TypeInv /\ PresenceInv
  BY TypeStart, LawsStart
<1>2. TypeInv /\ PresenceInv /\ [Next]_vars => (TypeInv /\ PresenceInv)'
  BY TypeStep, LawsStep
<1> QED BY <1>1, <1>2, PTL DEF Spec

\* Everything has its type, and no entry gets older than the timeout and one
\* more heartbeat (App.heartbeat).
THEOREM TypeCorrect == Spec => []TypeOK
<1>1. ASSUME TypeInv, PresenceInv PROVE TypeOK
  <2>1. ASSUME NEW s \in Sessions, NEW i \in Sids PROVE peers[s][i] \in Entry(0 .. MaxAge)
    <3>1. peers[s][i] \in Entry(Nat)
      BY <1>1, Zenon DEF TypeInv, Peers
    <3>2. peers[s][i].age + DueIn(s) <= MaxAge
      BY <1>1, Zenon DEF PresenceInv, AgeLaw
    <3>3. peers[s][i].age \in Nat /\ DueIn(s) \in Nat
      BY <1>1, AgesTyped, Zenon
    <3>4. peers[s][i].age \in 0 .. MaxAge
      BY <3>2, <3>3, Bounds
    <3> QED BY <3>1, <3>4, Zenon DEF Entry
  <2>2. ASSUME NEW s \in Sessions, NEW n \in Names PROVE served[s][n] \in NameEntry(0 .. MaxAge)
    <3>1. served[s][n] \in NameEntry(Nat)
      BY <1>1, Zenon DEF TypeInv, Served
    <3>2. served[s][n].age + DueIn(s) <= MaxAge
      BY <1>1, Zenon DEF PresenceInv, AgeLaw
    <3>3. served[s][n].age \in Nat /\ DueIn(s) \in Nat
      BY <1>1, AgesTyped, Zenon
    <3>4. served[s][n].age \in 0 .. MaxAge
      BY <3>2, <3>3, Bounds
    <3> QED BY <3>1, <3>4, Zenon DEF NameEntry
  <2>3. peers \in [Sessions -> [Sids -> Entry(0 .. MaxAge)]]
    BY <1>1, <2>1, Zenon DEF TypeInv, Peers
  <2>4. served \in [Sessions -> [Names -> NameEntry(0 .. MaxAge)]]
    BY <1>1, <2>2, Zenon DEF TypeInv, Served
  <2> QED BY <1>1, <2>3, <2>4, Zenon DEF TypeOK, TypeInv, States, Marks, Clocks, Budgets, Flight
<1> QED BY <1>1, Laws, PTL

\* Whoever has gone is off every list within the timeout, a heartbeat and the
\* delay of a last signal, for any timing (App.seen, App.heartbeat).
THEOREM Forgets == Spec => []GoneForgotten
<1>1. ASSUME TypeInv, PresenceInv, NEW r \in Sessions, NEW s \in Sessions, goneFor[s] > Forgotten
      PROVE  /\ Lists(r, s) => \E t \in Sessions : t # s /\ Sid[t] = Sid[s] /\ goneFor[t] <= Forgotten
             /\ By[s] # NoName /\ served[r][By[s]].known =>
                  \E t \in Sessions : t # s /\ By[t] = By[s] /\ goneFor[t] <= Forgotten
  <2>1. ASSUME NEW t \in Sessions, NEW age \in Nat, age <= MaxAge, goneFor[t] <= age + Delay
        PROVE  t # s /\ goneFor[t] <= Forgotten
    <3>1. goneFor[t] <= Forgotten /\ goneFor[t] \in Nat /\ goneFor[s] \in Nat
      BY <1>1, <2>1, Bounds, PresenceAssumption DEF TypeInv, Clocks
    <3> QED BY <1>1, <3>1, Bounds
  <2>2. ASSUME Lists(r, s)
        PROVE  \E t \in Sessions : t # s /\ Sid[t] = Sid[s] /\ goneFor[t] <= Forgotten
    <3>1. Sid[s] \in Sids
      BY Persons
    <3>2. PICK t \in Sessions : Sid[t] = Sid[s] /\ goneFor[t] <= peers[r][Sid[s]].age + Delay
      BY <1>1, <2>2, <3>1, Zenon DEF PresenceInv, EntryLaw, Lists
    <3>3. peers[r][Sid[s]].age \in Nat /\ DueIn(r) \in Nat
      BY <1>1, <3>1, AgesTyped, Zenon
    <3>4. peers[r][Sid[s]].age + DueIn(r) <= MaxAge
      BY <1>1, <3>1, Zenon DEF PresenceInv, AgeLaw
    <3>5. peers[r][Sid[s]].age <= MaxAge
      BY <3>3, <3>4, Bounds
    <3> QED BY <2>1, <3>2, <3>3, <3>5, Zenon
  <2>3. ASSUME By[s] # NoName, served[r][By[s]].known
        PROVE  \E t \in Sessions : t # s /\ By[t] = By[s] /\ goneFor[t] <= Forgotten
    <3>1. By[s] \in Names
      BY <2>3, Persons, Zenon
    <3>2. PICK t \in Sessions : By[t] = By[s] /\ goneFor[t] <= served[r][By[s]].age + Delay
      BY <1>1, <2>3, <3>1, Zenon DEF PresenceInv, ServedLaw
    <3>3. served[r][By[s]].age \in Nat /\ DueIn(r) \in Nat
      BY <1>1, <3>1, AgesTyped, Zenon
    <3>4. served[r][By[s]].age + DueIn(r) <= MaxAge
      BY <1>1, <3>1, Zenon DEF PresenceInv, AgeLaw
    <3>5. served[r][By[s]].age <= MaxAge
      BY <3>3, <3>4, Bounds
    <3> QED BY <2>1, <3>2, <3>3, <3>5, Zenon
  <2> QED BY <2>2, <2>3, Zenon
<1>2. TypeInv /\ PresenceInv => GoneForgotten
  BY <1>1, Zenon DEF GoneForgotten
<1> QED BY <1>2, Laws, PTL

\* An entry changes hands only after it was dropped, and nobody's entry is
\* dropped by a message of somebody else's (App.seen).
THEOREM OwnersKeep == Spec => OwnerOnly
<1> DEFINE Kind(r, i) ==
      \/ peers'[r][i].known /\ peers'[r][i].by = peers[r][i].by
      \/ Stale(peers[r][i])
      \/ \E m \in flight \ flight' : m.says = "leave" /\ By[m.from] = peers[r][i].by
<1>1. ASSUME TypeInv, [Next]_vars, NEW r \in Sessions, NEW i \in Sids,
             peers[r][i].known, peers[r][i].by # NoName, Up(r)'
      PROVE  Kind(r, i)
  <2>1. peers \in [Sessions -> [Sids -> Entry(Nat)]] /\ peers[r] \in [Sids -> Entry(Nat)]
    BY <1>1, Zenon DEF TypeInv, Peers
  <2>2. CASE peers'[r][i] = peers[r][i]
    BY <1>1, <2>2, Zenon
  <2>3. ASSUME NEW m \in flight, Relay(m) PROVE Kind(r, i)
    <3>1. CASE ~(r \in Receivers(m) /\ Counts(r, m) /\ Sid[m.from] = i)
      <4>1. peers'[r][i] = peers[r][i]
        BY <2>1, <2>3, <3>1, Zenon DEF Relay, SeenPeers
      <4> QED BY <2>2, <4>1
    <3>2. CASE r \in Receivers(m) /\ Counts(r, m) /\ Sid[m.from] = i
      <4>1. peers[r][i].by = By[m.from]
        BY <1>1, <3>2, Zenon DEF Counts
      <4>2. CASE m.says = "leave"
        <5>1. flight' = flight \ {m}
          BY <2>3, <4>2 DEF Relay, Replies
        <5> QED BY <2>3, <4>1, <4>2, <5>1, Zenon
      <4>3. CASE m.says # "leave"
        <5>1. \E isAway : peers'[r][i] = [known |-> TRUE, by |-> By[m.from], age |-> 0, away |-> isAway]
          BY <2>1, <2>3, <3>2, <4>3, Zenon DEF Relay, SeenPeers
        <5>2. \A isAway : /\ [known |-> TRUE, by |-> By[m.from], age |-> 0, away |-> isAway].known
                          /\ [known |-> TRUE, by |-> By[m.from], age |-> 0, away |-> isAway].by = By[m.from]
          OBVIOUS
        <5> QED BY <4>1, <5>1, <5>2, Zenon
      <4> QED BY <4>2, <4>3
    <3> QED BY <3>1, <3>2
  <2>4. ASSUME NEW s \in Sessions, Prune(s) PROVE Kind(r, i)
    <3>1. peers'[r][i] = peers[r][i] \/ Stale(peers[r][i])
      BY <2>1, <2>4, Zenon DEF Prune
    <3> QED BY <2>2, <3>1, Zenon
  <2>5. ASSUME NEW s \in Sessions, Ends(s) PROVE peers'[r][i] = peers[r][i]
    <3>1. s # r
      BY <1>1, <2>5 DEF Ends, Up, TypeInv, States
    <3> QED BY <2>1, <2>5, <3>1, Zenon DEF Ends
  <2>6. CASE Tick
    <3>1. peers'[r][i] = Older(peers[r][i]) /\ peers[r][i] \in Entry(Nat)
      BY <2>1, <2>6, Zenon DEF Tick
    <3>2. Older(peers[r][i]).known = peers[r][i].known /\ Older(peers[r][i]).by = peers[r][i].by
      BY <1>1, <3>1, Zenon DEF Older, Entry
    <3> QED BY <1>1, <3>1, <3>2, Zenon
  <2> QED BY <1>1, PeersChange, <2>2, <2>3, <2>4, <2>5, <2>6, Zenon DEF HereFrame
<1>2. TypeInv /\ [Next]_vars =>
        [\A r \in Sessions, i \in Sids :
           LET e == peers[r][i]
           IN  e.known /\ e.by # NoName /\ Up(r)' =>
                 \/ peers'[r][i].known /\ peers'[r][i].by = e.by
                 \/ Stale(e)
                 \/ \E m \in flight \ flight' : m.says = "leave" /\ By[m.from] = e.by]_vars
  BY <1>1, Zenon
<1>3. Spec => []TypeInv
  BY Laws, PTL
<1> QED BY <1>2, <1>3, PTL DEF Spec, OwnerOnly

-----------------------------------------------------------------------------
(* Why invisible users stay off the lists. *)

\* No invisible user shares a name with a visible one, or a session id with a
\* visible guest (whose entry anybody with that session id may change).
Apart ==
  \A s, t \in Sessions :
    Visible(t) /\ ~Visible(s) => By[s] # By[t] /\ (Sid[s] = Sid[t] => By[t] # NoName)

\* Readers that are invisible only post; every entry is about somebody visible.
OnlyPosts   == \A m \in flight : m.from \in Invisible => m.says = "post"
ShowsPeer(r, i)   == peers[r][i].known =>
                       \E t \in Sessions : Visible(t) /\ Sid[t] = i /\ By[t] = peers[r][i].by
ShowsServed(r, n) == served[r][n].known => \E t \in Sessions : Visible(t) /\ By[t] = n
VisibleInv ==
  /\ OnlyPosts
  /\ \A r \in Sessions : \A i \in Sids : ShowsPeer(r, i)
  /\ \A r \in Sessions : \A n \in Names : ShowsServed(r, n)

LEMMA OnlyPostsStep == TypeInv /\ OnlyPosts /\ [Next]_vars => OnlyPosts'
<1> SUFFICES ASSUME TypeInv, OnlyPosts, [Next]_vars, NEW m \in flight', m.from \in Invisible
             PROVE  m.says = "post"
  BY Zenon DEF OnlyPosts
<1>1. CASE Tick
  <2>1. PICK n \in flight : m = [n EXCEPT !.left = @ - 1]
    BY <1>1, Zenon DEF Tick
  <2>2. n \in Messages
    BY Zenon DEF TypeInv, Flight
  <2>3. m.from = n.from /\ m.says = n.says
    BY <2>1, <2>2, Zenon DEF Messages
  <2> QED BY <2>3, Zenon DEF OnlyPosts
<1>2. CASE m \in flight
  BY <1>2, Zenon DEF OnlyPosts
<1>3. CASE m \notin flight /\ \E n \in flight : Relay(n)
  <2>1. PICK n \in flight : Relay(n)
    BY <1>3
  <2>6. flight' = (flight \ {n}) \cup Replies(n)
    BY <2>1, Zenon DEF Relay
  <2>7. m \in Replies(n)
    BY <1>3, <2>6, Zenon
  <2>2. \E r \in Receivers(n) : m \in Signal(r, "here", FALSE)
    BY <2>7, Zenon DEF Replies
  <2>3. PICK r : m \in Signal(r, "here", FALSE)
    BY <2>2
  <2>4. r \notin Invisible /\ m = Message(r, "here", FALSE)
    BY <2>3, Zenon DEF Signal
  <2>5. m.from = r
    BY <2>4, Zenon DEF Message
  <2> QED BY <2>4, <2>5
<1>4. ASSUME m \notin flight, NEW s \in Sessions, NEW says, NEW isAway, m \in Signal(s, says, isAway)
      PROVE  FALSE
  <2>1. s \notin Invisible /\ m = Message(s, says, isAway)
    BY <1>4, Zenon DEF Signal
  <2>2. m.from = s
    BY <2>1, Zenon DEF Message
  <2> QED BY <2>1, <2>2
<1>5. ASSUME m \notin flight,
             NEW s \in Sessions, Subscribe(s) \/ Beat(s) \/ Leave(s) \/ \E isAway \in BOOLEAN : Turn(s, isAway)
      PROVE  FALSE
  BY <1>4, <1>5, Zenon DEF Subscribe, Beat, Leave, Turn
<1>6. ASSUME m \notin flight, NEW s \in Sessions, Post(s)
      PROVE  m.says = "post"
  <2>1. m = Message(s, "post", FALSE)
    BY <1>6, Zenon DEF Post
  <2> QED BY <2>1, Zenon DEF Message
<1>7. CASE UNCHANGED flight \/ \E n \in flight : Lose(n)
  BY <1>2, <1>7, Zenon DEF Lose
<1> QED BY <1>1, <1>2, <1>3, <1>5, <1>6, <1>7, Zenon DEF Next, vars, Passes, HereFrame, Start, Cut,
           Away, Back, Prune, Crash

LEMMA ShowsPeerStep ==
  ASSUME Apart, TypeInv, VisibleInv, [Next]_vars, NEW r \in Sessions, NEW i \in Sids
  PROVE  ShowsPeer(r, i)'
<1> SUFFICES ASSUME peers'[r][i].known
             PROVE  \E t \in Sessions : Visible(t) /\ Sid[t] = i /\ By[t] = peers'[r][i].by
  BY Zenon DEF ShowsPeer, Visible
<1>1. peers \in [Sessions -> [Sids -> Entry(Nat)]] /\ peers[r] \in [Sids -> Entry(Nat)]
  BY Zenon DEF TypeInv, Peers
<1>2. CASE peers[r][i].known /\ peers'[r][i].by = peers[r][i].by
  <2>1. ShowsPeer(r, i)
    BY Zenon DEF VisibleInv
  <2>2. PICK t \in Sessions : Visible(t) /\ Sid[t] = i /\ By[t] = peers[r][i].by
    BY <1>2, <2>1, Zenon DEF ShowsPeer
  <2>3. By[t] = peers'[r][i].by
    BY <1>2, <2>2
  <2> QED BY <2>2, <2>3, Zenon
<1>3. CASE Tick
  <2>1. peers'[r][i] = Older(peers[r][i]) /\ peers[r][i] \in Entry(Nat)
    BY <1>1, <1>3, Zenon DEF Tick
  <2>4. Older(peers[r][i]).known = peers[r][i].known
    BY <2>1, OlderEntry, Zenon
  <2>2. peers[r][i].known
    BY <2>1, <2>4, Zenon
  <2>3. peers'[r][i].by = peers[r][i].by
    BY <2>1, <2>2, Zenon DEF Older, Entry
  <2> QED BY <1>2, <2>2, <2>3
<1>4. ASSUME NEW m \in flight, Relay(m), peers'[r][i] # peers[r][i]
      PROVE  \E t \in Sessions : Visible(t) /\ Sid[t] = i /\ By[t] = peers'[r][i].by
  <2>1. m.from \in Sessions
    BY Zenon DEF TypeInv, Flight, Messages
  <2>2. Sid[m.from] = i /\ Counts(r, m) /\ peers'[r][i] = SeenPeers(r, m)[i]
    BY <1>1, <1>4, Zenon DEF Relay, SeenPeers
  <2>3. \/ SeenPeers(r, m)[i] = Unknown
        \/ \E isAway : SeenPeers(r, m)[i] = [known |-> TRUE, by |-> By[m.from], age |-> 0, away |-> isAway]
    BY <1>1, <2>2, Zenon DEF SeenPeers
  <2>4. \A isAway : [known |-> TRUE, by |-> By[m.from], age |-> 0, away |-> isAway].by = By[m.from]
    OBVIOUS
  <2>5. peers'[r][i].by = By[m.from]
    <3>1. peers'[r][i] # Unknown
      BY Blank
    <3> QED BY <2>2, <2>3, <2>4, <3>1, Zenon
  <2>6. CASE Visible(m.from)
    BY <2>1, <2>2, <2>5, <2>6, Zenon
  <2>7. CASE ~Visible(m.from)
    <3>1. m.says = "post"
      BY <2>2, <2>7, Zenon DEF Visible, VisibleInv, OnlyPosts, Counts, Hidden
    <3>2. peers[r][i].known
      BY <2>2, <3>1, Zenon DEF Counts
    <3>3. PICK t \in Sessions : Visible(t) /\ Sid[t] = i /\ By[t] = peers[r][i].by
      BY <3>2, Zenon DEF VisibleInv, ShowsPeer
    <3>4. peers[r][i].by # NoName
      BY <2>1, <2>2, <2>7, <3>3, Zenon DEF Apart
    <3>5. peers[r][i].by = By[m.from]
      BY <2>2, <3>2, <3>4, Zenon DEF Counts
    <3> QED BY <1>2, <2>5, <3>2, <3>5, Zenon
  <2> QED BY <2>6, <2>7
<1>5. ASSUME NEW s \in Sessions, Prune(s) \/ Ends(s) PROVE peers'[r][i] = peers[r][i]
  <2>1. CASE s # r
    BY <1>1, <1>5, <2>1, Zenon DEF Prune, Ends
  <2>2. CASE s = r /\ Prune(r)
    <3>1. peers'[r][i] = IF Stale(peers[r][i]) THEN Unknown ELSE peers[r][i]
      BY <1>1, <2>2, Zenon DEF Prune
    <3> QED BY <3>1, Blank, Zenon
  <2>3. CASE s = r /\ Ends(r)
    <3>1. peers'[r] = Nobody
      BY <1>1, <2>3, Zenon DEF Ends
    <3> QED BY <3>1, Blank, Zenon
  <2> QED BY <1>5, <2>1, <2>2, <2>3
<1>6. CASE peers'[r][i] = peers[r][i]
  BY <1>2, <1>6, Zenon
<1>7. ASSUME NEW s \in Sessions, HereFrame(s) PROVE peers'[r][i] = peers[r][i]
  BY <1>7, Zenon DEF HereFrame
<1>8. UNCHANGED <<peers, served>> => peers'[r][i] = peers[r][i]
  BY Zenon
<1>9. Tick \/ peers'[r][i] = peers[r][i] \/ \E m \in flight : Relay(m)
  BY PeersChange, <1>5, <1>7, <1>8, Zenon
<1> QED BY <1>3, <1>4, <1>6, <1>9, Zenon

LEMMA ShowsServedStep ==
  ASSUME TypeInv, VisibleInv, [Next]_vars, NEW r \in Sessions, NEW n \in Names
  PROVE  ShowsServed(r, n)'
<1> SUFFICES ASSUME served'[r][n].known
             PROVE  \E t \in Sessions : Visible(t) /\ By[t] = n
  BY Zenon DEF ShowsServed, Visible
<1>1. served \in [Sessions -> [Names -> NameEntry(Nat)]] /\ served[r] \in [Names -> NameEntry(Nat)]
  BY Zenon DEF TypeInv, Served
<1>2. CASE served[r][n].known
  BY <1>2, Zenon DEF VisibleInv, ShowsServed
<1>3. CASE Tick
  <2>1. served'[r][n] = Older(served[r][n]) /\ served[r][n] \in NameEntry(Nat)
    BY <1>1, <1>3, Zenon DEF Tick
  <2>2. Older(served[r][n]).known = served[r][n].known
    BY <2>1, OlderEntry, Zenon
  <2> QED BY <1>2, <2>1, <2>2, Zenon
<1>4. ASSUME NEW m \in flight, Relay(m) PROVE served'[r][n] = served[r][n]
  <2>1. SeenServed(r, m)[n] = Unnamed \/ SeenServed(r, m)[n] = served[r][n]
    BY Zenon DEF SeenServed
  <2>2. served'[r] = served[r] \/ served'[r] = SeenServed(r, m)
    BY <1>4, Zenon DEF Relay
  <2> QED BY <2>1, <2>2, Blank, Zenon
<1>5. ASSUME NEW s \in Sessions, Prune(s) \/ Ends(s) PROVE served'[r][n] = served[r][n]
  <2>1. CASE s # r
    BY <1>1, <1>5, <2>1, Zenon DEF Prune, Ends
  <2>2. CASE s = r /\ Prune(r)
    <3>1. served'[r][n] = IF Stale(served[r][n]) THEN Unnamed ELSE served[r][n]
      BY <1>1, <2>2, Zenon DEF Prune
    <3> QED BY <3>1, Blank, Zenon
  <2>3. CASE s = r /\ Ends(r)
    <3>1. served'[r] = NoNames
      BY <1>1, <2>3, Zenon DEF Ends
    <3> QED BY <3>1, Blank, Zenon
  <2> QED BY <1>5, <2>1, <2>2, <2>3
<1>6. ASSUME NEW s \in Sessions, HereFrame(s), served'[r][n] # served[r][n]
      PROVE  \E t \in Sessions : Visible(t) /\ By[t] = n
  <2>1. s = r
    BY <1>1, <1>6, Zenon DEF HereFrame
  <2>2. served'[r] = [k \in Names |->
                        IF k \in {By[t] : t \in {u \in Sessions : Reads(u) /\ Visible(u)}} \ {By[r]}
                        THEN [known |-> TRUE, age |-> 0] ELSE served[r][k]]
    BY <1>1, <1>6, <2>1, Zenon DEF HereFrame
  <2>3. n \in {By[t] : t \in {u \in Sessions : Reads(u) /\ Visible(u)}} \ {By[r]}
    BY <1>6, <2>2, Zenon
  <2> QED BY <2>3, Zenon
<1>7. CASE served'[r][n] = served[r][n]
  BY <1>2, <1>7, Zenon
<1> QED BY PeersChange, <1>3, <1>4, <1>5, <1>6, <1>7, Zenon

\* An invisible user never appears on anybody's list, for any sessions in which
\* nobody visible has their name and no visible guest their session id
\* (App.signal, App.seen, the server's "here" frame).
THEOREM InvisibleStay ==
  ASSUME Apart
  PROVE  Spec => []InvisibleUnlisted
<1>1. Init => VisibleInv
  <2>1. ASSUME Init PROVE VisibleInv
    <3>1. /\ peers = [s \in Sessions |-> Nobody] /\ served = [s \in Sessions |-> NoNames]
          /\ flight = {}
      BY <2>1, Zenon DEF Init
    <3>2. /\ \A s \in Sessions, i \in Sids : peers[s][i] = Unknown
          /\ \A s \in Sessions, n \in Names : served[s][n] = Unnamed
      BY <3>1, Blank, Zenon
    <3> QED BY <3>1, <3>2, Blank, Zenon DEF VisibleInv, OnlyPosts, ShowsPeer, ShowsServed
  <2> QED BY <2>1
<1>2. TypeInv /\ VisibleInv /\ [Next]_vars => VisibleInv'
  <2>1. ASSUME TypeInv, VisibleInv, [Next]_vars PROVE VisibleInv'
    <3>1. OnlyPosts'
      BY <2>1, OnlyPostsStep, Zenon DEF VisibleInv
    <3>2. \A r \in Sessions : \A i \in Sids : ShowsPeer(r, i)'
      BY <2>1, ShowsPeerStep, Zenon
    <3>3. \A r \in Sessions : \A n \in Names : ShowsServed(r, n)'
      BY <2>1, ShowsServedStep, Zenon
    <3> QED BY <3>1, <3>2, <3>3, Zenon DEF VisibleInv
  <2> QED BY <2>1
<1>3. VisibleInv => InvisibleUnlisted
  <2>1. ASSUME VisibleInv, NEW r \in Sessions, NEW s \in Sessions, ~Visible(s)
        PROVE  /\ Lists(r, s) => peers[r][Sid[s]].by # By[s]
               /\ \A n \in Names : served[r][n].known => n # By[s]
    <3>1. ASSUME Lists(r, s) PROVE peers[r][Sid[s]].by # By[s]
      <4>1. PICK t \in Sessions : Visible(t) /\ By[t] = peers[r][Sid[s]].by
        BY <2>1, <3>1, Persons, Zenon DEF VisibleInv, ShowsPeer, Lists
      <4> QED BY <2>1, <4>1, Zenon DEF Apart
    <3>2. ASSUME NEW n \in Names, served[r][n].known PROVE n # By[s]
      <4>1. PICK t \in Sessions : Visible(t) /\ By[t] = n
        BY <2>1, <3>2, Zenon DEF VisibleInv, ShowsServed
      <4> QED BY <2>1, <4>1, Zenon DEF Apart
    <3> QED BY <3>1, <3>2
  <2> QED BY <2>1, Zenon DEF InvisibleUnlisted
<1> QED BY <1>1, <1>2, <1>3, Laws, PTL DEF Spec

-----------------------------------------------------------------------------
(* Why nobody who is listed and still here is dropped. *)

\* The signals of one session on their way, and those of them due before m.
Signals(F)    == IsFiniteSet(F) /\ F \subseteq Messages
Earlier(F, m) == {n \in F : n.left < m.left}

Allowance(n) == n * HeartbeatEvery

\* How old an entry can be, when b units are left to the next "here" of whoever
\* it is about, F of theirs are on their way and the last k were lost.
Within(age, k, b, F) ==
  /\ age + b <= Allowance(k + Cardinality(F) + 1)
  /\ \A m \in F : age + m.left <= Allowance(k + Cardinality(Earlier(F, m)) + 1) + Delay

LEMMA Allowances ==
  \A a, b \in Nat : /\ Allowance(a) \in Nat
                    /\ Allowance(a + 1) = Allowance(a) + HeartbeatEvery
                    /\ a <= b => Allowance(a) <= Allowance(b)
<1> SUFFICES ASSUME NEW a \in Nat, NEW b \in Nat
             PROVE  /\ Allowance(a) \in Nat
                    /\ Allowance(a + 1) = Allowance(a) + HeartbeatEvery
                    /\ a <= b => Allowance(a) <= Allowance(b)
  OBVIOUS
<1>1. HeartbeatEvery \in Nat
  BY PresenceAssumption
<1>2. Allowance(a) \in Nat /\ Allowance(a + 1) = Allowance(a) + HeartbeatEvery
  BY <1>1 DEF Allowance
<1>3. ASSUME a <= b PROVE Allowance(a) <= Allowance(b)
  <2>1. PICK d \in Nat : b = a + d
    <3>1. b - a \in Nat /\ b = a + (b - a)
      BY <1>3
    <3> QED BY <3>1
  <2>2. b * HeartbeatEvery = a * HeartbeatEvery + d * HeartbeatEvery /\ d * HeartbeatEvery \in Nat
        /\ a * HeartbeatEvery \in Nat
    BY <1>1, <2>1
  <2> QED BY <2>2 DEF Allowance
<1> QED BY <1>2, <1>3

LEMMA EarlierSignals ==
  ASSUME NEW F, Signals(F), NEW m
  PROVE  /\ IsFiniteSet(Earlier(F, m)) /\ Cardinality(F) \in Nat
         /\ Cardinality(Earlier(F, m)) \in Nat /\ Cardinality(Earlier(F, m)) <= Cardinality(F)
<1>1. Earlier(F, m) \in SUBSET F /\ IsFiniteSet(F)
  BY DEF Earlier, Signals
<1>2. IsFiniteSet(Earlier(F, m)) /\ Cardinality(Earlier(F, m)) <= Cardinality(F)
  BY <1>1, FS_Subset, Zenon
<1> QED BY <1>1, <1>2, FS_CardinalityType

LEMMA Lefts == \A m \in Messages : m.left \in Nat /\ m.left <= Delay
<1>1. \A m \in Messages : m.left \in 0 .. Delay
  BY Zenon DEF Messages
<1> QED BY <1>1, PresenceAssumption

\* Whoever has just been heard from is in time.
LEMMA WithinFresh ==
  ASSUME NEW F, Signals(F), NEW k \in Nat, NEW b \in Nat, b <= HeartbeatEvery
  PROVE  Within(0, k, b, F)
<1>1. Cardinality(F) \in Nat
  BY EarlierSignals, Zenon
<1>2. b <= Allowance(k + Cardinality(F) + 1)
  <2> DEFINE n == k + Cardinality(F)
  <2>1. n \in Nat
    BY <1>1
  <2>2. Allowance(n) \in Nat /\ Allowance(n + 1) = Allowance(n) + HeartbeatEvery
    BY <2>1, Allowances, Zenon
  <2> QED BY <2>2, PresenceAssumption
<1>3. ASSUME NEW m \in F
      PROVE  0 + m.left <= Allowance(k + Cardinality(Earlier(F, m)) + 1) + Delay
  <2> DEFINE c == Cardinality(Earlier(F, m))
  <2>1. c \in Nat
    BY EarlierSignals, Zenon
  <2>2. k + c + 1 \in Nat
    BY <2>1
  <2>3. Allowance(k + c + 1) \in Nat
    BY <2>2, Allowances, Zenon
  <2>4. m.left \in Nat /\ m.left <= Delay
    BY Lefts DEF Signals
  <2> HIDE DEF c
  <2>5. 0 + m.left <= Allowance(k + c + 1) + Delay
    BY <2>3, <2>4, PresenceAssumption
  <2> QED BY <2>5 DEF c
<1>4. 0 + b <= Allowance(k + Cardinality(F) + 1)
  BY <1>2
<1> QED BY <1>3, <1>4, Zenon DEF Within

\* Who is in time has not been silent for longer than the signals lost in a row
\* explain, and the delay of the one to come.
LEMMA WithinBounds ==
  ASSUME NEW F, Signals(F), NEW age \in Nat, NEW k \in Nat, NEW b \in Nat, Within(age, k, b, F)
  PROVE  age <= Allowance(k + 1) + Delay
<1> DEFINE bound == Allowance(k + 1)
<1>1. bound \in Nat
  BY Allowances
<1>2. CASE F = {}
  <2>1. Cardinality(F) = 0
    BY <1>2, FS_EmptySet
  <2>2. age + b <= Allowance(k + 0 + 1)
    BY <2>1, Zenon DEF Within
  <2>3. k + 0 + 1 = k + 1
    OBVIOUS
  <2>4. age + b <= bound
    BY <2>2, <2>3, Zenon
  <2> HIDE DEF bound
  <2>5. age <= bound + Delay
    BY <1>1, <2>4, PresenceAssumption
  <2> QED BY <2>5 DEF bound
<1>3. CASE F # {}
  <2> DEFINE L == {n \in Nat : \E m \in F : m.left = n}
  <2>1. \A m \in F : m.left \in L
    BY Lefts DEF Signals
  <2>2. L \subseteq Nat /\ L # {}
    BY <1>3, <2>1
  <2>3. PICK l \in L : \A n \in L : l <= n
    <3> HIDE DEF L
    <3> QED BY <2>2, Least
  <2>4. PICK m \in F : m.left = l
    OBVIOUS
  <2>5. Earlier(F, m) = {}
    <3>1. ASSUME NEW n \in F, n.left < m.left PROVE FALSE
      <4>1. l <= n.left /\ n.left \in Nat /\ l \in Nat
        BY <2>1, <2>3
      <4> QED BY <3>1, <2>4, <4>1
    <3> QED BY <3>1, Zenon DEF Earlier
  <2>6. Cardinality(Earlier(F, m)) = 0
    BY <2>5, FS_EmptySet
  <2>7. age + m.left <= Allowance(k + 0 + 1) + Delay
    BY <2>6, Zenon DEF Within
  <2>8. k + 0 + 1 = k + 1
    OBVIOUS
  <2>9. age + m.left <= bound + Delay /\ m.left \in Nat
    BY <2>7, <2>8, Lefts, Zenon DEF Signals
  <2> HIDE DEF bound
  <2>10. age <= bound + Delay
    BY <1>1, <2>9, PresenceAssumption
  <2> QED BY <2>10 DEF bound
<1> QED BY <1>2, <1>3

\* One more on its way is due last.
LEMMA WithinLater ==
  ASSUME NEW F, Signals(F), NEW x \in Messages, x.left = Delay,
         NEW age \in Nat, NEW k \in Nat, NEW b \in Nat, Within(age, k, b, F)
  PROVE  /\ Signals(F \cup {x})
         /\ Within(age, k, b, F \cup {x})
         /\ b = 0 => Within(age, k, HeartbeatEvery, F \cup {x})
<1> DEFINE G == F \cup {x}
           c == Cardinality(F)
           d == Cardinality(G)
<1>1. IsFiniteSet(F) /\ F \subseteq Messages
  BY DEF Signals
<1>2. IsFiniteSet(G) /\ d = IF x \in F THEN c ELSE c + 1
  BY <1>1, FS_AddElement
<1>3. Signals(G)
  BY <1>1, <1>2 DEF Signals
<1>4. c \in Nat /\ d \in Nat
  BY <1>3, EarlierSignals, Zenon
<1>5. \A m \in G : Earlier(G, m) = Earlier(F, m)
  <2>1. \A m \in G : m.left \in Nat /\ m.left <= Delay
    BY <1>3, Lefts DEF Signals
  <2>2. \A m \in G : ~(x.left < m.left)
    BY <2>1
  <2> QED BY <2>2, Zenon DEF Earlier
<1>6. ASSUME NEW m \in G
      PROVE  age + m.left <= Allowance(k + Cardinality(Earlier(F, m)) + 1) + Delay
  <2>1. CASE m \in F
    BY <2>1, Zenon DEF Within
  <2>2. CASE m = x /\ x \notin F /\ \E y \in F : y.left = Delay
    <3>1. PICK y \in F : y.left = Delay
      BY <2>2
    <3>2. Earlier(F, y) = Earlier(F, m) /\ y.left = m.left
      BY <2>2, <3>1, Zenon DEF Earlier
    <3> QED BY <3>2, Zenon DEF Within
  <2>3. CASE m = x /\ \A y \in F : y.left # Delay
    <3>1. \A y \in F : y.left < m.left
      <4>1. \A y \in F : y.left \in Nat /\ y.left <= Delay
        BY <1>1, Lefts
      <4> QED BY <2>3, <4>1, PresenceAssumption
    <3>2. Earlier(F, m) = F
      BY <3>1, Zenon DEF Earlier
    <3>3. age + b <= Allowance(k + c + 1) /\ k + c + 1 \in Nat
      BY <1>4 DEF Within
    <3>4. Allowance(k + c + 1) \in Nat
      BY <3>3, Allowances, Zenon
    <3> HIDE DEF c
    <3>5. age + m.left <= Allowance(k + c + 1) + Delay
      BY <2>3, <3>3, <3>4, PresenceAssumption
    <3> QED BY <3>2, <3>5, Zenon DEF c
  <2> QED BY <2>1, <2>2, <2>3
<1>7. \A m \in G : age + m.left <= Allowance(k + Cardinality(Earlier(G, m)) + 1) + Delay
  BY <1>5, <1>6, Zenon
<1>8. age + b <= Allowance(k + d + 1)
  <2>1. age + b <= Allowance(k + c + 1)
    BY DEF Within
  <2>2. k + c + 1 \in Nat /\ k + d + 1 \in Nat /\ k + c + 1 <= k + d + 1
    <3> HIDE DEF c, d
    <3> QED BY <1>2, <1>4
  <2>3. Allowance(k + c + 1) \in Nat /\ Allowance(k + d + 1) \in Nat /\ Allowance(k + c + 1) <= Allowance(k + d + 1)
    BY <2>2, Allowances, Zenon
  <2> HIDE DEF c, d
  <2> QED BY <2>1, <2>3
<1>9. ASSUME b = 0 PROVE age + HeartbeatEvery <= Allowance(k + d + 1)
  <2>1. CASE x \notin F
    <3>1. age + b <= Allowance(k + c + 1)
      BY DEF Within
    <3>2. k + c + 1 \in Nat /\ k + d + 1 = (k + c + 1) + 1
      <4> HIDE DEF c, d
      <4> QED BY <1>2, <1>4, <2>1
    <3>3. Allowance(k + c + 1) \in Nat /\ Allowance(k + d + 1) = Allowance(k + c + 1) + HeartbeatEvery
      BY <3>2, Allowances, Zenon
    <3> HIDE DEF c, d
    <3> QED BY <1>9, <3>1, <3>3, PresenceAssumption
  <2>2. CASE x \in F
    <3> DEFINE e == Cardinality(Earlier(F, x))
    <3>1. age + x.left <= Allowance(k + e + 1) + Delay
      BY <2>2, Zenon DEF Within
    <3>2. Earlier(F, x) \in SUBSET (F \ {x})
      <4>1. ~(x.left < x.left)
        BY PresenceAssumption
      <4> QED BY <4>1, Zenon DEF Earlier
    <3>3. IsFiniteSet(F \ {x}) /\ Cardinality(F \ {x}) = c - 1
      BY <1>1, <2>2, FS_RemoveElement
    <3>4. e <= c - 1
      BY <3>2, <3>3, FS_Subset
    <3>5. e \in Nat
      BY EarlierSignals, Zenon
    <3> HIDE DEF c, d, e
    <3>6. k + e + 1 \in Nat /\ k + e + 1 <= k + c /\ k + c \in Nat /\ k + d + 1 = (k + c) + 1
      BY <1>2, <1>4, <2>2, <3>4, <3>5
    <3>7. /\ Allowance(k + e + 1) \in Nat /\ Allowance(k + c) \in Nat
          /\ Allowance(k + e + 1) <= Allowance(k + c)
          /\ Allowance(k + d + 1) = Allowance(k + c) + HeartbeatEvery
      BY <3>6, Allowances, Zenon
    <3> QED BY <3>1, <3>7, PresenceAssumption
  <2> QED BY <2>1, <2>2
<1>10. Within(age, k, b, G)
  BY <1>7, <1>8, Zenon DEF Within
<1>11. b = 0 => Within(age, k, HeartbeatEvery, G)
  BY <1>7, <1>9, Zenon DEF Within
<1> QED BY <1>3, <1>10, <1>11

\* One that is lost counts among the lost.
LEMMA WithinLost ==
  ASSUME NEW F, Signals(F), NEW x \in F,
         NEW age \in Nat, NEW k \in Nat, NEW b \in Nat, Within(age, k, b, F)
  PROVE  Signals(F \ {x}) /\ Within(age, k + 1, b, F \ {x})
<1> DEFINE G == F \ {x}
           c == Cardinality(F)
           d == Cardinality(G)
<1>1. IsFiniteSet(F) /\ F \subseteq Messages
  BY DEF Signals
<1>2. IsFiniteSet(G) /\ d = c - 1
  BY <1>1, FS_RemoveElement
<1>3. Signals(G)
  BY <1>1, <1>2 DEF Signals
<1>4. c \in Nat /\ d \in Nat
  BY <1>3, EarlierSignals, Zenon
<1>5. age + b <= Allowance((k + 1) + d + 1)
  <2>1. age + b <= Allowance(k + c + 1)
    BY DEF Within
  <2>2. (k + 1) + d + 1 = k + c + 1
    <3> HIDE DEF c, d
    <3> QED BY <1>2, <1>4
  <2> HIDE DEF c, d
  <2> QED BY <2>1, <2>2, Zenon
<1>6. ASSUME NEW m \in G
      PROVE  age + m.left <= Allowance((k + 1) + Cardinality(Earlier(G, m)) + 1) + Delay
  <2> DEFINE e == Cardinality(Earlier(F, m))
             f == Cardinality(Earlier(G, m))
  <2>1. age + m.left <= Allowance(k + e + 1) + Delay
    BY <1>6, Zenon DEF Within
  <2>2. Earlier(G, m) = Earlier(F, m) \ {x}
    BY Zenon DEF Earlier
  <2>3. IsFiniteSet(Earlier(F, m)) /\ e \in Nat /\ f \in Nat
    BY <1>3, EarlierSignals, Zenon
  <2>4. f = e \/ f = e - 1
    BY <2>2, <2>3, FS_RemoveElement
  <2>5. m.left \in Nat
    BY <1>1, <1>6, Lefts
  <2> HIDE DEF e, f
  <2>6. k + e + 1 \in Nat /\ (k + 1) + f + 1 \in Nat /\ k + e + 1 <= (k + 1) + f + 1
    BY <2>3, <2>4
  <2>7. /\ Allowance(k + e + 1) \in Nat /\ Allowance((k + 1) + f + 1) \in Nat
        /\ Allowance(k + e + 1) <= Allowance((k + 1) + f + 1)
    BY <2>6, Allowances, Zenon
  <2>8. age + m.left <= Allowance((k + 1) + f + 1) + Delay
    BY <2>1, <2>5, <2>7, PresenceAssumption
  <2> QED BY <2>8 DEF f
<1> QED BY <1>3, <1>5, <1>6, Zenon DEF Within

Sooner(m) == [m EXCEPT !.left = @ - 1]

LEMMA SoonerOf ==
  ASSUME NEW m \in Messages, m.left > 0
  PROVE  /\ Sooner(m) \in Messages /\ Sooner(m).left = m.left - 1 /\ Sooner(m).from = m.from
         /\ Sooner(m).says = m.says
         /\ \A n \in Messages : Sooner(n) = Sooner(m) => n = m
<1>1. m.left \in Nat /\ m.left <= Delay /\ m.left - 1 \in 0 .. Delay
  BY Lefts, PresenceAssumption
<1>2. Sooner(m).left = m.left - 1 /\ Sooner(m).from = m.from /\ Sooner(m).says = m.says
      /\ Sooner(m).away = m.away
  BY Zenon DEF Sooner, Messages
<1>3. Sooner(m) \in Messages
  BY <1>1, Zenon DEF Sooner, Messages
<1>4. ASSUME NEW n \in Messages, Sooner(n) = Sooner(m) PROVE n = m
  <2>1. Sooner(n).left = n.left - 1 /\ Sooner(n).from = n.from /\ Sooner(n).says = n.says
        /\ Sooner(n).away = n.away
    BY Zenon DEF Sooner, Messages
  <2>2. n.left \in Nat /\ m.left \in Nat
    BY Lefts
  <2>3. n.left - 1 = m.left - 1
    BY <1>2, <1>4, <2>1
  <2>4. n.left = m.left
    BY <2>2, <2>3
  <2>5. n.from = m.from /\ n.says = m.says /\ n.away = m.away
    BY <1>2, <1>4, <2>1, Zenon
  <2>6. /\ n = [from |-> n.from, says |-> n.says, away |-> n.away, left |-> n.left]
        /\ m = [from |-> m.from, says |-> m.says, away |-> m.away, left |-> m.left]
    BY Zenon DEF Messages
  <2> QED BY <2>4, <2>5, <2>6, Zenon
<1> QED BY <1>2, <1>3, <1>4, Zenon

\* Time makes entries older and what is on its way due sooner.
LEMMA WithinTick ==
  ASSUME NEW F, Signals(F), \A m \in F : m.left > 0,
         NEW age \in Nat, NEW k \in Nat, NEW b \in Nat, b > 0, Within(age, k, b, F)
  PROVE  /\ Signals({Sooner(m) : m \in F})
         /\ Within(age + 1, k, b - 1, {Sooner(m) : m \in F})
<1> DEFINE After(X) == {Sooner(m) : m \in X}
<1>1. IsFiniteSet(F) /\ F \subseteq Messages
  BY DEF Signals
<1>2. ASSUME NEW X \in SUBSET F
      PROVE  IsFiniteSet(After(X)) /\ Cardinality(After(X)) = Cardinality(X)
  <2> DEFINE f == [m \in X |-> Sooner(m)]
  <2>1. f \in [X -> After(X)] /\ \A m \in X : f[m] = Sooner(m)
    OBVIOUS
  <2>2. \A m, n \in X : f[m] = f[n] => m = n
    BY <1>1, <2>1, SoonerOf, Zenon
  <2>3. \A y \in After(X) : \E m \in X : f[m] = y
    BY <2>1
  <2>4. f \in Bijection(X, After(X))
    <3> HIDE DEF f, After
    <3> QED BY <2>1, <2>2, <2>3 DEF Bijection, Injection, Surjection, IsInjective
  <2>5. ExistsBijection(X, After(X))
    BY <2>4, Zenon DEF ExistsBijection
  <2>6. IsFiniteSet(X)
    BY <1>1, FS_Subset, Zenon
  <2> QED BY <2>5, <2>6, FS_Bijection
<1>3. Signals(After(F))
  <2>1. After(F) \subseteq Messages
    BY <1>1, SoonerOf, Zenon
  <2>2. IsFiniteSet(After(F))
    BY <1>2
  <2> QED BY <2>1, <2>2, Zenon DEF Signals
<1>4. Cardinality(After(F)) = Cardinality(F)
  BY <1>2
<1>5. \A m \in F : Earlier(After(F), Sooner(m)) = After(Earlier(F, m))
  <2>1. \A m, n \in F : Sooner(n).left < Sooner(m).left <=> n.left < m.left
    <3> SUFFICES ASSUME NEW m \in F, NEW n \in F
                 PROVE  Sooner(n).left < Sooner(m).left <=> n.left < m.left
      OBVIOUS
    <3>1. n.left \in Nat /\ m.left \in Nat
      BY <1>1, Lefts
    <3>2. Sooner(n).left = n.left - 1 /\ Sooner(m).left = m.left - 1
      BY <1>1, SoonerOf, Zenon
    <3> QED BY <3>1, <3>2
  <2> QED BY <2>1, Zenon DEF Earlier
<1>6. (age + 1) + (b - 1) <= Allowance(k + Cardinality(After(F)) + 1)
  <2>1. age + b <= Allowance(k + Cardinality(F) + 1)
    BY DEF Within
  <2>2. (age + 1) + (b - 1) = age + b
    OBVIOUS
  <2> QED BY <1>4, <2>1, <2>2, Zenon
<1>7. ASSUME NEW y \in After(F)
      PROVE  (age + 1) + y.left <= Allowance(k + Cardinality(Earlier(After(F), y)) + 1) + Delay
  <2>1. PICK m \in F : y = Sooner(m)
    OBVIOUS
  <2>2. age + m.left <= Allowance(k + Cardinality(Earlier(F, m)) + 1) + Delay
    BY Zenon DEF Within
  <2>3. y.left = m.left - 1 /\ m.left \in Nat
    BY <1>1, <2>1, SoonerOf, Lefts
  <2>4. (age + 1) + y.left = age + m.left
    BY <2>3
  <2>5. Cardinality(Earlier(After(F), y)) = Cardinality(Earlier(F, m))
    <3>1. Earlier(F, m) \in SUBSET F
      BY Zenon DEF Earlier
    <3>2. Cardinality(After(Earlier(F, m))) = Cardinality(Earlier(F, m))
      BY <1>2, <3>1
    <3> QED BY <1>5, <2>1, <3>2
  <2> QED BY <2>2, <2>4, <2>5, Zenon
<1> QED BY <1>3, <1>6, <1>7, Zenon DEF Within

\* Every session has an id of its own, websockets do not break, and the timeout
\* covers the signals that can be lost in a row and the delay of the next one
\* (heartbeatEvery and peerTimeout: one may be lost, the second still counts).
Steadfast ==
  /\ MaxCuts = 0
  /\ \A s, t \in Sessions : Sid[s] = Sid[t] => s = t
  /\ PeerTimeout >= Allowance(LossRun + 1) + Delay

From(s) == {m \in flight : m.from = s}

\* What is on its way comes from sessions that have started, a "leave" from one
\* that has ended; an entry is about such a session, and held by one that reads;
\* it is no older than what was lost and what is on its way explains.
Sent        == \A m \in flight : /\ status[m.from] # "new"
                                 /\ m.says = "leave" => status[m.from] = "gone"
Heard(r, s) == Lists(r, s) => /\ Reads(r) /\ Sid[r] # Sid[s] /\ Visible(s)
                              /\ status[s] # "new" /\ peers[r][Sid[s]].by = By[s]
InTime(r, s) == Lists(r, s) /\ Up(s) => Within(peers[r][Sid[s]].age, lost[s], beat[s], From(s))
KeepInv == /\ Sent
           /\ \A r, s \in Sessions : Heard(r, s)
           /\ \A r, s \in Sessions : InTime(r, s)

LEMMA MessagesFinite == IsFiniteSet(Messages)
<1> DEFINE P == (Sessions \X {"join", "here", "leave", "post"}) \X (BOOLEAN \X (0 .. Delay))
           f == [p \in P |-> [from |-> p[1][1], says |-> p[1][2], away |-> p[2][1], left |-> p[2][2]]]
<1>1. IsFiniteSet({"join", "here", "leave", "post"}) /\ IsFiniteSet(BOOLEAN)
  <2>1. {"join", "here", "leave", "post"} = (({"join"} \cup {"here"}) \cup {"leave"}) \cup {"post"}
    OBVIOUS
  <2>2. BOOLEAN = {TRUE} \cup {FALSE}
    OBVIOUS
  <2>3. IsFiniteSet({"join"} \cup {"here"})
    BY FS_Singleton, FS_AddElement, Zenon
  <2>4. IsFiniteSet(({"join"} \cup {"here"}) \cup {"leave"})
    BY <2>3, FS_AddElement, Zenon
  <2>5. IsFiniteSet((({"join"} \cup {"here"}) \cup {"leave"}) \cup {"post"})
    BY <2>4, FS_AddElement, Zenon
  <2>6. IsFiniteSet({TRUE} \cup {FALSE})
    BY FS_Singleton, FS_AddElement, Zenon
  <2> QED BY <2>1, <2>2, <2>5, <2>6, Zenon
<1>2. IsFiniteSet(0 .. Delay) /\ IsFiniteSet(Sessions)
  BY PresenceAssumption, FS_Interval
<1>3. IsFiniteSet(P)
  <2>1. IsFiniteSet(Sessions \X {"join", "here", "leave", "post"}) /\ IsFiniteSet(BOOLEAN \X (0 .. Delay))
    BY <1>1, <1>2, FS_Product, Zenon
  <2> QED BY <2>1, FS_Product, Zenon
<1>4. ASSUME NEW p \in P PROVE f[p] \in Messages
  <2>1. p[1][1] \in Sessions /\ p[1][2] \in {"join", "here", "leave", "post"}
        /\ p[2][1] \in BOOLEAN /\ p[2][2] \in 0 .. Delay
    OBVIOUS
  <2> QED BY <2>1, Zenon DEF Messages
<1>5. ASSUME NEW m \in Messages PROVE \E p \in P : f[p] = m
  <2>1. /\ m.from \in Sessions /\ m.says \in {"join", "here", "leave", "post"}
        /\ m.away \in BOOLEAN /\ m.left \in 0 .. Delay
        /\ m = [from |-> m.from, says |-> m.says, away |-> m.away, left |-> m.left]
    BY Zenon DEF Messages
  <2> DEFINE p == <<<<m.from, m.says>>, <<m.away, m.left>>>>
  <2>2. p \in P
    BY <2>1
  <2>3. p[1][1] = m.from /\ p[1][2] = m.says /\ p[2][1] = m.away /\ p[2][2] = m.left
    OBVIOUS
  <2>4. f[p] = [from |-> p[1][1], says |-> p[1][2], away |-> p[2][1], left |-> p[2][2]]
    BY <2>2, Zenon
  <2> HIDE DEF p
  <2> QED BY <2>1, <2>2, <2>3, <2>4, Zenon
<1>6. f \in Surjection(P, Messages)
  <2>1. f \in [P -> Messages]
    BY <1>4, Zenon
  <2> HIDE DEF f, P
  <2> QED BY <1>5, <2>1, Zenon DEF Surjection
<1> HIDE DEF f, P
<1> QED BY <1>3, <1>6, FS_Surjection, Zenon

LEMMA FromSignals == \A F \in SUBSET Messages : Signals(F)
BY MessagesFinite, FS_Subset, Zenon DEF Signals

\* A "leave" is the last thing a session says.
LEMMA LeavesLast ==
  ASSUME TypeInv, [Next]_vars, NEW m \in flight', m \notin flight, ~Tick, m.says = "leave"
  PROVE  status'[m.from] = "gone"
<1>1. \A s, says, isAway : m \in Signal(s, says, isAway) => m.from = s /\ says = "leave"
  <2>1. \A s, says, isAway : m \in Signal(s, says, isAway) => m = Message(s, says, isAway)
    BY Zenon DEF Signal
  <2>2. \A s, says, isAway : Message(s, says, isAway).from = s /\ Message(s, says, isAway).says = says
    BY Zenon DEF Message
  <2> QED BY <2>1, <2>2
<1>2. "here" # "leave" /\ "join" # "leave" /\ "post" # "leave"
  OBVIOUS
<1>3. ASSUME NEW n \in flight, Relay(n) PROVE FALSE
  <2>1. \E r \in Receivers(n) : m \in Signal(r, "here", FALSE)
    BY <1>3, Zenon DEF Relay, Replies
  <2> QED BY <1>1, <1>2, <2>1, Zenon
<1>4. ASSUME NEW s \in Sessions, Subscribe(s) \/ Beat(s) \/ \E isAway \in BOOLEAN : Turn(s, isAway)
      PROVE  FALSE
  BY <1>1, <1>2, <1>4, Zenon DEF Subscribe, Beat, Turn
<1>5. ASSUME NEW s \in Sessions, Post(s) PROVE FALSE
  <2>1. m = Message(s, "post", FALSE)
    BY <1>5, Zenon DEF Post
  <2> QED BY <1>2, <2>1, Zenon DEF Message
<1>6. ASSUME NEW s \in Sessions, Leave(s) PROVE status'[m.from] = "gone"
  <2>1. m.from = s
    BY <1>1, <1>6, Zenon DEF Leave
  <2>2. status' = [status EXCEPT ![s] = "gone"]
    BY <1>6, Zenon DEF Leave, Ends
  <2> QED BY <2>1, <2>2, Zenon DEF TypeInv, States
<1>7. flight' = flight => FALSE
  BY Zenon
<1>8. \A n \in flight : ~Lose(n)
  BY Zenon DEF Lose
<1> QED BY <1>3, <1>4, <1>5, <1>6, <1>7, <1>8, Zenon
        DEF Next, vars, Passes, HereFrame, Start, Cut, Away, Back, Prune, Crash

LEMMA SentStep == TypeInv /\ Sent /\ [Next]_vars => Sent'
<1> SUFFICES ASSUME TypeInv, Sent, [Next]_vars, NEW m \in flight'
             PROVE  status'[m.from] # "new" /\ (m.says = "leave" => status'[m.from] = "gone")
  BY Zenon DEF Sent
<1>1. ASSUME NEW s \in Sessions, status[s] # "new"
      PROVE  status'[s] # "new" /\ (status[s] = "gone" => status'[s] = "gone")
  BY <1>1, StatusChange DEF TypeInv
<1>2. CASE Tick
  <2>1. PICK n \in flight : m = [n EXCEPT !.left = @ - 1]
    BY <1>2, Zenon DEF Tick
  <2>2. n \in Messages
    BY Zenon DEF TypeInv, Flight
  <2>3. m.from = n.from /\ m.says = n.says /\ n.from \in Sessions
    BY <2>1, <2>2, Zenon DEF Messages
  <2> QED BY <1>1, <2>3, Zenon DEF Sent
<1>3. CASE m \in flight
  <2>1. m.from \in Sessions
    BY <1>3, Zenon DEF TypeInv, Flight, Messages
  <2> QED BY <1>1, <1>3, <2>1, Zenon DEF Sent
<1>4. CASE ~Tick /\ m \notin flight
  <2>1. PICK s \in Sessions : Up(s) /\ \E says \in {"join", "here", "leave", "post"}, isAway \in BOOLEAN :
                                         m = Message(s, says, isAway)
    BY <1>4, FlightChanges, Zenon DEF TypeInv
  <2>2. m.from = s
    BY <2>1 DEF Message
  <2>3. status[s] # "new"
    BY <2>1 DEF Up
  <2> QED BY <1>1, <1>4, <2>2, <2>3, LeavesLast, Zenon
<1> QED BY <1>2, <1>3, <1>4

\* What a step does to what a session has on its way.
Adds(s) ==
  \E x \in Messages : x.left = Delay /\ From(s)' = From(s) \cup {x}

LEMMA Added ==
  ASSUME TypeInv, NEW t \in Sessions, NEW says \in {"join", "here", "leave", "post"}, NEW isAway \in BOOLEAN,
         NEW A, A = {} \/ A = {Message(t, says, isAway)}, flight' = flight \cup A, NEW s \in Sessions
  PROVE  From(s)' = From(s) \/ (t = s /\ Adds(s))
<1> DEFINE x == Message(t, says, isAway)
<1>1. x.from = t /\ x.left = Delay
  BY Zenon DEF Message
<1>2. x \in Messages
  <2>1. Delay \in 0 .. Delay
    BY PresenceAssumption
  <2> QED BY <2>1, Zenon DEF Message, Messages
<1> HIDE DEF x
<1>3. CASE A = {} \/ t # s
  <2>1. From(s)' = From(s)
    BY <1>1, <1>3, Zenon DEF From, x
  <2> QED BY <2>1
<1>4. CASE A = {x} /\ t = s
  <2>1. From(s)' = From(s) \cup {x}
    BY <1>1, <1>4, Zenon DEF From
  <2> QED BY <1>1, <1>2, <1>4, <2>1, Zenon DEF Adds
<1> QED BY <1>3, <1>4, Zenon DEF x

SameFrom(s) == From(s)' = From(s) /\ beat'[s] = beat[s] /\ lost'[s] = lost[s]
MoreFrom(s) == /\ Adds(s) /\ lost'[s] = lost[s]
               /\ beat'[s] = beat[s] \/ (beat[s] = 0 /\ beat'[s] = HeartbeatEvery)
LessFrom(s) == /\ lost'[s] = lost[s] + 1 /\ beat'[s] = beat[s]
               /\ \E x \in From(s) : From(s)' = From(s) \ {x}

LEMMA FromChanges ==
  ASSUME TypeInv, [Next]_vars, NEW s \in Sessions, Up(s), status'[s] = "up", Visible(s), ~Tick,
         \A m \in flight : Relay(m) => m.from # s
  PROVE  SameFrom(s) \/ MoreFrom(s) \/ LessFrom(s)
<1>1. CASE UNCHANGED <<flight, beat, lost>>
  BY <1>1, Zenon DEF SameFrom, From
<1>2. ASSUME NEW m \in flight, Relay(m) PROVE SameFrom(s) \/ MoreFrom(s)
  <2>1. m.from # s /\ m.from \in Sessions
    BY <1>2, Zenon DEF TypeInv, Flight, Messages
  <2>2. lost'[s] = lost[s] /\ beat'[s] = beat[s] /\ flight' = (flight \ {m}) \cup Replies(m)
    BY <1>2, <2>1, Zenon DEF Relay, TypeInv, Clocks
  <2> DEFINE x == Message(s, "here", FALSE)
  <2>3. \A r, n : n \in Signal(r, "here", FALSE) => n.from = r /\ n = Message(r, "here", FALSE)
    <3>1. \A r : Message(r, "here", FALSE).from = r
      BY Zenon DEF Message
    <3> QED BY <3>1, Zenon DEF Signal
  <2>4. \A n \in Replies(m) : n.from = s => n = x
    BY <2>3, Zenon DEF Replies
  <2>5. x.from = s /\ x.left = Delay /\ x \in Messages
    <3>1. Delay \in 0 .. Delay
      BY PresenceAssumption
    <3> QED BY <3>1, Zenon DEF Message, Messages
  <2> HIDE DEF x
  <2>6. CASE x \in Replies(m)
    <3>1. From(s)' = From(s) \cup {x}
      BY <2>1, <2>2, <2>4, <2>5, <2>6, Zenon DEF From
    <3> QED BY <2>2, <2>5, <3>1, Zenon DEF MoreFrom, Adds
  <2>7. CASE x \notin Replies(m)
    <3>1. From(s)' = From(s)
      BY <2>1, <2>2, <2>4, <2>7, Zenon DEF From
    <3> QED BY <2>2, <3>1, Zenon DEF SameFrom
  <2> QED BY <2>6, <2>7
<1>3. ASSUME NEW m \in flight, Lose(m) PROVE SameFrom(s) \/ LessFrom(s)
  <2>1. m.from \in Sessions /\ flight' = flight \ {m} /\ beat' = beat
    BY <1>3, Zenon DEF Lose, TypeInv, Flight, Messages
  <2>2. CASE m.from = s
    <3>1. lost[s] < LossRun
      <4>1. status[s] # "gone"
        BY DEF Up
      <4> QED BY <1>3, <2>2, <4>1, Zenon DEF Lose
    <3>2. lost'[s] = lost[s] + 1
      BY <1>3, <2>1, <2>2, <3>1, Zenon DEF Lose, TypeInv, Clocks
    <3>3. m \in From(s) /\ From(s)' = From(s) \ {m}
      BY <2>1, <2>2, Zenon DEF From
    <3> QED BY <2>1, <3>2, <3>3, Zenon DEF LessFrom
  <2>3. CASE m.from # s
    <3>1. lost'[s] = lost[s]
      BY <1>3, <2>1, <2>3, Zenon DEF Lose, TypeInv, Clocks
    <3>2. From(s)' = From(s)
      BY <2>1, <2>3, Zenon DEF From
    <3> QED BY <2>1, <3>1, <3>2, Zenon DEF SameFrom
  <2> QED BY <2>2, <2>3
<1>4. ASSUME NEW t \in Sessions, Subscribe(t) \/ Post(t) \/ \E isAway \in BOOLEAN : Turn(t, isAway)
      PROVE  SameFrom(s) \/ MoreFrom(s)
  <2> DEFINE Says(says, isAway) == \E A : (A = {} \/ A = {Message(t, says, isAway)}) /\ flight' = flight \cup A
  <2>1. \E says \in {"join", "here", "leave", "post"}, isAway \in BOOLEAN : Says(says, isAway)
    <3>1. CASE Subscribe(t)
      <4>1. Says("join", FALSE)
        BY <3>1, Zenon DEF Subscribe, Signal
      <4> QED BY <4>1, Zenon
    <3>2. CASE Post(t)
      <4>1. Says("post", FALSE)
        BY <3>2, Zenon DEF Post
      <4> QED BY <4>1, Zenon
    <3>3. CASE \E isAway \in BOOLEAN : Turn(t, isAway)
      <4>1. \E isAway \in BOOLEAN : Says("here", isAway)
        BY <3>3, Zenon DEF Turn, Signal
      <4> QED BY <4>1, Zenon
    <3> QED BY <1>4, <3>1, <3>2, <3>3
  <2>2. From(s)' = From(s) \/ Adds(s)
    BY <2>1, Added, Zenon
  <2>3. beat'[s] = beat[s] /\ lost'[s] = lost[s]
    BY <1>4, Zenon DEF Subscribe, Post, Turn
  <2> QED BY <2>2, <2>3, Zenon DEF SameFrom, MoreFrom
<1>5. ASSUME NEW t \in Sessions, Beat(t) PROVE SameFrom(s) \/ MoreFrom(s)
  <2>1. away[t] \in BOOLEAN
    BY Zenon DEF TypeInv, Marks
  <2>2. Signal(t, "here", away[t]) = {} \/ Signal(t, "here", away[t]) = {Message(t, "here", away[t])}
    BY Zenon DEF Signal
  <2>3. CASE t # s
    <3>1. From(s)' = From(s)
      BY <1>5, <2>1, <2>2, <2>3, Added, Zenon DEF Beat
    <3>2. lost'[s] = lost[s] /\ beat'[s] = beat[s]
      BY <1>5, <2>3, Zenon DEF Beat, TypeInv, Clocks
    <3> QED BY <3>1, <3>2, Zenon DEF SameFrom
  <2>4. CASE t = s
    <3> DEFINE x == Message(s, "here", away[s])
    <3>1. flight' = flight \cup {x}
      BY <1>5, <2>4, Zenon DEF Beat, Signal, Visible
    <3>2. x.from = s /\ x.left = Delay /\ x \in Messages
      <4>1. Delay \in 0 .. Delay
        BY PresenceAssumption
      <4> QED BY <2>1, <2>4, <4>1, Zenon DEF Message, Messages
    <3>3. From(s)' = From(s) \cup {x}
      <4> HIDE DEF x
      <4> QED BY <3>1, <3>2, Zenon DEF From
    <3>4. lost'[s] = lost[s] /\ beat[s] = 0 /\ beat'[s] = HeartbeatEvery
      BY <1>5, <2>4, Zenon DEF Beat, TypeInv, Clocks
    <3> HIDE DEF x
    <3> QED BY <3>2, <3>3, <3>4, Zenon DEF MoreFrom, Adds
  <2> QED BY <2>3, <2>4
<1>6. ASSUME NEW t \in Sessions, Start(t) \/ Leave(t) \/ Crash(t)
      PROVE  SameFrom(s) \/ MoreFrom(s)
  <2>1. t # s
    <3>1. "new" # "up" /\ "gone" # "up"
      OBVIOUS
    <3> QED BY <1>6, <3>1, Zenon DEF Start, Leave, Crash, Ends, Up, TypeInv, States
  <2>2. \E A : (A = {} \/ A = {Message(t, "leave", FALSE)}) /\ flight' = flight \cup A
    <3>1. flight = flight \cup {}
      OBVIOUS
    <3> QED BY <1>6, <3>1, Zenon DEF Start, Leave, Crash, Signal
  <2>3. From(s)' = From(s)
    BY <2>1, <2>2, Added, Zenon
  <2>4. lost'[s] = lost[s] /\ beat'[s] = beat[s]
    BY <1>6, <2>1, Zenon DEF Start, Leave, Crash, Ends, TypeInv, Clocks
  <2> QED BY <2>3, <2>4, Zenon DEF SameFrom
<1> QED BY <1>1, <1>2, <1>3, <1>4, <1>5, <1>6, Zenon
        DEF Next, vars, Passes, HereFrame, Cut, Away, Back, Prune

\* Where the entry a reader has after a step comes from.
FromSignal(r, s) ==
  /\ \E m \in flight : /\ m.from = s /\ r \in Receivers(m) /\ Counts(r, m)
                       /\ m.says # "leave"
  /\ peers'[r][Sid[s]].by = By[s] /\ peers'[r][Sid[s]].age = 0
Aged(r, s) ==
  /\ Tick /\ Lists(r, s)
  /\ peers'[r][Sid[s]].by = peers[r][Sid[s]].by
  /\ peers'[r][Sid[s]].age = peers[r][Sid[s]].age + 1
Stays(r, s) ==
  /\ ~Tick /\ peers'[r][Sid[s]] = peers[r][Sid[s]] /\ Lists(r, s)
  /\ \A m \in flight : Relay(m) /\ m.from = s => ~(r \in Receivers(m) /\ Counts(r, m))

LEMMA EntryChanges ==
  ASSUME Steadfast, TypeInv, [Next]_vars, NEW r \in Sessions, NEW s \in Sessions, peers'[r][Sid[s]].known
  PROVE  FromSignal(r, s) \/ Aged(r, s) \/ Stays(r, s)
<1> DEFINE i == Sid[s]
<1>1. /\ peers \in [Sessions -> [Sids -> Entry(Nat)]] /\ peers[r] \in [Sids -> Entry(Nat)]
      /\ i \in Sids /\ peers[r][i] \in Entry(Nat)
  BY Persons, Zenon DEF TypeInv, Peers
<1>2. \A m \in flight : m.from \in Sessions
  BY Zenon DEF TypeInv, Flight, Messages
<1>3. ASSUME NEW m \in flight, Relay(m), m.from = s, r \in Receivers(m), Counts(r, m)
      PROVE  FromSignal(r, s)
  <2>1. peers'[r] = SeenPeers(r, m)
    BY <1>3, Zenon DEF Relay
  <2>2. m.says # "leave"
    <3>1. ASSUME m.says = "leave" PROVE peers'[r][i] = Unknown
      BY <1>1, <1>3, <2>1, <3>1, Zenon DEF SeenPeers
    <3> QED BY <3>1, Blank, Zenon
  <2>3. \E a : peers'[r][i] = [known |-> TRUE, by |-> By[s], age |-> 0, away |-> a]
    BY <1>1, <1>3, <2>1, <2>2, Zenon DEF SeenPeers
  <2>4. \A a : /\ [known |-> TRUE, by |-> By[s], age |-> 0, away |-> a].by = By[s]
               /\ [known |-> TRUE, by |-> By[s], age |-> 0, away |-> a].age = 0
    OBVIOUS
  <2>5. peers'[r][i].by = By[s] /\ peers'[r][i].age = 0
    BY <2>3, <2>4, Zenon
  <2> QED BY <1>3, <2>2, <2>5, Zenon DEF FromSignal
<1>4. ASSUME ~Tick, NEW m \in flight, Relay(m), ~(m.from = s /\ r \in Receivers(m) /\ Counts(r, m))
      PROVE  peers'[r][i] = peers[r][i]
  <2>1. CASE r \in Receivers(m) /\ Counts(r, m)
    <3>1. Sid[m.from] # i
      BY <1>2, <1>4, <2>1, Zenon DEF Steadfast
    <3> QED BY <1>1, <1>4, <2>1, <3>1, Zenon DEF Relay, SeenPeers
  <2>2. CASE ~(r \in Receivers(m) /\ Counts(r, m))
    BY <1>4, <2>2, Zenon DEF Relay
  <2> QED BY <2>1, <2>2
<1>5. ASSUME NEW t \in Sessions, Prune(t) \/ Ends(t) PROVE peers'[r][i] = peers[r][i]
  <2>1. CASE t # r
    BY <1>1, <1>5, <2>1, Zenon DEF Prune, Ends
  <2>2. CASE t = r /\ Prune(r)
    <3>1. peers'[r][i] = IF Stale(peers[r][i]) THEN Unknown ELSE peers[r][i]
      BY <1>1, <2>2, Zenon DEF Prune
    <3> QED BY <3>1, Blank, Zenon
  <2>3. CASE t = r /\ Ends(r)
    <3>1. peers'[r] = Nobody
      BY <1>1, <2>3, Zenon DEF Ends
    <3> QED BY <3>1, <1>1, Blank, Zenon
  <2> QED BY <1>5, <2>1, <2>2, <2>3
<1>6. CASE Tick
  <2>1. peers'[r][i] = Older(peers[r][i])
    BY <1>1, <1>6, Zenon DEF Tick
  <2>2. peers[r][i].known /\ peers'[r][i].age = peers[r][i].age + 1
    BY <1>1, <2>1, OlderEntry, Zenon
  <2>3. peers'[r][i].by = peers[r][i].by
    BY <1>1, <2>1, <2>2, Zenon DEF Older, Entry
  <2> QED BY <1>6, <2>2, <2>3, Zenon DEF Aged, Lists
<1>7. CASE ~Tick /\ peers'[r][i] = peers[r][i]
  <2>1. CASE \E m \in flight : Relay(m) /\ m.from = s /\ r \in Receivers(m) /\ Counts(r, m)
    BY <1>3, <2>1, Zenon
  <2>2. CASE ~ \E m \in flight : Relay(m) /\ m.from = s /\ r \in Receivers(m) /\ Counts(r, m)
    <3>1. peers[r][Sid[s]].known
      BY <1>7, Zenon
    <3> QED BY <1>7, <2>2, <3>1, Zenon DEF Stays, Lists
  <2> QED BY <2>1, <2>2
<1>8. ASSUME ~Tick, peers'[r][i] # peers[r][i] PROVE FromSignal(r, s)
  <2>1. \E m \in flight : Relay(m)
    <3>1. \A t \in Sessions : HereFrame(t) => peers'[r][i] = peers[r][i]
      BY Zenon DEF HereFrame
    <3> QED BY PeersChange, <1>5, <1>8, <3>1, Zenon
  <2> QED BY <1>3, <1>4, <1>8, <2>1, Zenon
<1> QED BY <1>6, <1>7, <1>8

\* Who reads goes on reading as long as they are up.
LEMMA ReadsOn ==
  ASSUME Steadfast, TypeInv, [Next]_vars, NEW r \in Sessions, Reads(r), status'[r] = "up"
  PROVE  link'[r] # "down"
<1>1. \A t \in Sessions : ~Cut(t)
  BY DEF Cut, TypeInv, Budgets, Steadfast
<1>2. "fresh" # "down" /\ "open" # "down" /\ "gone" # "up"
  OBVIOUS
<1>3. ASSUME NEW t \in Sessions, Start(t) \/ Subscribe(t) \/ HereFrame(t) PROVE link'[r] # "down"
  BY <1>2, <1>3, Zenon DEF Start, Subscribe, HereFrame, Reads, TypeInv, States
<1>4. ASSUME NEW t \in Sessions, Ends(t) PROVE link'[r] # "down"
  <2>1. t # r
    BY <1>2, <1>4, Zenon DEF Ends, TypeInv, States
  <2> QED BY <1>4, <2>1, Zenon DEF Ends, Reads, TypeInv, States
<1> QED BY StatesChange, <1>1, <1>3, <1>4, Zenon DEF Reads

LEMMA StartedStays ==
  ASSUME TypeInv, [Next]_vars, NEW s \in Sessions, status[s] # "new"
  PROVE  status'[s] # "new" /\ (status'[s] = "up" => Up(s))
BY StatusChange DEF TypeInv, Up

LEMMA HeardStep ==
  ASSUME Steadfast, TypeInv, AgeLaw', OnlyPosts, Sent, [Next]_vars,
         NEW r \in Sessions, NEW s \in Sessions, Heard(r, s)
  PROVE  Heard(r, s)'
<1> SUFFICES ASSUME peers'[r][Sid[s]].known
             PROVE  /\ status'[r] = "up" /\ link'[r] # "down" /\ Sid[r] # Sid[s] /\ Visible(s)
                    /\ status'[s] # "new" /\ peers'[r][Sid[s]].by = By[s]
  BY Zenon DEF Heard, Lists, Reads, Up, Visible
<1>1. status'[r] = "up"
  <2>1. status'[r] # "up" => peers'[r] = Nobody
    BY Zenon DEF AgeLaw, Up
  <2> QED BY <2>1, Blank, Persons, Zenon
<1>2. CASE Lists(r, s) /\ peers'[r][Sid[s]].by = peers[r][Sid[s]].by
  <2>1. Reads(r) /\ Sid[r] # Sid[s] /\ Visible(s) /\ status[s] # "new" /\ peers[r][Sid[s]].by = By[s]
    BY <1>2, Zenon DEF Heard
  <2>2. peers'[r][Sid[s]].by = By[s]
    BY <1>2, <2>1
  <2> QED BY <1>1, <2>1, <2>2, ReadsOn, StartedStays, Zenon
<1>3. CASE FromSignal(r, s)
  <2>1. PICK m \in flight : m.from = s /\ r \in Receivers(m) /\ Counts(r, m)
    BY <1>3, Zenon DEF FromSignal
  <2>2. Reads(r) /\ Sid[r] # Sid[s]
    BY <2>1, Zenon DEF Receivers
  <2>3. status[s] # "new"
    BY <2>1, Zenon DEF Sent
  <2>4. Visible(s)
    <3>1. CASE m.says = "post"
      <4>1. Lists(r, s)
        BY <2>1, <3>1, Zenon DEF Counts, Lists
      <4> QED BY <4>1, Zenon DEF Heard
    <3>2. CASE m.says # "post"
      BY <2>1, <3>2, Zenon DEF Counts, Hidden, OnlyPosts, Visible
    <3> QED BY <3>1, <3>2
  <2>5. peers'[r][Sid[s]].by = By[s]
    BY <1>3, Zenon DEF FromSignal
  <2> QED BY <1>1, <2>2, <2>3, <2>4, <2>5, ReadsOn, StartedStays, Zenon
<1> QED BY EntryChanges, <1>2, <1>3, Zenon DEF Aged, Stays

LEMMA InTimeStep ==
  ASSUME Steadfast, TypeInv, TypeInv', Sent, [Next]_vars,
         NEW r \in Sessions, NEW s \in Sessions, Heard(r, s), InTime(r, s)
  PROVE  InTime(r, s)'
<1> DEFINE age  == peers[r][Sid[s]].age
           age2 == peers'[r][Sid[s]].age
<1> SUFFICES ASSUME peers'[r][Sid[s]].known, status'[s] = "up"
             PROVE  Within(age2, lost'[s], beat'[s], From(s)')
  BY Zenon DEF InTime, Lists, Up, Within, Earlier, Allowance
<1>1. age \in Nat /\ beat[s] \in Nat /\ lost[s] \in Nat
  BY AgesTyped, Persons DEF TypeInv, Clocks
<1>2. beat'[s] \in Nat /\ beat'[s] <= HeartbeatEvery /\ lost'[s] \in Nat
  BY PresenceAssumption DEF TypeInv, Clocks
<1>3. Signals(From(s)) /\ Signals(From(s)')
  <2>1. From(s) \in SUBSET Messages /\ From(s)' \in SUBSET Messages
    BY Zenon DEF TypeInv, Flight, From
  <2> QED BY <2>1, FromSignals, Zenon
<1> HIDE DEF age, age2
<1>4. CASE FromSignal(r, s)
  <2>1. age2 = 0
    BY <1>4, Zenon DEF FromSignal, age2
  <2> QED BY <1>2, <1>3, <2>1, WithinFresh, Zenon
<1>5. ASSUME Lists(r, s)
      PROVE  Up(s) /\ Visible(s) /\ Within(age, lost[s], beat[s], From(s))
  <2>1. status[s] # "new" /\ Visible(s)
    BY <1>5, Zenon DEF Heard
  <2>2. Up(s)
    BY <2>1, StartedStays, Zenon
  <2> QED BY <1>5, <2>1, <2>2, Zenon DEF InTime, age
<1>6. CASE Aged(r, s)
  <2>1. Up(s) /\ Within(age, lost[s], beat[s], From(s)) /\ Tick
    BY <1>5, <1>6, Zenon DEF Aged
  <2>2. age2 = age + 1
    BY <1>6, Zenon DEF Aged, age, age2
  <2>3. beat[s] > 0 /\ beat'[s] = beat[s] - 1 /\ lost'[s] = lost[s] /\ \A m \in From(s) : m.left > 0
    BY <2>1, Zenon DEF Tick, From
  <2>4. From(s)' = {Sooner(m) : m \in From(s)}
    <3>1. flight' = {Sooner(m) : m \in flight}
      BY <2>1, Zenon DEF Tick, Sooner
    <3>2. \A m \in flight : Sooner(m).from = m.from
      BY Zenon DEF Sooner, TypeInv, Flight, Messages
    <3> QED BY <3>1, <3>2, Zenon DEF From
  <2>5. Within(age + 1, lost[s], beat[s] - 1, {Sooner(m) : m \in From(s)})
    BY <1>1, <1>3, <2>1, <2>3, WithinTick, Zenon
  <2> QED BY <2>2, <2>3, <2>4, <2>5, Zenon
<1>7. CASE Stays(r, s)
  <2>1. Up(s) /\ Visible(s) /\ Within(age, lost[s], beat[s], From(s)) /\ ~Tick /\ Lists(r, s)
    BY <1>5, <1>7, Zenon DEF Stays
  <2>2. age2 = age
    BY <1>7, Zenon DEF Stays, age, age2
  <2>3. \A m \in flight : Relay(m) => m.from # s
    <3> SUFFICES ASSUME NEW m \in flight, Relay(m), m.from = s PROVE FALSE
      BY Zenon
    <3>1. Reads(r) /\ Sid[r] # Sid[s] /\ peers[r][Sid[s]].by = By[s]
      BY <2>1, Zenon DEF Heard
    <3>2. r \in Receivers(m)
      BY <3>1, Zenon DEF Receivers
    <3>3. ~Hidden(m)
      BY <2>1, Zenon DEF Hidden, Visible
    <3>4. Counts(r, m)
      BY <2>1, <3>1, <3>3, Zenon DEF Counts, Lists
    <3> QED BY <1>7, <3>2, <3>4, Zenon DEF Stays
  <2>4. CASE SameFrom(s)
    BY <2>1, <2>2, <2>4, Zenon DEF SameFrom
  <2>5. CASE MoreFrom(s)
    <3>1. PICK x \in Messages : x.left = Delay /\ From(s)' = From(s) \cup {x}
      BY <2>5, Zenon DEF MoreFrom, Adds
    <3>2. /\ Within(age, lost[s], beat[s], From(s) \cup {x})
          /\ beat[s] = 0 => Within(age, lost[s], HeartbeatEvery, From(s) \cup {x})
      BY <1>1, <1>3, <2>1, <3>1, WithinLater, Zenon
    <3> QED BY <2>2, <2>5, <3>1, <3>2, Zenon DEF MoreFrom
  <2>6. CASE LessFrom(s)
    <3>1. PICK x \in From(s) : From(s)' = From(s) \ {x}
      BY <2>6, Zenon DEF LessFrom
    <3>2. Within(age, lost[s] + 1, beat[s], From(s) \ {x})
      BY <1>1, <1>3, <2>1, WithinLost, Zenon
    <3> QED BY <2>2, <2>6, <3>1, <3>2, Zenon DEF LessFrom
  <2> QED BY <2>1, <2>3, <2>4, <2>5, <2>6, FromChanges, Zenon
<1> QED BY EntryChanges, <1>4, <1>6, <1>7, Zenon

\* Whoever is in time is not too old for the heartbeat.
LEMMA NotStale ==
  ASSUME Steadfast, TypeInv, NEW r \in Sessions, NEW s \in Sessions, Lists(r, s), Up(s), InTime(r, s)
  PROVE  ~Stale(peers[r][Sid[s]])
<1> DEFINE age == peers[r][Sid[s]].age
           first == Allowance(lost[s] + 1)
           last  == Allowance(LossRun + 1)
<1>1. age \in Nat /\ beat[s] \in Nat /\ lost[s] \in Nat /\ lost[s] <= LossRun
  BY AgesTyped, Persons, PresenceAssumption DEF TypeInv, Clocks
<1>2. Signals(From(s))
  <2>1. From(s) \in SUBSET Messages
    BY Zenon DEF TypeInv, Flight, From
  <2> QED BY <2>1, FromSignals, Zenon
<1>3. Within(age, lost[s], beat[s], From(s))
  BY Zenon DEF InTime
<1> HIDE DEF age
<1>4. age <= first + Delay
  BY <1>1, <1>2, <1>3, WithinBounds, Zenon
<1>5. first \in Nat /\ last \in Nat /\ first <= last
  <2>1. lost[s] + 1 \in Nat /\ LossRun + 1 \in Nat /\ lost[s] + 1 <= LossRun + 1
    BY <1>1, PresenceAssumption
  <2> QED BY <2>1, Allowances, Zenon
<1>6. PeerTimeout >= last + Delay
  BY Zenon DEF Steadfast
<1> HIDE DEF first, last
<1>7. ~(age > PeerTimeout)
  BY <1>1, <1>4, <1>5, <1>6, PresenceAssumption
<1> QED BY <1>7, Zenon DEF Stale, age

LEMMA KeptStep ==
  ASSUME Steadfast, TypeInv, KeepInv, [Next]_vars,
         NEW r \in Sessions, NEW s \in Sessions, Lists(r, s), Up(r)', Up(s)'
  PROVE  Lists(r, s)'
<1> DEFINE i == Sid[s]
<1> SUFFICES ASSUME ~peers'[r][i].known PROVE FALSE
  BY Zenon DEF Lists
<1>1. /\ peers \in [Sessions -> [Sids -> Entry(Nat)]] /\ peers[r] \in [Sids -> Entry(Nat)]
      /\ i \in Sids /\ peers[r][i] \in Entry(Nat) /\ peers[r][i].known
  BY Persons, Zenon DEF TypeInv, Peers, Lists
<1>2. Heard(r, s) /\ InTime(r, s) /\ Sent
  BY Zenon DEF KeepInv
<1>3. status'[r] = "up" /\ status'[s] = "up" /\ Up(s)
  <2>1. status'[r] = "up" /\ status'[s] = "up" /\ status[s] # "new"
    BY <1>2, Zenon DEF Up, Heard
  <2> QED BY <2>1, StartedStays, Zenon
<1>4. ASSUME NEW m \in flight, Relay(m) PROVE FALSE
  <2>1. m.from \in Sessions
    BY Zenon DEF TypeInv, Flight, Messages
  <2>2. r \in Receivers(m) /\ Counts(r, m)
    BY <1>1, <1>4, Zenon DEF Relay
  <2>3. peers'[r] = SeenPeers(r, m)
    BY <1>4, <2>2, Zenon DEF Relay
  <2>4. Sid[m.from] = i
    BY <1>1, <2>3, Zenon DEF SeenPeers
  <2>5. m.from = s
    BY <2>1, <2>4, Zenon DEF Steadfast
  <2>6. m.says = "leave"
    <3>1. ASSUME m.says # "leave"
          PROVE  \E a : peers'[r][i] = [known |-> TRUE, by |-> By[m.from], age |-> 0, away |-> a]
      BY <1>1, <2>3, <2>4, <3>1, Zenon DEF SeenPeers
    <3>2. \A a : [known |-> TRUE, by |-> By[m.from], age |-> 0, away |-> a].known
      OBVIOUS
    <3> QED BY <3>1, <3>2, Zenon
  <2>7. status[s] = "gone" /\ "gone" # "up"
    BY <1>2, <2>5, <2>6 DEF Sent
  <2> QED BY <1>3, <2>7, Zenon DEF Up
<1>5. ASSUME NEW t \in Sessions, Prune(t) PROVE FALSE
  <2>1. peers'[r][i] = peers[r][i] \/ Stale(peers[r][i])
    BY <1>1, <1>5, Zenon DEF Prune
  <2>2. ~Stale(peers[r][i])
    BY <1>2, <1>3, NotStale, Zenon
  <2> QED BY <1>1, <2>1, <2>2, Zenon
<1>6. ASSUME NEW t \in Sessions, Ends(t) PROVE FALSE
  <2>1. t # r
    <3>1. "gone" # "up"
      OBVIOUS
    <3> QED BY <1>3, <1>6, <3>1, Zenon DEF Ends, TypeInv, States
  <2> QED BY <1>1, <1>6, <2>1, Zenon DEF Ends
<1>7. CASE Tick
  <2>1. peers'[r][i] = Older(peers[r][i])
    BY <1>1, <1>7, Zenon DEF Tick
  <2> QED BY <1>1, <2>1, OlderEntry, Zenon
<1>8. ASSUME NEW t \in Sessions, HereFrame(t) PROVE FALSE
  BY <1>1, <1>8, Zenon DEF HereFrame
<1>9. UNCHANGED <<peers, served>> => FALSE
  BY <1>1, Zenon
<1> QED BY PeersChange, <1>4, <1>5, <1>6, <1>7, <1>8, <1>9, Zenon

\* Nobody who is listed and still here is dropped, for any sessions and timing
\* under Steadfast (App.heartbeat, heartbeatEvery, peerTimeout).
THEOREM NobodyDropped ==
  ASSUME Steadfast
  PROVE  Spec => Kept
<1>1. Init => KeepInv /\ OnlyPosts
  <2>1. ASSUME Init PROVE KeepInv /\ OnlyPosts
    <3>1. flight = {} /\ \A r, s \in Sessions : ~Lists(r, s)
      BY <2>1, Blank, Persons, Zenon DEF Init, Lists
    <3> QED BY <3>1, Zenon DEF KeepInv, OnlyPosts, Sent, Heard, InTime
  <2> QED BY <2>1
<1>2. TypeInv /\ PresenceInv /\ TypeInv' /\ PresenceInv' /\ KeepInv /\ OnlyPosts /\ [Next]_vars
        => KeepInv' /\ OnlyPosts'
  <2>1. ASSUME TypeInv, PresenceInv, TypeInv', PresenceInv', KeepInv, OnlyPosts, [Next]_vars
        PROVE  KeepInv' /\ OnlyPosts'
    <3>1. Sent' /\ OnlyPosts'
      BY <2>1, SentStep, OnlyPostsStep, Zenon DEF KeepInv
    <3>2. AgeLaw'
      BY <2>1, Zenon DEF PresenceInv
    <3>3. ASSUME NEW r \in Sessions, NEW s \in Sessions PROVE Heard(r, s)' /\ InTime(r, s)'
      <4>1. Heard(r, s) /\ InTime(r, s) /\ Sent
        BY <2>1, Zenon DEF KeepInv
      <4> QED BY <2>1, <3>2, <4>1, HeardStep, InTimeStep, Zenon
    <3> QED BY <3>1, <3>3, Zenon DEF KeepInv
  <2> QED BY <2>1
<1>3. TypeInv /\ KeepInv /\ [Next]_vars =>
        [\A r, s \in Sessions : Lists(r, s) => Lists(r, s)' \/ ~Up(r)' \/ ~Up(s)']_vars
  BY KeptStep, Zenon
<1> QED BY <1>1, <1>2, <1>3, Laws, PTL DEF Spec, Kept
================================================================================
