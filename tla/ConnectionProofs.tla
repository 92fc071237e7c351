--------------------------- MODULE ConnectionProofs ---------------------------
(***************************************************************************)
(* Theorems about Connection, for all flags and any number of changes in   *)
(* the world: types, the online mark, the waits between attempts, that     *)
(* only a block ends a reader that has been in the room, and that nobody   *)
(* at a terminal is turned away before being asked three times.            *)
(***************************************************************************)
EXTENDS Connection, TLAPS

\* The two halves of TypeOK: the Boolean variables, and the others.
Flags ==
  /\ up \in BOOLEAN /\ locked \in BOOLEAN /\ givenWorks \in BOOLEAN /\ canceled \in BOOLEAN
  /\ identified \in BOOLEAN /\ online \in BOOLEAN /\ joined \in BOOLEAN /\ closed \in BOOLEAN
  /\ everClosed \in BOOLEAN /\ everBanned \in BOOLEAN
Values ==
  /\ room \in {"open", "closed", "banned"} /\ changes \in 0 .. MaxChanges
  /\ main \in Mains /\ loop \in Loops /\ watch \in Watches
  /\ key \in {"none", "wrong", "right"} /\ asks \in 0 .. MaxAsks
  /\ link \in Links /\ mark \in {"nobody", "visible", "hidden"}
  /\ ticket \in {"nobody", "visible", "hidden"}
  /\ backoff \in {1, 2, 4, 8, 16, 30} /\ lastErr \in {"none", "network", "password"}
  /\ status \in {-1, 0, 1, 130, Killed} /\ failures \in 0 .. 6

\* The password is asked for only while it has been asked for less than three
\* times, which keeps the count within its bound.
AskedAgain == main = "ask" => asks # MaxAsks

TypeInv == Flags /\ Values /\ AskedAgain

LEMMA TypeStart == Init => TypeInv
<1>1. Init => Flags
  BY ConnectionAssumption, Zenon DEF Init, Fresh, Flags
<1>2. Init => Values /\ AskedAgain
  BY ConnectionAssumption DEF Init, Fresh, Values, AskedAgain, Mains, Loops, Watches, Links, MaxAsks
<1> QED BY <1>1, <1>2 DEF TypeInv

LEMMA TypeStep == TypeInv /\ [Next]_vars => TypeInv'
<1> SUFFICES ASSUME Flags, Values, AskedAgain, [Next]_vars PROVE TypeInv'
  BY DEF TypeInv
<1> USE ConnectionAssumption DEF world, process, subscription
<1> USE DEF Mains, Loops, Links, Watches, MaxAsks, Killed
<1>1. CASE Environment
  <2>1. CASE ServerDown
    <3>1. Flags'
      BY <2>1, Zenon DEF Flags, ServerDown, Change, LinkCut, StaysAsItIs
    <3>2. Values' /\ AskedAgain'
      BY <2>1, SMT DEF Values, AskedAgain, ServerDown, Change, LinkCut, StaysAsItIs
    <3> QED BY <3>1, <3>2 DEF TypeInv
  <2>2. CASE ServerUp
    <3>1. Flags'
      BY <2>2, Zenon DEF Flags, ServerUp, Change, StaysAsItIs
    <3>2. Values' /\ AskedAgain'
      BY <2>2, SMT DEF Values, AskedAgain, ServerUp, Change, StaysAsItIs
    <3> QED BY <3>1, <3>2 DEF TypeInv
  <2>3. CASE LinkBreaks
    <3>1. Flags'
      BY <2>3, Zenon DEF Flags, LinkBreaks, Change, LinkCut, StaysAsItIs
    <3>2. Values' /\ AskedAgain'
      BY <2>3, SMT DEF Values, AskedAgain, LinkBreaks, Change, LinkCut, StaysAsItIs
    <3> QED BY <3>1, <3>2 DEF TypeInv
  <2>4. CASE Reopened
    <3>1. Flags'
      BY <2>4, Zenon DEF Flags, Reopened, Change, StaysAsItIs
    <3>2. Values' /\ AskedAgain'
      BY <2>4, SMT DEF Values, AskedAgain, Reopened, Change, StaysAsItIs
    <3> QED BY <3>1, <3>2 DEF TypeInv
  <2>5. CASE Locked
    <3>1. Flags'
      BY <2>5, Zenon DEF Flags, Locked, Change
    <3>2. Values' /\ AskedAgain'
      BY <2>5, SMT DEF Values, AskedAgain, Locked, Change
    <3> QED BY <3>1, <3>2 DEF TypeInv
  <2>6. ASSUME NEW how \in {"closed", "banned"}, Blocked(how) PROVE TypeInv'
    <3>1. Flags'
      BY <2>6, Zenon DEF Flags, Blocked, Change, StaysAsItIs
    <3>2. Values' /\ AskedAgain'
      BY <2>6, SMT DEF Values, AskedAgain, Blocked, Change, StaysAsItIs
    <3> QED BY <3>1, <3>2 DEF TypeInv
  <2>7. CASE Signalled
    <3>1. Flags'
      BY <2>7, Zenon DEF Flags, Signalled, Change
    <3>2. Values' /\ AskedAgain'
      BY <2>7, SMT DEF Values, AskedAgain, Signalled, Change
    <3> QED BY <3>1, <3>2 DEF TypeInv
  <2> QED BY <1>1, <2>1, <2>2, <2>3, <2>4, <2>5, <2>6, <2>7 DEF Environment
<1>2. CASE SignIn
  <2>1. Flags'
    BY <1>2, Zenon DEF Flags, SignIn, NotRunningYet, End
  <2>2. Values' /\ AskedAgain'
    BY <1>2, SMT DEF Values, AskedAgain, SignIn, NotRunningYet, End
  <2> QED BY <2>1, <2>2 DEF TypeInv
<1>3. CASE EndsEarly
  <2>1. Flags'
    BY <1>3, Zenon DEF Flags, EndsEarly, End
  <2>2. Values' /\ AskedAgain'
    BY <1>3, SMT DEF Values, AskedAgain, EndsEarly, End
  <2> QED BY <2>1, <2>2 DEF TypeInv
<1>4. CASE Knock
  <2>1. Flags'
    BY <1>4, Zenon DEF Flags, Knock, GivesUp, NotRunningYet, End
  <2>2. Values' /\ AskedAgain'
    BY <1>4, SMT DEF Values, AskedAgain, Knock, GivesUp, NotRunningYet, End
  <2> QED BY <2>1, <2>2 DEF TypeInv
<1>5. ASSUME NEW k \in {"wrong", "right"}, TypePassword(k) PROVE TypeInv'
  <2>1. Flags'
    BY <1>5, Zenon DEF Flags, TypePassword
  <2>2. Values' /\ AskedAgain'
    BY <1>5, SMT DEF Values, AskedAgain, TypePassword
  <2> QED BY <2>1, <2>2 DEF TypeInv
<1>6. CASE LeavePrompt
  <2>1. Flags'
    BY <1>6, Zenon DEF Flags, LeavePrompt, End
  <2>2. Values' /\ AskedAgain'
    BY <1>6, SMT DEF Values, AskedAgain, LeavePrompt, End
  <2> QED BY <2>1, <2>2 DEF TypeInv
<1>7. ASSUME NEW err \in {"network", "password", "closed", "banned"}, Fails(err) PROVE TypeInv'
  <2>1. Flags'
    BY <1>7, Zenon DEF Flags, Fails, Least
  <2>2. Values' /\ AskedAgain'
    BY <1>7, SMT DEF Values, AskedAgain, Fails, Least
  <2> QED BY <2>1, <2>2 DEF TypeInv
<1>8. CASE LoopInitialize
  <2>1. Answer \in {"network", "password", "closed", "banned", "ok"}
    BY DEF Answer, Values
  <2>2. ASSUME Goes("ticket"), UNCHANGED ticket PROVE TypeInv'
    <3>1. Flags'
      BY <2>2, Zenon DEF Flags, Goes
    <3>2. Values' /\ AskedAgain'
      BY <2>2, SMT DEF Values, AskedAgain, Goes
    <3> QED BY <3>1, <3>2 DEF TypeInv
  <2> QED BY <1>8, <1>7, <2>1, <2>2 DEF LoopInitialize
<1>9. CASE LoopTicket
  <2>1. Flags'
    BY <1>9, Zenon DEF Flags, LoopTicket, Goes
  <2>2. Values' /\ AskedAgain'
    BY <1>9, SMT DEF Values, AskedAgain, LoopTicket, Goes
  <2> QED BY <2>1, <2>2 DEF TypeInv
<1>10. CASE LoopDial
  <2>1. CASE Fails("network")
    BY <2>1, <1>7
  <2>2. CASE ~Fails("network")
    <3>1. Flags'
      BY <1>10, <2>2, Zenon DEF Flags, LoopDial
    <3>2. Values' /\ AskedAgain'
      BY <1>10, <2>2, SMT DEF Values, AskedAgain, LoopDial
    <3> QED BY <3>1, <3>2 DEF TypeInv
  <2> QED BY <2>1, <2>2
<1>11. CASE LoopReadFails
  BY <1>11, <1>7 DEF LoopReadFails
<1>12. CASE LoopWaits
  <2>1. Flags'
    BY <1>12, Zenon DEF Flags, LoopWaits, NextWait, Least
  <2>2. Values' /\ AskedAgain'
    BY <1>12, SMT DEF Values, AskedAgain, LoopWaits, NextWait, Least
  <2> QED BY <2>1, <2>2 DEF TypeInv
<1>13. CASE PingTimesOut
  <2>1. Flags'
    BY <1>13, Zenon DEF Flags, PingTimesOut
  <2>2. Values' /\ AskedAgain'
    BY <1>13, SMT DEF Values, AskedAgain, PingTimesOut
  <2> QED BY <2>1, <2>2 DEF TypeInv
<1>14. CASE WatchWakes
  <2>1. Flags'
    BY <1>14, Zenon DEF Flags, WatchWakes
  <2>2. Values' /\ AskedAgain'
    BY <1>14, SMT DEF Values, AskedAgain, WatchWakes
  <2> QED BY <2>1, <2>2 DEF TypeInv
<1>15. CASE WatchExits
  <2>1. Flags'
    BY <1>15, Zenon DEF Flags, WatchExits, End
  <2>2. Values' /\ AskedAgain'
    BY <1>15, SMT DEF Values, AskedAgain, WatchExits, End
  <2> QED BY <2>1, <2>2 DEF TypeInv
<1>16. CASE UserQuits
  <2>1. Flags'
    BY <1>16, Zenon DEF Flags, UserQuits
  <2>2. Values' /\ AskedAgain'
    BY <1>16, SMT DEF Values, AskedAgain, UserQuits
  <2> QED BY <2>1, <2>2 DEF TypeInv
<1>17. CASE MainExits
  <2>1. Flags'
    BY <1>17, Zenon DEF Flags, MainExits, End
  <2>2. Values' /\ AskedAgain'
    BY <1>17, SMT DEF Values, AskedAgain, MainExits, End
  <2> QED BY <2>1, <2>2 DEF TypeInv
<1>18. CASE Restarts
  <2>1. Flags'
    BY <1>18, Zenon DEF Flags, Restarts
  <2>2. Values' /\ AskedAgain'
    BY <1>18, SMT DEF Values, AskedAgain, Restarts
  <2> QED BY <2>1, <2>2 DEF TypeInv
<1>19. CASE UNCHANGED vars
  <2>1. Flags'
    BY <1>19, Zenon DEF Flags, vars
  <2>2. Values' /\ AskedAgain'
    BY <1>19, SMT DEF Values, AskedAgain, vars
  <2> QED BY <2>1, <2>2 DEF TypeInv
<1> QED BY <1>1, <1>2, <1>3, <1>4, <1>5, <1>6, <1>8, <1>9, <1>10, <1>11, <1>12, <1>13, <1>14,
           <1>15, <1>16, <1>17, <1>18, <1>19 DEF Next, Loop

\* The state of the process has its types.
THEOREM TypeCorrect == Spec => []TypeOK
<1>1. TypeInv => TypeOK
  BY DEF TypeInv, TypeOK, Flags, Values
<1> QED BY <1>1, TypeStart, TypeStep, PTL DEF Spec

-------------------------------------------------------------------------------
\* SafetyInv again: the law of the waits, which is arithmetic, and the rest.
Truths ==
  /\ OnlineTruthful /\ BlockIsTold /\ BeforeRun /\ StopsOnlyWhenBlocked
  /\ (watch = "blocked" => closed) /\ (main # "gone" => status = -1)

LEMMA SafetyParts == /\ SafetyInv <=> BackoffStep /\ Truths
                     /\ SafetyInv' <=> BackoffStep' /\ Truths'
  BY DEF SafetyInv, Truths

LEMMA SafetyStart == Init => SafetyInv
<1>1. Init => BackoffStep
  BY DEF Init, Fresh, BackoffStep, Wait
<1>2. Init => Truths
  BY Zenon DEF Init, Fresh, Truths, OnlineTruthful, BlockIsTold, BeforeRun, StopsOnlyWhenBlocked
<1> QED BY <1>1, <1>2, SafetyParts

LEMMA SafetyStep == TypeInv /\ SafetyInv /\ [Next]_vars => SafetyInv'
<1> SUFFICES ASSUME Flags, Values, BackoffStep, Truths, [Next]_vars PROVE SafetyInv'
  BY SafetyParts DEF TypeInv
<1> USE DEF world, process, subscription, Working
<1>0. failures \in 0 .. 6 /\ backoff \in {1, 2, 4, 8, 16, 30}
  BY DEF Values
<1>a. 0 # 1 /\ 130 # 1 /\ 143 # 1 /\ -1 # 1
  OBVIOUS
<1> USE DEF Killed
<1>1. CASE Environment
  <2>1. CASE ServerDown
    <3>1. BackoffStep'
      BY <2>1, SMT DEF BackoffStep, Wait, ServerDown, Change, LinkCut, StaysAsItIs
    <3>2. Truths'
      BY <2>1, Zenon DEF Truths, OnlineTruthful, BlockIsTold, BeforeRun,
                         StopsOnlyWhenBlocked, ServerDown, Change, LinkCut, StaysAsItIs
    <3> QED BY <3>1, <3>2, SafetyParts
  <2>2. CASE ServerUp
    <3>1. BackoffStep'
      BY <2>2, SMT DEF BackoffStep, Wait, ServerUp, Change, StaysAsItIs
    <3>2. Truths'
      BY <2>2, Zenon DEF Truths, OnlineTruthful, BlockIsTold, BeforeRun,
                         StopsOnlyWhenBlocked, ServerUp, Change, StaysAsItIs
    <3> QED BY <3>1, <3>2, SafetyParts
  <2>3. CASE LinkBreaks
    <3>1. BackoffStep'
      BY <2>3, SMT DEF BackoffStep, Wait, LinkBreaks, Change, LinkCut, StaysAsItIs
    <3>2. Truths'
      BY <2>3, Zenon DEF Truths, OnlineTruthful, BlockIsTold, BeforeRun,
                         StopsOnlyWhenBlocked, LinkBreaks, Change, LinkCut, StaysAsItIs
    <3> QED BY <3>1, <3>2, SafetyParts
  <2>4. CASE Reopened
    <3>1. BackoffStep'
      BY <2>4, SMT DEF BackoffStep, Wait, Reopened, Change, StaysAsItIs
    <3>2. Truths'
      BY <2>4, Zenon DEF Truths, OnlineTruthful, BlockIsTold, BeforeRun,
                         StopsOnlyWhenBlocked, Reopened, Change, StaysAsItIs
    <3> QED BY <3>1, <3>2, SafetyParts
  <2>5. CASE Locked
    <3>1. BackoffStep'
      BY <2>5, SMT DEF BackoffStep, Wait, Locked, Change
    <3>2. Truths'
      BY <2>5, Zenon DEF Truths, OnlineTruthful, BlockIsTold, BeforeRun,
                         StopsOnlyWhenBlocked, Locked, Change
    <3> QED BY <3>1, <3>2, SafetyParts
  <2>6. ASSUME NEW how \in {"closed", "banned"}, Blocked(how)
        PROVE  SafetyInv'
    <3>1. BackoffStep'
      BY <2>6, SMT DEF BackoffStep, Wait, Blocked, Change, StaysAsItIs
    <3>2. Truths'
      BY <2>6, Zenon DEF Truths, OnlineTruthful, BlockIsTold, BeforeRun,
                         StopsOnlyWhenBlocked, Blocked, Change, StaysAsItIs
    <3> QED BY <3>1, <3>2, SafetyParts
  <2>7. CASE Signalled
    <3>1. BackoffStep'
      BY <2>7, SMT DEF BackoffStep, Wait, Signalled, Change
    <3>2. Truths'
      BY <2>7, Zenon DEF Truths, OnlineTruthful, BlockIsTold, BeforeRun,
                         StopsOnlyWhenBlocked, Signalled, Change
    <3> QED BY <3>1, <3>2, SafetyParts
  <2> QED BY <1>1, <2>1, <2>2, <2>3, <2>4, <2>5, <2>6, <2>7 DEF Environment
<1>2. CASE SignIn
  <2>1. BackoffStep'
    BY <1>2, SMT DEF BackoffStep, Wait, SignIn, NotRunningYet, End
  <2>2. Truths'
    <3>1. OnlineTruthful'
      <4>1. ~online
        BY <1>2, Zenon DEF Truths, OnlineTruthful, BeforeRun, SignIn
      <4>2. ~online'
        BY <1>2, <4>1, Zenon DEF SignIn, NotRunningYet, End
      <4>3. loop' # "reading"
        BY <1>2, SMT DEF Truths, BeforeRun, SignIn, NotRunningYet, End
      <4> QED BY <4>2, <4>3, Zenon DEF OnlineTruthful
    <3>2. BlockIsTold'
      BY <1>a, <1>2, Zenon DEF Truths, BlockIsTold, SignIn, NotRunningYet, End
    <3>3. BeforeRun'
      BY <1>a, <1>2, Zenon DEF Truths, BeforeRun, SignIn, NotRunningYet, End
    <3>4. StopsOnlyWhenBlocked'
      BY <1>a, <1>2, Zenon DEF Truths, BeforeRun, StopsOnlyWhenBlocked, SignIn, NotRunningYet, End
    <3>5. (watch = "blocked" => closed)' /\ (main # "gone" => status = -1)'
      BY <1>a, <1>2, Zenon DEF Truths, BeforeRun, SignIn, NotRunningYet, End
    <3> QED BY <3>1, <3>2, <3>3, <3>4, <3>5 DEF Truths
  <2> QED BY <2>1, <2>2, SafetyParts
<1>3. CASE EndsEarly
  <2>1. BackoffStep'
    BY <1>3, SMT DEF BackoffStep, Wait, EndsEarly, End
  <2>2. Truths'
    BY <1>a, <1>3, Zenon DEF Truths, OnlineTruthful, BlockIsTold, BeforeRun,
                       StopsOnlyWhenBlocked, EndsEarly, End
  <2> QED BY <2>1, <2>2, SafetyParts
<1>4. CASE Knock
  <2>1. BackoffStep'
    BY <1>4, SMT DEF BackoffStep, Wait, Knock, NotRunningYet, End
  <2>2. Truths'
    <3>1. OnlineTruthful'
      <4>1. ~online
        BY <1>4, Zenon DEF Truths, OnlineTruthful, BeforeRun, Knock
      <4>2. ~online'
        BY <1>4, <4>1, Zenon DEF Knock, NotRunningYet, End
      <4>3. loop' # "reading"
        BY <1>4, SMT DEF Truths, BeforeRun, Knock, NotRunningYet, End
      <4> QED BY <4>2, <4>3, Zenon DEF OnlineTruthful
    <3>2. BlockIsTold'
      BY <1>a, <1>4, Zenon DEF Truths, BlockIsTold, Knock, NotRunningYet, End
    <3>3. BeforeRun'
      BY <1>a, <1>4, Zenon DEF Truths, BeforeRun, Knock, NotRunningYet, End
    <3>4. StopsOnlyWhenBlocked'
      BY <1>a, <1>4, Zenon DEF Truths, BeforeRun, StopsOnlyWhenBlocked, Knock, NotRunningYet, End
    <3>5. (watch = "blocked" => closed)' /\ (main # "gone" => status = -1)'
      BY <1>a, <1>4, Zenon DEF Truths, BeforeRun, Knock, NotRunningYet, End
    <3> QED BY <3>1, <3>2, <3>3, <3>4, <3>5 DEF Truths
  <2> QED BY <2>1, <2>2, SafetyParts
<1>5. ASSUME NEW k \in {"wrong", "right"}, TypePassword(k)
      PROVE  SafetyInv'
  <2>1. BackoffStep'
    BY <1>5, SMT DEF BackoffStep, Wait, TypePassword
  <2>2. Truths'
    BY <1>5, Zenon DEF Truths, OnlineTruthful, BlockIsTold, BeforeRun,
                       StopsOnlyWhenBlocked, TypePassword
  <2> QED BY <2>1, <2>2, SafetyParts
<1>6. CASE LeavePrompt
  <2>1. BackoffStep'
    BY <1>6, SMT DEF BackoffStep, Wait, LeavePrompt, End
  <2>2. Truths'
    BY <1>6, Zenon DEF Truths, OnlineTruthful, BlockIsTold, BeforeRun,
                       StopsOnlyWhenBlocked, LeavePrompt, End
  <2> QED BY <2>1, <2>2, SafetyParts
<1>7. ASSUME NEW err \in {"network", "password", "closed", "banned"}, Fails(err), Working,
             loop \in {"initialize", "ticket", "dial", "reading"},
             err = "closed" => everClosed, err = "banned" => everBanned
      PROVE  SafetyInv'
  <2>1. BackoffStep'
    BY <1>7, <1>0, SMT DEF BackoffStep, Wait, Fails, Least
  <2>2. Truths'
    BY <1>7, <1>0, Zenon DEF Truths, OnlineTruthful, BlockIsTold, BeforeRun,
                       StopsOnlyWhenBlocked, Fails, Least
  <2> QED BY <2>1, <2>2, SafetyParts
<1>8. CASE LoopInitialize
  <2>1. Answer \in {"network", "password", "closed", "banned", "ok"}
    BY DEF Answer, Values
  <2>2. (Answer = "closed" => everClosed) /\ (Answer = "banned" => everBanned)
    BY DEF Answer, Values, Truths, BlockIsTold
  <2>3. ASSUME Goes("ticket"), UNCHANGED ticket, loop = "initialize", Working
        PROVE  SafetyInv'
    <3>1. BackoffStep'
      BY <2>3, SMT DEF BackoffStep, Wait, Goes
    <3>2. Truths'
      BY <2>3, Zenon DEF Truths, OnlineTruthful, BlockIsTold, BeforeRun,
                         StopsOnlyWhenBlocked, Goes
    <3> QED BY <3>1, <3>2, SafetyParts
  <2> QED BY <1>8, <1>7, <2>1, <2>2, <2>3 DEF LoopInitialize
<1>9. CASE LoopTicket
  <2>1. BackoffStep'
    BY <1>9, SMT DEF BackoffStep, Wait, LoopTicket, Goes
  <2>2. Truths'
    BY <1>9, Zenon DEF Truths, OnlineTruthful, BlockIsTold, BeforeRun,
                       StopsOnlyWhenBlocked, LoopTicket, Goes
  <2> QED BY <2>1, <2>2, SafetyParts
<1>10. CASE LoopDial
  <2>1. CASE Fails("network")
    BY <1>10, <2>1, <1>7 DEF LoopDial
  <2>2. CASE ~Fails("network")
    <3>1. BackoffStep'
      BY <2>2, <1>10, SMT DEF BackoffStep, Wait, LoopDial
    <3>2. Truths'
      <4>1. OnlineTruthful'
        BY <1>a, <2>2, <1>10, Zenon DEF Truths, OnlineTruthful, LoopDial
      <4>2. BlockIsTold'
        BY <1>a, <2>2, <1>10, Zenon DEF Truths, BlockIsTold, LoopDial
      <4>3. BeforeRun'
        BY <1>a, <2>2, <1>10, Zenon DEF Truths, BeforeRun, LoopDial
      <4>4. main # "gone" /\ UNCHANGED <<main, watch, closed, status, everClosed, everBanned>>
        BY <2>2, <1>10, Zenon DEF LoopDial
      <4>5. StopsOnlyWhenBlocked'
        BY <1>a, <4>4, Zenon DEF Truths, StopsOnlyWhenBlocked
      <4>6. (watch = "blocked" => closed)' /\ (main # "gone" => status = -1)'
        BY <4>4, Zenon DEF Truths
      <4> QED BY <4>1, <4>2, <4>3, <4>5, <4>6 DEF Truths
    <3> QED BY <3>1, <3>2, SafetyParts
  <2> QED BY <2>1, <2>2
<1>11. CASE LoopReadFails
  <2>1. (link = "closed" => everClosed) /\ (link = "banned" => everBanned)
    BY DEF Truths, BlockIsTold
  <2> QED BY <1>11, <1>7, <2>1 DEF LoopReadFails
<1>12. CASE LoopWaits
  <2>1. BackoffStep'
    BY <1>12, <1>0, SMT DEF BackoffStep, Wait, LoopWaits, NextWait, Least
  <2>2. Truths'
    BY <1>12, <1>0, Zenon DEF Truths, OnlineTruthful, BlockIsTold, BeforeRun,
                       StopsOnlyWhenBlocked, LoopWaits, NextWait, Least
  <2> QED BY <2>1, <2>2, SafetyParts
<1>13. CASE PingTimesOut
  <2>1. BackoffStep'
    BY <1>13, SMT DEF BackoffStep, Wait, PingTimesOut
  <2>2. Truths'
    BY <1>13, Zenon DEF Truths, OnlineTruthful, BlockIsTold, BeforeRun,
                       StopsOnlyWhenBlocked, PingTimesOut
  <2> QED BY <2>1, <2>2, SafetyParts
<1>14. CASE WatchWakes
  <2>1. BackoffStep'
    BY <1>14, SMT DEF BackoffStep, Wait, WatchWakes
  <2>2. Truths'
    BY <1>14, Zenon DEF Truths, OnlineTruthful, BlockIsTold, BeforeRun,
                       StopsOnlyWhenBlocked, WatchWakes
  <2> QED BY <2>1, <2>2, SafetyParts
<1>15. CASE WatchExits
  <2>1. BackoffStep'
    BY <1>15, SMT DEF BackoffStep, Wait, WatchExits, End
  <2>2. Truths'
    <3>1. OnlineTruthful'
      BY <1>a, <1>15, Zenon DEF Truths, OnlineTruthful, WatchExits, End
    <3>2. BlockIsTold'
      BY <1>a, <1>15, Zenon DEF Truths, BlockIsTold, WatchExits, End
    <3>3. BeforeRun'
      BY <1>a, <1>15, Zenon DEF Truths, BeforeRun, WatchExits, End
    <3>4. StopsOnlyWhenBlocked'
      BY <1>a, <1>15, Zenon DEF Values, Watches, Truths, BeforeRun, StopsOnlyWhenBlocked, WatchExits, End
    <3>5. (watch = "blocked" => closed)' /\ (main # "gone" => status = -1)'
      BY <1>a, <1>15, Zenon DEF Truths, BeforeRun, WatchExits, End
    <3> QED BY <3>1, <3>2, <3>3, <3>4, <3>5 DEF Truths
  <2> QED BY <2>1, <2>2, SafetyParts
<1>16. CASE UserQuits
  <2>1. BackoffStep'
    BY <1>16, SMT DEF BackoffStep, Wait, UserQuits
  <2>2. Truths'
    BY <1>16, Zenon DEF Truths, OnlineTruthful, BlockIsTold, BeforeRun,
                       StopsOnlyWhenBlocked, UserQuits
  <2> QED BY <2>1, <2>2, SafetyParts
<1>17. CASE MainExits
  <2>1. BackoffStep'
    BY <1>17, SMT DEF BackoffStep, Wait, MainExits, End
  <2>2. Truths'
    BY <1>a, <1>17, Zenon DEF Truths, OnlineTruthful, BlockIsTold, BeforeRun,
                       StopsOnlyWhenBlocked, MainExits, End
  <2> QED BY <2>1, <2>2, SafetyParts
<1>18. CASE Restarts
  <2>1. BackoffStep'
    BY <1>18, SMT DEF BackoffStep, Wait, Restarts
  <2>2. Truths'
    BY <1>18, Zenon DEF Truths, OnlineTruthful, BlockIsTold, BeforeRun,
                       StopsOnlyWhenBlocked, Restarts
  <2> QED BY <2>1, <2>2, SafetyParts
<1>19. CASE UNCHANGED vars
  <2>1. BackoffStep'
    BY <1>19, SMT DEF BackoffStep, Wait, vars
  <2>2. Truths'
    BY <1>19, Zenon DEF Truths, OnlineTruthful, BlockIsTold, BeforeRun,
                       StopsOnlyWhenBlocked, vars
  <2> QED BY <2>1, <2>2, SafetyParts
<1> QED BY <1>1, <1>2, <1>3, <1>4, <1>5, <1>6, <1>8, <1>9, <1>10, <1>11, <1>12, <1>13, <1>14,
           <1>15, <1>16, <1>17, <1>18, <1>19 DEF Next, Loop

\* The inductive invariant: what tells the reader that it is blocked was told by
\* the admins, and the wait is what the number of failures asks for.
THEOREM Safety == Spec => []SafetyInv
BY TypeStart, TypeStep, SafetyStart, SafetyStep, PTL DEF Spec

\* The reader shows "online" exactly while it is subscribed (UI.SetOnline), and
\* waits twice as long after each failure, up to 30 seconds (subscribeLoop).
THEOREM LoopTruthful == Spec => []LoopInv
<1>1. SafetyInv => LoopInv
  BY DEF SafetyInv, LoopInv, BackoffStep, BackoffLaw
<1> QED BY <1>1, Safety, PTL

\* Once it has been in the room, the reader ends with status 1 only when the
\* admins blocked the room or the person (subscribeLoop, run).
THEOREM BlockedOnly == Spec => []StopsOnlyWhenBlocked
<1>1. SafetyInv => StopsOnlyWhenBlocked
  BY DEF SafetyInv
<1> QED BY <1>1, Safety, PTL

-----------------------------------------------------------------------------
(* Who is turned away for want of the room's password. *)

\* Only three ways lead to exit status 1; a process that has ended stays as it
\* was, except that the room may be locked (again) meanwhile.
LEMMA StatusOne ==
  Truths /\ [Next]_vars =>
    \/ status' # 1
    \/ SignIn /\ Login
    \/ Knock /\ Answer = "password" /\ (GivesUp \/ ~Terminal)
    \/ WatchExits
    \/ status = 1 /\ UNCHANGED <<asks, closed>> /\ (Locked \/ UNCHANGED <<locked, key>>)
<1> SUFFICES ASSUME Truths, [Next]_vars, status' = 1
             PROVE  \/ SignIn /\ Login
                    \/ Knock /\ Answer = "password" /\ (GivesUp \/ ~Terminal)
                    \/ WatchExits
                    \/ status = 1 /\ UNCHANGED <<asks, closed>> /\ (Locked \/ UNCHANGED <<locked, key>>)
  OBVIOUS
<1>1. main # "gone" => status # 1
  BY DEF Truths
<1>2. CASE Environment
  BY <1>2, Zenon DEF Environment, ServerDown, ServerUp, LinkBreaks, Blocked, Reopened, Locked,
                     Signalled, StaysAsItIs, world, process, subscription
<1>3. CASE SignIn
  BY <1>1, <1>3, Zenon DEF SignIn, NotRunningYet
<1>4. CASE Knock
  <2>1. main # "gone"
    BY <1>4, Zenon DEF Knock
  <2>2. ~UNCHANGED status
    BY <1>1, <2>1
  <2> QED BY <1>4, <2>2, Zenon DEF Knock, NotRunningYet
<1>5. CASE EndsEarly \/ LeavePrompt \/ MainExits
  <2>1. status' \in {0, 130, Killed}
    BY <1>5, Zenon DEF EndsEarly, LeavePrompt, MainExits, End
  <2> QED BY <2>1 DEF Killed
<1>6. CASE (\E k \in {"wrong", "right"} : TypePassword(k)) \/ Loop \/ PingTimesOut \/ WatchWakes \/ UserQuits
  <2>1. main # "gone" /\ UNCHANGED status
    BY <1>6, Zenon DEF TypePassword, Loop, LoopInitialize, LoopTicket, LoopDial, LoopReadFails,
                       LoopWaits, PingTimesOut, Goes, Fails, WatchWakes, UserQuits, Working
  <2> QED BY <1>1, <2>1
<1>7. CASE Restarts
  <2>1. status' = -1
    BY <1>7, Zenon DEF Restarts
  <2> QED BY <2>1
<1>8. CASE UNCHANGED vars
  BY <1>8, Zenon DEF vars, world, process, subscription
<1> QED BY <1>2, <1>3, <1>4, <1>5, <1>6, <1>7, <1>8, Zenon DEF Next

\* A reader that may come in as a guest and ends with status 1 before any block
\* was met with a room that has a password it does not know, and at a terminal
\* it has asked for it three times (main, Room.Initialize).
THEOREM AskedThreeTimes == Spec => []AsksThrice
<1>1. Init => AsksThrice
  BY DEF Init, Fresh, AsksThrice
<1>2. TypeInv /\ SafetyInv /\ AsksThrice /\ [Next]_vars => AsksThrice'
  <2> SUFFICES ASSUME TypeInv, SafetyInv, AsksThrice, [Next]_vars, status' = 1, ~closed', ~Login
               PROVE  locked' /\ key' # "right" /\ (Terminal => asks' = MaxAsks)
    BY Zenon DEF AsksThrice
  <2>1. Truths
    BY SafetyParts
  <2>2. CASE Knock /\ Answer = "password" /\ (GivesUp \/ ~Terminal)
    <3>1. locked /\ key # "right"
      BY <2>2 DEF Answer, TypeInv, Values
    <3>2. UNCHANGED <<locked, key, asks>>
      BY <2>2, Zenon DEF Knock, world, process
    <3> QED BY <2>2, <3>1, <3>2, Zenon DEF GivesUp
  <2>3. CASE WatchExits
    <3>1. watch # "signalled"
      BY <2>3 DEF WatchExits, End
    <3>2. watch = "blocked"
      BY <2>3, <3>1 DEF WatchExits, TypeInv, Values, Watches
    <3>3. UNCHANGED closed
      BY <2>3, Zenon DEF WatchExits
    <3> QED BY <2>1, <3>2, <3>3, Zenon DEF Truths
  <2>4. CASE status = 1 /\ UNCHANGED <<asks, closed>> /\ (Locked \/ UNCHANGED <<locked, key>>)
    <3>1. locked /\ key # "right" /\ (Terminal => asks = MaxAsks)
      BY <2>4, Zenon DEF AsksThrice
    <3>2. locked' /\ key' # "right"
      BY <2>4, <3>1 DEF Locked
    <3> QED BY <2>4, <3>1, <3>2, Zenon
  <2> QED BY <2>1, <2>2, <2>3, <2>4, StatusOne, Zenon
<1> QED BY <1>1, <1>2, TypeStart, TypeStep, SafetyStart, SafetyStep, PTL DEF Spec
================================================================================
