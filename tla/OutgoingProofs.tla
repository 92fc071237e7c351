---------------------------- MODULE OutgoingProofs ----------------------------
(***************************************************************************)
(* Proofs about Outgoing for channels, files, lines and records of any     *)
(* number and size, and about the streams of FileStream.                   *)
(***************************************************************************)
EXTENDS Outgoing, Induction, SequenceTheorems, TLAPS

-------------------------------------------------------------------------------
(* Which steps change what.                                                *)

LEMMA InputSteps ==
  ASSUME Next
  PROVE  \/ UNCHANGED <<main, hand, counted, lines, asked, quitWarned>>
         \/ TypeMessage \/ TypeAction \/ TypeFlag \/ Quit \/ InputEnds
         \/ \E n \in 1 .. MaxPaths : TypeSend(n) \/ TypeGet(n)
         \/ PushMessage \/ CountUpload \/ PushUpload \/ PushDownload
BY Zenon DEF Next, Environment, User, Push, SendStep, FlagStep, Transfer, UploadStep,
  Joins, TenSecondsPass, SignalArrives, RoomCloses, SenderStarts, TakeMessage, ServerTakes,
  PublishFails, Answered, ReportFailure, FlagAnswered, FlagPushed, UploaderStarts, TakeUpload,
  StoreFile, UploadFails, Announce, AnnounceFails, UploadDone, UploadReported, SendStarts,
  SendDone, SendEnds, LiveFile, TakeDownload, WatcherActs, Exit, input, fromSender, fromUploader,
  fromOthers

LEMMA ModeStays == Next => mode' = mode
BY Zenon DEF Next, Environment, User, Push, SendStep, FlagStep, Transfer, UploadStep,
  Joins, TenSecondsPass, SignalArrives, RoomCloses, TypeMessage, TypeAction, TypeFlag, Quit,
  InputEnds, TypeSend, TypeGet, PushMessage, CountUpload, PushUpload, PushDownload,
  SenderStarts, TakeMessage, ServerTakes,
  PublishFails, Answered, ReportFailure, FlagAnswered, FlagPushed, UploaderStarts, TakeUpload,
  StoreFile, UploadFails, Announce, AnnounceFails, UploadDone, UploadReported, SendStarts,
  SendDone, SendEnds, LiveFile, TakeDownload, WatcherActs, Exit, aside, fromSender, fromUploader,
  fromOthers

LEMMA MessageSteps ==
  ASSUME Next
  PROVE  \/ UNCHANGED <<outbox, sender, posts, notSent, taken>>
         \/ PushMessage \/ SenderStarts \/ TakeMessage \/ ServerTakes \/ PublishFails
         \/ Answered \/ ReportFailure \/ \E n \in flagging \cup flagged : FlagPushed(n)
BY Zenon DEF Next, Environment, User, Push, SendStep, FlagStep, Transfer, UploadStep,
  Joins, TenSecondsPass, SignalArrives, RoomCloses, TypeMessage, TypeAction, TypeFlag, Quit,
  InputEnds, TypeSend, TypeGet, CountUpload, PushUpload, PushDownload, FlagAnswered,
  UploaderStarts, TakeUpload, StoreFile, UploadFails, Announce, AnnounceFails, UploadDone,
  UploadReported, SendStarts, SendDone, SendEnds, LiveFile, TakeDownload, WatcherActs, Exit,
  aside, fromSender, fromUploader, fromOthers, sending

LEMMA FileSteps ==
  ASSUME Next
  PROVE  \/ UNCHANGED <<counted, asked, pending, uploads, uploader, stored, shared, notShared>>
         \/ CountUpload \/ PushUpload \/ UploaderStarts \/ TakeUpload \/ StoreFile
         \/ UploadFails \/ Announce \/ AnnounceFails \/ UploadDone \/ UploadReported
         \/ SendStarts \/ SendDone
BY Zenon DEF Next, Environment, User, Push, SendStep, FlagStep, Transfer, UploadStep,
  Joins, TenSecondsPass, SignalArrives, RoomCloses, TypeMessage, TypeAction, TypeFlag, Quit,
  InputEnds, TypeSend, TypeGet, PushMessage, PushDownload,
  SenderStarts, TakeMessage, ServerTakes,
  PublishFails, Answered, ReportFailure, FlagAnswered, FlagPushed,
  SendEnds, LiveFile, TakeDownload, WatcherActs, Exit, aside, input, fromSender, fromUploader,
  fromOthers, sharing

LEMMA EndSteps ==
  ASSUME Next
  PROVE  UNCHANGED <<leaving, status>> \/ Quit \/ SendStarts \/ SendEnds \/ WatcherActs \/ Exit
BY Zenon DEF Next, Environment, User, Push, SendStep, FlagStep, Transfer, UploadStep,
  Joins, TenSecondsPass, SignalArrives, RoomCloses, TypeMessage, TypeAction, TypeFlag,
  InputEnds, TypeSend, TypeGet, PushMessage, CountUpload, PushUpload, PushDownload,
  SenderStarts, TakeMessage, ServerTakes,
  PublishFails, Answered, ReportFailure, FlagAnswered, FlagPushed, UploaderStarts, TakeUpload,
  StoreFile, UploadFails, Announce, AnnounceFails, UploadDone, UploadReported,
  SendDone, LiveFile, TakeDownload, aside, fromSender, fromUploader, fromOthers, ending

LEMMA FlagSteps ==
  ASSUME Next
  PROVE  \/ UNCHANGED <<flagging, flagged>>
         \/ TypeFlag \/ \E n \in flagging \cup flagged : FlagAnswered(n) \/ FlagPushed(n)
BY Zenon DEF Next, Environment, User, Push, SendStep, FlagStep, Transfer, UploadStep,
  Joins, TenSecondsPass, SignalArrives, RoomCloses, TypeMessage, TypeAction, Quit,
  InputEnds, TypeSend, TypeGet, PushMessage, CountUpload, PushUpload, PushDownload,
  SenderStarts, TakeMessage, ServerTakes,
  PublishFails, Answered, ReportFailure, UploaderStarts, TakeUpload,
  StoreFile, UploadFails, Announce, AnnounceFails, UploadDone, UploadReported, SendStarts,
  SendDone, SendEnds, LiveFile, TakeDownload, WatcherActs, Exit, aside, fromSender, fromUploader,
  fromOthers, flags

LEMMA OtherSteps ==
  ASSUME Next
  PROVE  \/ UNCHANGED <<downloads, joined, tenSeconds, canceled, closed>>
         \/ PushDownload \/ LiveFile \/ TakeDownload
         \/ UNCHANGED downloads /\ (Joins \/ TenSecondsPass \/ SignalArrives \/ RoomCloses)
BY Zenon DEF Next, Environment, User, Push, SendStep, FlagStep, Transfer, UploadStep,
  Joins, TenSecondsPass, SignalArrives, RoomCloses, TypeMessage, TypeAction, TypeFlag, Quit,
  InputEnds, TypeSend, TypeGet, PushMessage, CountUpload, PushUpload,
  SenderStarts, TakeMessage, ServerTakes,
  PublishFails, Answered, ReportFailure, FlagAnswered, FlagPushed, UploaderStarts, TakeUpload,
  StoreFile, UploadFails, Announce, AnnounceFails, UploadDone, UploadReported, SendStarts,
  SendDone, SendEnds, WatcherActs, Exit, aside, fromSender, fromUploader,
  fromOthers, events

-------------------------------------------------------------------------------
(* Types: first the main loop and what it has in its hand.                 *)

Channels == {"nothing", "outbox", "uploads", "downloads"}

InputTypes ==
  /\ mode \in Modes
  /\ main \in {"reading", "pushing", "deaf", "quitting", "sending"}
  /\ hand \in [to : Channels, left : 0 .. MaxPaths]
  /\ counted \in BOOLEAN /\ lines \in 0 .. MaxLines /\ asked \in 0 .. MaxPaths
  /\ quitWarned \in BOOLEAN

\* What is still in the hand fits into the bounds, and only a file on its way to
\* the uploads is counted before it is pushed.
HandInv ==
  /\ main = "pushing" => hand.left >= 1
  /\ counted => main = "pushing" /\ hand.to = "uploads"
  /\ hand.to = "uploads" => asked + hand.left - (IF counted THEN 1 ELSE 0) <= MaxPaths

InputInv == InputTypes /\ HandInv

LEMMA Fields ==
  ASSUME NEW a, NEW b, NEW c, NEW d
  PROVE  /\ [to |-> a, left |-> b].to = a /\ [to |-> a, left |-> b].left = b
         /\ [at |-> a, msg |-> b].at = a /\ [at |-> a, msg |-> b].msg = b
         /\ [at |-> a, file |-> b].at = a /\ [at |-> a, file |-> b].file = b
OBVIOUS

\* One less in the hand, or nothing.
LEMMA HandAfter ==
  ASSUME InputInv, main = "pushing", Pushed
  PROVE  /\ main' \in {"pushing", "reading"} /\ hand' \in [to : Channels, left : 0 .. MaxPaths]
         /\ main' = "pushing" => hand'.left >= 1
         /\ hand'.to = "uploads" => hand.to = "uploads" /\ hand'.left = hand.left - 1 /\ main' = "pushing"
<1> USE OutgoingAssumption DEF InputInv, InputTypes, HandInv, Pushed, Nothing, Channels
<1>1. CASE hand.left = 1
  BY <1>1
<1>2. CASE hand.left # 1
  <2>1. hand' = [hand EXCEPT !.left = @ - 1] /\ main' = main
    BY <1>2
  <2>2. hand'.left = hand.left - 1 /\ hand'.to = hand.to /\ hand'.left \in 1 .. MaxPaths
    BY <1>2, <2>1
  <2>3. hand' \in [to : Channels, left : 0 .. MaxPaths]
    BY <2>1, <2>2
  <2> QED
    BY <2>1, <2>2, <2>3
<1> QED
  BY <1>1, <1>2

LEMMA InputStart == Init => InputInv
<1> SUFFICES ASSUME Init PROVE InputInv
  OBVIOUS
<1>1. mode \in Modes /\ counted = FALSE /\ quitWarned = FALSE /\ lines = 0 /\ hand = Nothing
      /\ main \in {"reading", "sending"}
  BY Zenon DEF Init
<1>2. asked \in 0 .. MaxPaths
  BY OutgoingAssumption DEF Init
<1>3. hand \in [to : Channels, left : 0 .. MaxPaths] /\ lines \in 0 .. MaxLines
      /\ hand.to = "nothing"
  BY <1>1, OutgoingAssumption DEF Nothing, Channels
<1>4. counted \in BOOLEAN /\ quitWarned \in BOOLEAN
  BY Zenon, <1>1
<1>5. InputTypes
  BY Zenon, <1>1, <1>2, <1>3, <1>4 DEF InputTypes
<1>6. HandInv
  BY <1>1, <1>3 DEF HandInv
<1> QED
  BY <1>5, <1>6 DEF InputInv

LEMMA InputStep == InputInv /\ [Next]_vars => InputInv'
<1> SUFFICES ASSUME InputInv, [Next]_vars PROVE InputInv'
  OBVIOUS
<1> USE OutgoingAssumption DEF InputInv, InputTypes, HandInv
<1>1. CASE UNCHANGED vars
  BY <1>1 DEF vars, input
<1>2. CASE Next
  <2>0. mode' = mode
    BY <1>2, ModeStays
  <2>1. CASE UNCHANGED <<main, hand, counted, lines, asked, quitWarned>>
    BY <2>0, <2>1
  <2>2. CASE TypeMessage \/ TypeAction
    <3>1. hand' = [to |-> "outbox", left |-> 1] /\ main' = "pushing" /\ ~counted'
      BY <2>2 DEF TypeMessage, TypeAction, Read, Hands
    <3>2. UNCHANGED <<counted, asked>> /\ lines' = lines + 1 /\ lines < MaxLines
          /\ (quitWarned' = FALSE \/ quitWarned' = quitWarned)
      BY <2>2 DEF TypeMessage, TypeAction, Read
    <3>3. quitWarned' \in BOOLEAN
      BY Zenon, <3>2
    <3> QED
      BY <2>0, <3>1, <3>2, <3>3 DEF Channels
  <2>3. CASE TypeFlag
    BY <2>0, <2>3 DEF TypeFlag, Read
  <2>4. CASE Quit
    BY <2>0, <2>4 DEF Quit, ConfirmQuit
  <2>5. CASE InputEnds
    BY <2>0, <2>5 DEF InputEnds
  <2>6. ASSUME NEW n \in 1 .. MaxPaths, TypeSend(n) \/ TypeGet(n) PROVE InputInv'
    <3>1. PICK c \in {"uploads", "downloads"} :
            /\ hand' = [to |-> c, left |-> n] /\ main' = "pushing" /\ ~counted'
            /\ c = "uploads" => asked + n <= MaxPaths
      BY <2>6 DEF TypeSend, TypeGet, Read, Hands
    <3>2. UNCHANGED <<counted, asked, quitWarned>> /\ lines' = lines + 1 /\ lines < MaxLines
      BY <2>6 DEF TypeSend, TypeGet, Read
    <3> QED
      BY <2>0, <3>1, <3>2 DEF Channels
  <2>7. CASE PushMessage
    <3>1. Pushed /\ main = "pushing" /\ hand.to = "outbox" /\ UNCHANGED <<counted, lines, asked, quitWarned>>
      BY <2>7 DEF PushMessage
    <3> QED
      BY <2>0, <3>1, HandAfter
  <2>8. CASE CountUpload
    BY <2>0, <2>8 DEF CountUpload
  <2>9. CASE PushUpload
    <3>1. Pushed /\ main = "pushing" /\ counted /\ counted' = FALSE /\ UNCHANGED <<lines, asked, quitWarned>>
      BY <2>9 DEF PushUpload
    <3>2. counted' \in BOOLEAN
      BY Zenon, <3>1
    <3> QED
      BY <2>0, <3>1, <3>2, HandAfter
  <2>10. CASE PushDownload
    <3>1. Pushed /\ main = "pushing" /\ hand.to = "downloads" /\ UNCHANGED <<counted, lines, asked, quitWarned>>
      BY <2>10 DEF PushDownload
    <3> QED
      BY <2>0, <3>1, HandAfter
  <2> QED
    BY <1>2, <2>1, <2>2, <2>3, <2>4, <2>5, <2>6, <2>7, <2>8, <2>9, <2>10, InputSteps
<1> QED
  BY <1>1, <1>2

-------------------------------------------------------------------------------
(* Queues of numbers: taking the first, and putting one at the end.        *)

LEMMA Taking ==
  ASSUME NEW s \in Seq(Nat), s # <<>>
  PROVE  /\ Head(s) \in Nat /\ Tail(s) \in Seq(Nat)
         /\ Len(s) \in Nat /\ Len(Tail(s)) = Len(s) - 1
         /\ Elements(s) = {Head(s)} \cup Elements(Tail(s))
         /\ Ascending(s) => Ascending(Tail(s)) /\ \A x \in Elements(Tail(s)) : Head(s) < x
<1>1. /\ Tail(s) \in Seq(Nat) /\ Len(Tail(s)) = Len(s) - 1
      /\ \A i \in 1 .. Len(Tail(s)) : Tail(s)[i] = s[i+1]
  BY HeadTailProperties
<1>2. Len(s) \in Nat /\ Len(s) # 0 /\ Head(s) = s[1] /\ Head(s) \in Nat
  BY EmptySeq
<1>3. \A k \in 1 .. Len(s) : k = 1 \/ (k - 1 \in 1 .. Len(Tail(s)) /\ Tail(s)[k-1] = s[k])
  BY <1>1, <1>2
<1>4. \A k \in 1 .. Len(Tail(s)) : k + 1 \in 1 .. Len(s) /\ s[k+1] = Tail(s)[k]
  BY <1>1, <1>2
<1>5. Elements(s) = {Head(s)} \cup Elements(Tail(s))
  <2>1. Elements(s) \subseteq {Head(s)} \cup Elements(Tail(s))
    BY <1>2, <1>3 DEF Elements
  <2>2. {Head(s)} \cup Elements(Tail(s)) \subseteq Elements(s)
    BY <1>2, <1>4 DEF Elements
  <2> QED
    BY <2>1, <2>2
<1>6. Ascending(s) => Ascending(Tail(s))
  BY <1>1, <1>4 DEF Ascending
<1>7. ASSUME Ascending(s), NEW x \in Elements(Tail(s)) PROVE Head(s) < x
  <2>1. PICK k \in 1 .. Len(Tail(s)) : x = Tail(s)[k]
    BY DEF Elements
  <2> QED
    BY <1>2, <1>4, <1>7, <2>1 DEF Ascending
<1> QED
  BY <1>1, <1>2, <1>5, <1>6, <1>7

LEMMA Putting ==
  ASSUME NEW s \in Seq(Nat), NEW x \in Nat
  PROVE  /\ Append(s, x) \in Seq(Nat) /\ Append(s, x) # <<>>
         /\ Len(s) \in Nat /\ Len(Append(s, x)) = Len(s) + 1
         /\ Elements(Append(s, x)) = Elements(s) \cup {x}
         /\ Append(s, x)[Len(Append(s, x))] = x
         /\ Ascending(s) /\ (\A y \in Elements(s) : y < x) => Ascending(Append(s, x))
<1>1. /\ Append(s, x) \in Seq(Nat) /\ Append(s, x) # <<>>
      /\ Len(s) \in Nat /\ Len(Append(s, x)) = Len(s) + 1
      /\ \A i \in 1 .. Len(s) : Append(s, x)[i] = s[i]
      /\ Append(s, x)[Len(s) + 1] = x
  BY AppendProperties
<1>2. Elements(Append(s, x)) = Elements(s) \cup {x}
  <2>1. \A i \in 1 .. Len(s) + 1 : i = Len(s) + 1 \/ i \in 1 .. Len(s)
    BY <1>1
  <2>2. Elements(Append(s, x)) \subseteq Elements(s) \cup {x}
    BY <1>1, <2>1 DEF Elements
  <2>3. Elements(s) \cup {x} \subseteq Elements(Append(s, x))
    <3>1. Len(s) + 1 \in 1 .. Len(s) + 1 /\ \A i \in 1 .. Len(s) : i \in 1 .. Len(s) + 1
      BY <1>1
    <3> QED
      BY <1>1, <3>1 DEF Elements
  <2> QED
    BY <2>2, <2>3
<1>3. ASSUME Ascending(s), \A y \in Elements(s) : y < x PROVE Ascending(Append(s, x))
  <2> SUFFICES ASSUME NEW a \in 1 .. Len(s) + 1, NEW b \in 1 .. Len(s) + 1, a < b
               PROVE  Append(s, x)[a] < Append(s, x)[b]
    BY <1>1 DEF Ascending
  <2>1. a \in 1 .. Len(s) /\ Append(s, x)[a] = s[a] /\ s[a] \in Elements(s)
    BY <1>1 DEF Elements
  <2>2. CASE b = Len(s) + 1
    BY <2>1, <2>2, <1>1, <1>3
  <2>3. CASE b # Len(s) + 1
    BY <2>1, <2>3, <1>1, <1>3 DEF Ascending
  <2> QED
    BY <2>2, <2>3
<1> QED
  BY <1>1, <1>2, <1>3

LEMMA NoneIn == Elements(<<>>) = {} /\ Ascending(<<>>) /\ <<>> \in Seq(Nat)
BY DEF Elements, Ascending

-------------------------------------------------------------------------------
(* Messages.  Why a message that is pushed on the outbox was never there    *)
(* before: lines only grow, each line is one message or one flag, and a     *)
(* flag is in one of its goroutine's two waits or in the outbox.            *)

LEMMA NewSteps ==
  ASSUME Next
  PROVE  \/ UNCHANGED <<lines, main, hand, taken, flagging, flagged>>
         \/ /\ UNCHANGED <<taken, flagging, flagged>>
            /\ \/ TypeMessage \/ TypeAction \/ Quit \/ InputEnds
               \/ \E n \in 1 .. MaxPaths : TypeSend(n) \/ TypeGet(n)
               \/ CountUpload \/ PushUpload \/ PushDownload
         \/ TypeFlag \/ PushMessage
         \/ \E n \in flagging \cup flagged : FlagAnswered(n) \/ FlagPushed(n)
BY Zenon DEF Next, Environment, User, Push, SendStep, FlagStep, Transfer, UploadStep,
  Joins, TenSecondsPass, SignalArrives, RoomCloses, TypeMessage, TypeAction, Quit,
  InputEnds, TypeSend, TypeGet, CountUpload, PushUpload, PushDownload,
  SenderStarts, TakeMessage, ServerTakes,
  PublishFails, Answered, ReportFailure, UploaderStarts, TakeUpload,
  StoreFile, UploadFails, Announce, AnnounceFails, UploadDone, UploadReported, SendStarts,
  SendDone, SendEnds, LiveFile, TakeDownload, WatcherActs, Exit, aside, fromSender, fromUploader,
  fromOthers, flags, input

FlagsNew == /\ taken \cup flagging \cup flagged \subseteq 1 .. lines
            /\ flagging \cap flagged = {} /\ (flagging \cup flagged) \cap taken = {}
HandNew  == main = "pushing" /\ hand.to = "outbox" =>
              hand.left = 1 /\ lines >= 1 /\ lines \notin taken \cup flagging \cup flagged
NewInv   == FlagsNew /\ HandNew

LEMMA NewStart == Init => NewInv
BY DEF Init, NewInv, FlagsNew, HandNew

LEMMA NewStep == InputInv /\ NewInv /\ [Next]_vars => NewInv'
<1> SUFFICES ASSUME InputInv, NewInv, [Next]_vars PROVE NewInv'
  OBVIOUS
<1> USE DEF NewInv, FlagsNew, HandNew, InputInv, InputTypes
<1>1. CASE UNCHANGED vars
  BY <1>1 DEF vars, input, flags
<1>2. CASE Next
  <2>1. CASE UNCHANGED <<lines, main, hand, taken, flagging, flagged>>
    BY <2>1
  <2>2. CASE TypeMessage \/ TypeAction
    <3>1. hand' = [to |-> "outbox", left |-> 1] /\ lines' = lines + 1
          /\ UNCHANGED <<taken, flagging, flagged>>
      BY <2>2 DEF TypeMessage, TypeAction, Read, Hands, aside, flags
    <3> QED
      BY <3>1
  <2>3. CASE TypeFlag
    BY <2>3 DEF TypeFlag, Read, aside
  <2>4. CASE Quit \/ InputEnds
    <3>1. UNCHANGED <<lines, hand, taken, flagging, flagged>> /\ (main' = main \/ main' # "pushing")
      BY <2>4 DEF Quit, InputEnds, ConfirmQuit, flags
    <3> QED
      BY <3>1
  <2>5. ASSUME NEW n \in 1 .. MaxPaths, TypeSend(n) \/ TypeGet(n) PROVE NewInv'
    <3>1. hand'.to # "outbox" /\ lines' = lines + 1 /\ UNCHANGED <<taken, flagging, flagged>>
      BY <2>5 DEF TypeSend, TypeGet, Read, Hands, aside, flags
    <3> QED
      BY <3>1
  <2>6. CASE PushMessage
    <3>1. Pushed /\ main = "pushing" /\ hand.to = "outbox" /\ UNCHANGED <<lines, flagging, flagged>>
          /\ taken' = taken \cup {lines}
      BY <2>6 DEF PushMessage, flags
    <3>2. main' = "reading"
      BY <3>1 DEF Pushed
    <3> QED
      BY <3>1, <3>2
  <2>7. CASE CountUpload \/ PushUpload \/ PushDownload
    <3>1. main = "pushing" /\ hand.to \in {"uploads", "downloads"}
          /\ (Pushed \/ hand' = hand) /\ UNCHANGED <<lines, taken, flagging, flagged>>
      BY <2>7 DEF CountUpload, PushUpload, PushDownload, flags
    <3>2. hand'.to # "outbox"
      BY <3>1 DEF Pushed, Nothing
    <3> QED
      BY <3>1, <3>2
  <2>8. ASSUME NEW n \in flagging \cup flagged, FlagAnswered(n) \/ FlagPushed(n) PROVE NewInv'
    <3>1. UNCHANGED <<lines, main, hand>>
      BY <2>8 DEF FlagAnswered, FlagPushed, fromSender, input
    <3>2. /\ taken' \cup flagging' \cup flagged' \subseteq taken \cup flagging \cup flagged
          /\ flagging' \cap flagged' = {} /\ (flagging' \cup flagged') \cap taken' = {}
      BY <2>8 DEF FlagAnswered, FlagPushed
    <3> QED
      BY <3>1, <3>2
  <2> QED
    BY <1>2, <2>1, <2>2, <2>3, <2>4, <2>5, <2>6, <2>7, <2>8, NewSteps
<1> QED
  BY <1>1, <1>2

MessageTypes ==
  /\ outbox \in Seq(Nat) /\ Len(outbox) <= OutboxCap /\ posts \in Seq(Nat)
  /\ sender \in [at : {"waiting", "idle", "posting", "posted", "failed"}, msg : Nat]
Posted == sender.at = "posted" => posts # <<>> /\ posts[Len(posts)] = sender.msg
MessageInv == MessageTypes /\ MessagesKept /\ Posted

\* Where the message in work is after the sender moved on.
LEMMA SenderAt ==
  ASSUME MessageTypes, NEW a \in {"waiting", "idle", "posting", "posted", "failed"},
         sender' = [sender EXCEPT !.at = a]
  PROVE  sender'.at = a /\ sender'.msg = sender.msg /\ sender.msg \in Nat
         /\ sender' \in [at : {"waiting", "idle", "posting", "posted", "failed"}, msg : Nat]
BY DEF MessageTypes

LEMMA MessageStart == Init => MessageInv
<1> SUFFICES ASSUME Init PROVE MessageInv
  OBVIOUS
<1>1. outbox = <<>> /\ posts = <<>> /\ taken = {} /\ notSent = {}
      /\ sender = [at |-> "waiting", msg |-> 0]
  BY DEF Init
<1>2. MessageTypes
  BY <1>1, OutgoingAssumption DEF MessageTypes
<1> QED
  BY <1>1, <1>2, NoneIn DEF MessageInv, MessagesKept, Posted, InSending

\* Putting a line on the outbox, from the prompt or from a flag's goroutine.
LEMMA PutStep ==
  ASSUME MessageInv, NEW m \in Nat, Len(outbox) < OutboxCap, outbox' = Append(outbox, m),
         taken' = taken \cup {m}, UNCHANGED <<sender, posts, notSent>>
  PROVE  MessageInv'
<1> USE DEF MessageInv, MessageTypes
<1>1. /\ outbox' \in Seq(Nat) /\ Len(outbox') = Len(outbox) + 1 /\ Len(outbox) \in Nat
      /\ Elements(outbox') = Elements(outbox) \cup {m}
  BY Putting
<1>2. MessagesKept'
  BY <1>1 DEF MessagesKept, InSending, Elements
<1>3. Len(outbox') <= OutboxCap
  BY <1>1, OutgoingAssumption
<1> QED
  BY <1>1, <1>2, <1>3 DEF Posted

LEMMA MessageStep == InputInv /\ NewInv /\ MessageInv /\ [Next]_vars => MessageInv'
<1> SUFFICES ASSUME InputInv, NewInv, MessageInv, [Next]_vars PROVE MessageInv'
  OBVIOUS
<1> USE DEF MessageInv
<1>0. /\ outbox \in Seq(Nat) /\ Len(outbox) <= OutboxCap /\ posts \in Seq(Nat) /\ sender.msg \in Nat
      /\ taken = Elements(outbox) \cup InSending \cup Elements(posts) \cup notSent
  BY DEF MessageTypes, MessagesKept
<1>1. CASE UNCHANGED vars
  BY <1>1 DEF vars, sending, MessageTypes, MessagesKept, Posted, InSending, Elements
<1>2. CASE Next
  <2>1. CASE UNCHANGED <<outbox, sender, posts, notSent, taken>>
    BY <2>1 DEF MessageTypes, MessagesKept, Posted, InSending, Elements
  <2>2. CASE PushMessage
    <3>1. lines \in Nat
      BY DEF InputInv, InputTypes
    <3>2. Len(outbox) < OutboxCap /\ outbox' = Append(outbox, lines)
          /\ taken' = taken \cup {lines} /\ UNCHANGED <<sender, posts, notSent>>
      BY <2>2 DEF PushMessage, PutMessage, sending
    <3> QED
      BY <3>1, <3>2, PutStep
  <2>3. ASSUME NEW n \in flagging \cup flagged, FlagPushed(n) PROVE MessageInv'
    <3>1. n \in Nat
      BY DEF NewInv, FlagsNew
    <3>2. Len(outbox) < OutboxCap /\ outbox' = Append(outbox, n)
          /\ taken' = taken \cup {n} /\ UNCHANGED <<sender, posts, notSent>>
      BY <2>3 DEF FlagPushed, sending
    <3> QED
      BY <3>1, <3>2, PutStep
  <2>4. CASE SenderStarts \/ PublishFails \/ Answered
    <3>1. PICK a \in {"idle", "failed"} :
            /\ sender' = [sender EXCEPT !.at = a]
            /\ sender.at \in IF a = "idle" THEN {"waiting", "posted"} ELSE {"posting"}
      BY <2>4 DEF SenderStarts, PublishFails, Answered, AfterAnswer
    <3>2. UNCHANGED <<outbox, posts, notSent, taken>>
      BY <2>4 DEF SenderStarts, PublishFails, Answered
    <3>3. sender'.at = a /\ sender'.msg = sender.msg /\ MessageTypes'
      BY <1>0, <3>1, <3>2, SenderAt DEF MessageTypes
    <3>4. sender.at = "posted" => sender.msg \in Elements(posts)
      BY <1>0, EmptySeq DEF Posted, Elements
    <3>5. InSending' \cup Elements(posts) = InSending \cup Elements(posts)
      BY <3>1, <3>3, <3>4 DEF InSending
    <3>6. MessagesKept'
      BY <1>0, <3>2, <3>5 DEF MessagesKept, Elements
    <3> QED
      BY <3>1, <3>3, <3>6 DEF Posted
  <2>5. CASE TakeMessage
    <3>1. outbox # <<>> /\ sender.at = "idle" /\ outbox' = Tail(outbox)
          /\ UNCHANGED <<posts, notSent, taken>>
      BY <2>5 DEF TakeMessage
    <3>2. PICK a \in {"posting", "failed"} : sender' = [at |-> a, msg |-> Head(outbox)]
      BY <2>5 DEF TakeMessage
    <3>3. /\ Head(outbox) \in Nat /\ outbox' \in Seq(Nat) /\ Len(outbox') = Len(outbox) - 1
          /\ Elements(outbox) = {Head(outbox)} \cup Elements(outbox') /\ Len(outbox) \in Nat
      BY <1>0, <3>1, Taking
    <3>4. InSending = {} /\ InSending' = {Head(outbox)} /\ sender'.at # "posted"
      BY <3>1, <3>2 DEF InSending
    <3>5. MessagesKept'
      BY <1>0, <3>1, <3>3, <3>4 DEF MessagesKept, Elements
    <3>6. MessageTypes'
      BY <1>0, <3>1, <3>2, <3>3, OutgoingAssumption DEF MessageTypes
    <3> QED
      BY <3>4, <3>5, <3>6 DEF Posted
  <2>6. CASE ServerTakes
    <3>1. sender.at = "posting" /\ posts' = Append(posts, sender.msg)
          /\ sender' = [sender EXCEPT !.at = "posted"] /\ UNCHANGED <<outbox, notSent, taken>>
      BY <2>6 DEF ServerTakes
    <3>2. sender'.at = "posted" /\ sender'.msg = sender.msg
          /\ sender' \in [at : {"waiting", "idle", "posting", "posted", "failed"}, msg : Nat]
      BY <3>1, SenderAt
    <3>3. /\ posts' \in Seq(Nat) /\ posts' # <<>> /\ posts'[Len(posts')] = sender.msg
          /\ Elements(posts') = Elements(posts) \cup {sender.msg}
      BY <1>0, <3>1, Putting
    <3>4. InSending = {sender.msg} /\ InSending' = {sender.msg}
      BY <3>1, <3>2 DEF InSending
    <3>5. MessagesKept'
      BY <1>0, <3>1, <3>3, <3>4 DEF MessagesKept, Elements
    <3> QED
      BY <1>0, <3>1, <3>2, <3>3, <3>5 DEF Posted, MessageTypes
  <2>7. CASE ReportFailure
    <3>1. sender.at \in {"failed", "posted"} /\ notSent' = notSent \cup {sender.msg}
          /\ sender' = [sender EXCEPT !.at = "idle"] /\ UNCHANGED <<outbox, posts, taken>>
      BY <2>7 DEF ReportFailure
    <3>2. sender'.at = "idle" /\ MessageTypes'
      BY <1>0, <3>1, SenderAt DEF MessageTypes
    <3>3. InSending = {sender.msg} /\ InSending' = {}
      BY <3>1, <3>2 DEF InSending
    <3>4. MessagesKept'
      BY <1>0, <3>1, <3>3 DEF MessagesKept, Elements
    <3> QED
      BY <3>2, <3>4 DEF Posted
  <2> QED
    BY <1>2, <2>1, <2>2, <2>3, <2>4, <2>5, <2>6, <2>7, MessageSteps
<1> QED
  BY <1>1, <1>2

LEMMA MessageInvariance == Spec => [](InputInv /\ NewInv /\ MessageInv)
<1>1. Init => InputInv /\ NewInv /\ MessageInv
  BY InputStart, NewStart, MessageStart
<1>2. InputInv /\ NewInv /\ MessageInv /\ [Next]_vars => (InputInv /\ NewInv /\ MessageInv)'
  BY InputStep, NewStep, MessageStep
<1> QED
  BY <1>1, <1>2, PTL DEF Spec

-------------------------------------------------------------------------------
(* Outgoing implements Postbox.                                             *)

\* A queue with one in front of it.
LEMMA WithFront ==
  ASSUME NEW s \in Seq(Nat), NEW x \in Nat
  PROVE  /\ <<x>> \o s \in Seq(Nat) /\ <<x>> \o s # <<>>
         /\ Head(<<x>> \o s) = x /\ Tail(<<x>> \o s) = s
         /\ Elements(<<x>> \o s) = {x} \cup Elements(s)
         /\ \A y \in Nat : <<x>> \o Append(s, y) = Append(<<x>> \o s, y)
         /\ s # <<>> => <<Head(s)>> \o Tail(s) = s
<1> DEFINE q == <<x>> \o s
<1>1. q \in Seq(Nat) /\ Len(q) = Len(s) + 1 /\ q[1] = x /\ Len(s) \in Nat
      /\ \A i \in 1 .. Len(s) : q[i + 1] = s[i]
  OBVIOUS
<1>2. q # <<>> /\ Head(q) = x
  BY <1>1
<1>3. Tail(q) = s
  <2>1. Tail(q) \in Seq(Nat) /\ Len(Tail(q)) = Len(s) /\ \A i \in 1 .. Len(s) : Tail(q)[i] = s[i]
    BY <1>1, <1>2, HeadTailProperties
  <2> QED
    BY <2>1, SeqEqual
<1>4. Elements(q) = {x} \cup Elements(s)
  <2>1. Elements(q) = {Head(q)} \cup Elements(Tail(q))
    BY <1>1, <1>2, Taking
  <2> QED
    BY <1>2, <1>3, <2>1
<1>5. ASSUME NEW y \in Nat PROVE <<x>> \o Append(s, y) = Append(<<x>> \o s, y)
  OBVIOUS
<1>6. s # <<>> => <<Head(s)>> \o Tail(s) = s
  OBVIOUS
<1> QED
  BY <1>1, <1>2, <1>3, <1>4, <1>5, <1>6

\* What the user types is posted once each and in the order it was taken, or
\* reported, however the postings fail and whoever else pushes (App.sendLoop).
THEOREM Implements == Spec => ImplementsPostbox
<1>1. Init => Promise!Init
  BY DEF Init, Promise!Init, InQueue
<1>2. InputInv /\ NewInv /\ MessageInv /\ [Next]_vars => [Promise!Next]_(Promise!vars)
  <2> SUFFICES ASSUME InputInv, NewInv, MessageInv, [Next]_vars
               PROVE  [Promise!Next]_(Promise!vars)
    OBVIOUS
  <2>0. /\ outbox \in Seq(Nat) /\ posts \in Seq(Nat) /\ sender.msg \in Nat
        /\ taken = Elements(outbox) \cup InSending \cup Elements(posts) \cup notSent
    BY DEF MessageInv, MessageTypes, MessagesKept
  <2>1. InQueue \in Seq(Nat) /\ Elements(InQueue) \cup Elements(posts) \cup notSent \subseteq taken
        /\ Elements(InQueue) = Promise!Elements(InQueue) /\ Elements(posts) = Promise!Elements(posts)
    BY <2>0, WithFront DEF InQueue, InSending, Elements, Promise!Elements
  <2>2. CASE UNCHANGED <<outbox, sender, posts, notSent>>
    BY <2>2 DEF Promise!vars, InQueue
  <2>3. ASSUME NEW m \in 1 .. MaxLines, m \notin taken, outbox' = Append(outbox, m),
               UNCHANGED <<sender, posts, notSent>>
        PROVE  Promise!Next
    <3>1. InQueue' = Append(InQueue, m)
      BY <2>0, <2>3, WithFront DEF InQueue
    <3>2. m \notin Promise!Elements(InQueue) \cup Promise!Elements(posts) \cup notSent
      BY <2>1, <2>3
    <3>3. Promise!Accept
      BY <2>3, <3>1, <3>2 DEF Promise!Accept
    <3> QED
      BY <3>3 DEF Promise!Next
  <2>4. CASE PushMessage
    <3>1. lines \in 1 .. MaxLines /\ lines \notin taken
      BY <2>4 DEF PushMessage, NewInv, HandNew, InputInv, InputTypes
    <3>2. outbox' = Append(outbox, lines) /\ UNCHANGED <<sender, posts, notSent>>
      BY <2>4 DEF PushMessage, PutMessage, sending
    <3> QED
      BY <2>3, <3>1, <3>2
  <2>5. ASSUME NEW n \in flagging \cup flagged, FlagPushed(n) PROVE Promise!Next
    <3>1. n \in 1 .. lines /\ n \notin taken
      BY DEF NewInv, FlagsNew
    <3>2. outbox' = Append(outbox, n) /\ UNCHANGED <<sender, posts, notSent>>
      BY <2>5 DEF FlagPushed, sending
    <3>3. n \in 1 .. MaxLines
      BY <3>1, OutgoingAssumption DEF InputInv, InputTypes
    <3> QED
      BY <2>3, <3>1, <3>2, <3>3
  <2>6. CASE SenderStarts \/ PublishFails \/ Answered
    <3>1. PICK a \in {"idle", "failed"} :
            /\ sender' = [sender EXCEPT !.at = a]
            /\ sender.at \in IF a = "idle" THEN {"waiting", "posted"} ELSE {"posting"}
      BY <2>6 DEF SenderStarts, PublishFails, Answered, AfterAnswer
    <3>2. UNCHANGED <<outbox, posts, notSent>>
      BY <2>6 DEF SenderStarts, PublishFails, Answered
    <3>3. sender'.at = a /\ sender'.msg = sender.msg
      BY <3>1, SenderAt DEF MessageInv
    <3> QED
      BY <3>1, <3>2, <3>3 DEF InQueue, Promise!vars
  <2>7. CASE TakeMessage
    <3>1. outbox # <<>> /\ sender.at = "idle" /\ outbox' = Tail(outbox) /\ UNCHANGED <<posts, notSent>>
      BY <2>7 DEF TakeMessage
    <3>2. PICK a \in {"posting", "failed"} : sender' = [at |-> a, msg |-> Head(outbox)]
      BY <2>7 DEF TakeMessage
    <3>3. InQueue' = outbox /\ InQueue = outbox
      BY <2>0, <3>1, <3>2, WithFront DEF InQueue
    <3> QED
      BY <3>1, <3>3 DEF Promise!vars
  <2>8. CASE ServerTakes
    <3>1. sender.at = "posting" /\ posts' = Append(posts, sender.msg)
          /\ sender' = [sender EXCEPT !.at = "posted"] /\ UNCHANGED <<outbox, notSent>>
      BY <2>8 DEF ServerTakes
    <3>2. sender'.at = "posted"
      BY <3>1, SenderAt DEF MessageInv
    <3>3. InQueue = <<sender.msg>> \o outbox /\ InQueue' = outbox
      BY <3>1, <3>2 DEF InQueue
    <3>4. Promise!Post
      BY <2>0, <3>1, <3>3, WithFront DEF Promise!Post
    <3> QED
      BY <3>4 DEF Promise!Next
  <2>9. CASE ReportFailure
    <3>1. sender.at \in {"failed", "posted"} /\ notSent' = notSent \cup {sender.msg}
          /\ sender' = [sender EXCEPT !.at = "idle"] /\ UNCHANGED <<outbox, posts>>
      BY <2>9 DEF ReportFailure
    <3>2. sender'.at = "idle" /\ InQueue' = outbox
      BY <3>1, SenderAt DEF MessageInv, InQueue
    <3>3. CASE sender.at = "failed"
      <4>1. InQueue = <<sender.msg>> \o outbox
        BY <3>3 DEF InQueue
      <4>2. Promise!Refuse
        BY <2>0, <3>1, <3>2, <4>1, WithFront DEF Promise!Refuse
      <4> QED
        BY <4>2 DEF Promise!Next
    <3>4. CASE sender.at = "posted"
      <4>1. posts # <<>> /\ posts[Len(posts)] = sender.msg /\ InQueue = outbox
        BY <3>4 DEF MessageInv, Posted, InQueue
      <4>2. Promise!Doubt
        BY <3>1, <3>2, <4>1 DEF Promise!Doubt
      <4> QED
        BY <4>2 DEF Promise!Next
    <3> QED
      BY <3>1, <3>3, <3>4
  <2> QED
    BY <2>2, <2>4, <2>5, <2>6, <2>7, <2>8, <2>9, MessageSteps DEF vars, sending
<1> QED
  BY <1>1, <1>2, MessageInvariance, PTL DEF Spec, ImplementsPostbox, Promise!Spec

-------------------------------------------------------------------------------
(* Files: the counter, the order and what becomes of each.                 *)

Places == {"waiting", "idle", "telling"} \cup AtWork

FileTypes ==
  /\ uploads \in Seq(Nat) /\ (mode = "room" => Len(uploads) <= UploadsCap)
  /\ uploader \in [at : Places, file : Nat]
  /\ pending \in Int /\ shared \in Seq(Nat)

\* reader send has no prompt and says no goodbye; the room's reader has both.
SendKeeps == /\ mode = "send" => main = "sending" /\ ~counted /\ leaving = {}
             /\ main = "sending" => mode = "send"

\* Files are pushed, taken up and announced in the order of their numbers.
Given  == IF counted THEN asked - 1 ELSE asked
InWork == uploader.at \in AtWork \cup {"telling"}
FileOrder ==
  /\ Ascending(shared) /\ Ascending(uploads)
  /\ \A f \in Elements(uploads) \cup Elements(shared) : f <= Given
  /\ \A f \in Elements(shared), g \in Elements(uploads) : f < g
  /\ InWork => uploader.file <= Given /\ \A g \in Elements(uploads) : uploader.file < g
  /\ uploader.at \in {"streaming", "announcing"} => \A f \in Elements(shared) : f < uploader.file
  /\ uploader.at = "shared" => uploader.file \in Elements(shared)

FileInv == FileTypes /\ SendKeeps /\ PendingExact /\ FilesKept /\ FileOrder

\* uploader moved on with the file it has.
LEMMA UploaderAt ==
  ASSUME FileTypes, NEW a \in Places, uploader' = [uploader EXCEPT !.at = a]
  PROVE  uploader'.at = a /\ uploader'.file = uploader.file /\ uploader.file \in Nat
         /\ uploader' \in [at : Places, file : Nat]
BY DEF FileTypes, Places

LEMMA FileStart == Init => FileInv
<1> SUFFICES ASSUME Init PROVE FileInv
  OBVIOUS
<1>1. /\ pending = 0 /\ shared = <<>> /\ notShared = {} /\ counted = FALSE /\ leaving = {}
      /\ uploads = [k \in 1 .. asked |-> k]
      /\ uploader = [at |-> "waiting", file |-> 0]
      /\ main = (IF mode = "send" THEN "sending" ELSE "reading")
  BY DEF Init
<1>2. asked \in Nat /\ (mode # "send" => asked = 0)
  BY OutgoingAssumption DEF Init
<1>3. /\ uploads \in Seq(Nat) /\ Len(uploads) = asked /\ Ascending(uploads)
      /\ Elements(uploads) = 1 .. asked
  <2>1. uploads \in Seq(Nat) /\ Len(uploads) = asked /\ \A k \in 1 .. asked : uploads[k] = k
    BY <1>1, <1>2
  <2> QED
    BY <1>2, <2>1 DEF Ascending, Elements
<1>4. FileTypes
  BY <1>1, <1>2, <1>3, NoneIn, OutgoingAssumption DEF FileTypes, Places
<1>5. SendKeeps
  BY <1>1, OutgoingAssumption DEF SendKeeps
<1>6. PendingExact
  BY <1>1, <1>2, <1>3 DEF PendingExact, AtWork
<1>7. FilesKept
  BY <1>1, <1>3, NoneIn DEF FilesKept, InSharing, AtWork
<1>8. FileOrder
  BY <1>1, <1>2, <1>3, NoneIn DEF FileOrder, Given, InWork, AtWork
<1> QED
  BY <1>4, <1>5, <1>6, <1>7, <1>8 DEF FileInv

LEMMA SendKeepsOn == InputInv /\ SendKeeps /\ [Next]_vars => SendKeeps'
<1> SUFFICES ASSUME InputInv, SendKeeps, [Next]_vars PROVE SendKeeps'
  OBVIOUS
<1> USE DEF SendKeeps
<1>1. CASE UNCHANGED vars
  BY <1>1 DEF vars, input, ending
<1>2. CASE Next
  <2>0. mode' = mode
    BY <1>2, ModeStays
  <2>1. main' = main \/ (main # "sending" /\ main' # "sending")
    <3>1. CASE UNCHANGED <<main, hand, counted, lines, asked, quitWarned>>
      BY <3>1
    <3>2. CASE TypeMessage \/ TypeAction \/ TypeFlag \/ Quit \/ InputEnds
               \/ \E n \in 1 .. MaxPaths : TypeSend(n) \/ TypeGet(n)
      BY <3>2 DEF TypeMessage, TypeAction, TypeFlag, Quit, InputEnds, TypeSend, TypeGet, Read,
        Hands, ConfirmQuit
    <3>3. CASE PushMessage \/ CountUpload \/ PushUpload \/ PushDownload
      BY <3>3 DEF PushMessage, CountUpload, PushUpload, PushDownload, Pushed
    <3> QED
      BY <1>2, <3>1, <3>2, <3>3, InputSteps
  <2>2. mode = "send" => counted' = counted
    <3>1. CASE UNCHANGED <<main, hand, counted, lines, asked, quitWarned>>
      BY <3>1
    <3>2. CASE TypeMessage \/ TypeAction \/ TypeFlag \/ Quit \/ InputEnds
               \/ \E n \in 1 .. MaxPaths : TypeSend(n) \/ TypeGet(n)
      BY <3>2 DEF TypeMessage, TypeAction, TypeFlag, Quit, InputEnds, TypeSend, TypeGet
    <3>3. CASE PushMessage \/ CountUpload \/ PushUpload \/ PushDownload
      BY <3>3 DEF PushMessage, CountUpload, PushUpload, PushDownload
    <3> QED
      BY <1>2, <3>1, <3>2, <3>3, InputSteps
  <2>3. mode = "send" => leaving' = leaving
    BY <1>2, EndSteps DEF Quit, SendStarts, SendEnds, WatcherActs, Exit
  <2> QED
    BY <2>0, <2>1, <2>2, <2>3
<1> QED
  BY <1>1, <1>2

\* A file that is counted or pushed stands last.
LEMMA AskedSteps ==
  ASSUME InputInv, FileInv, CountUpload \/ PushUpload, mode' = mode
  PROVE  FileTypes' /\ PendingExact' /\ FilesKept' /\ FileOrder'
<1> USE DEF FileInv
<1>0. /\ uploads \in Seq(Nat) /\ asked \in Nat /\ pending \in Int /\ mode # "send" /\ MaxPaths \in Nat
      /\ \A f \in Elements(uploads) \cup Elements(shared) : f <= Given
      /\ shared \in Seq(Nat) /\ uploader.file \in Nat /\ Len(uploads) \in Nat
  BY OutgoingAssumption DEF FileTypes, InputInv, InputTypes, CountUpload, PushUpload, SendKeeps, FileOrder
<1>1. CASE CountUpload
  <2>1. ~counted /\ counted' = TRUE /\ pending' = pending + 1 /\ asked' = asked + 1
        /\ UNCHANGED <<uploads, uploader, shared, notShared>>
    BY <1>1 DEF CountUpload, CountedUp, sharing
  <2>2. Given' = asked /\ Given = asked
    BY <1>0, <2>1 DEF Given
  <2>3. FileTypes'
    BY <1>0, <2>1 DEF FileTypes
  <2>4. PendingExact'
    BY <1>0, <2>1 DEF PendingExact
  <2>5. FilesKept'
    <3>1. 1 .. asked = Elements(uploads) \cup InSharing \cup Elements(shared) \cup notShared
      BY <2>1 DEF FilesKept
    <3>2. 1 .. asked' = {asked'} \cup 1 .. asked
      BY <1>0, <2>1
    <3> QED
      BY <2>1, <3>1, <3>2 DEF FilesKept, InSharing, Elements
  <2>6. FileOrder'
    BY <2>1, <2>2 DEF FileOrder, InWork, Elements, Ascending
  <2> QED
    BY <2>3, <2>4, <2>5, <2>6
<1>2. CASE PushUpload
  <2>1. counted /\ counted' = FALSE /\ uploads' = Append(uploads, asked) /\ Len(uploads) < UploadsCap
        /\ UNCHANGED <<asked, pending, uploader, shared, notShared>>
    BY <1>2 DEF PushUpload, sharing
  <2>2. Given' = asked /\ Given = asked - 1
    BY <2>1 DEF Given
  <2>3. /\ uploads' \in Seq(Nat) /\ Len(uploads') = Len(uploads) + 1
        /\ Elements(uploads') = Elements(uploads) \cup {asked}
        /\ Ascending(uploads) /\ (\A y \in Elements(uploads) : y < asked) => Ascending(uploads')
    BY <1>0, <2>1, Putting
  <2>4. \A f \in Elements(uploads) \cup Elements(shared) : f \in Nat /\ f < asked
    <3>1. \A f \in Elements(uploads) \cup Elements(shared) : f \in Nat
      BY <1>0 DEF Elements
    <3>2. \A f \in Elements(uploads) \cup Elements(shared) : f <= asked - 1
      BY <1>0, <2>2
    <3> QED
      BY <1>0, <3>1, <3>2
  <2>5. FileTypes'
    BY <1>0, <2>1, <2>3, OutgoingAssumption DEF FileTypes
  <2>6. PendingExact'
    BY <1>0, <2>1, <2>3 DEF PendingExact
  <2>7. FilesKept'
    <3>1. 1 .. asked = {asked} \cup Elements(uploads) \cup InSharing \cup Elements(shared) \cup notShared
      BY <2>1 DEF FilesKept
    <3>2. Elements(shared)' = Elements(shared) /\ InSharing' = InSharing /\ asked' = asked
      BY <2>1 DEF Elements, InSharing
    <3> QED
      BY <2>1, <2>3, <3>1, <3>2 DEF FilesKept
  <2>8. FileOrder'
    <3>1. Elements(shared)' = Elements(shared) /\ Ascending(shared)' = Ascending(shared)
          /\ InWork' = InWork /\ uploader' = uploader
      BY <2>1 DEF Elements, Ascending, InWork
    <3>2. Ascending(uploads') /\ \A f \in Elements(uploads') \cup Elements(shared) : f <= Given'
      BY <1>0, <2>2, <2>3, <2>4 DEF FileOrder
    <3>3. \A f \in Elements(shared), g \in Elements(uploads') : f < g
      BY <2>3, <2>4 DEF FileOrder
    <3>4. InWork => uploader.file <= Given' /\ \A g \in Elements(uploads') : uploader.file < g
      BY <1>0, <2>2, <2>3 DEF FileOrder
    <3> QED
      BY <3>1, <3>2, <3>3, <3>4 DEF FileOrder, Elements, Ascending
  <2> QED
    BY <2>5, <2>6, <2>7, <2>8
<1> QED
  BY <1>1, <1>2

\* The steps in which uploader only moves on, or announces or tells of its file.
Moves(a) ==
  /\ UNCHANGED <<mode, counted, asked, uploads>>
  /\ uploader' = [uploader EXCEPT !.at = a]
  /\ \/ (a \in AtWork <=> uploader.at \in AtWork) /\ pending' = pending
     \/ /\ uploader.at \in AtWork /\ a \notin AtWork /\ pending' \in Int
        /\ mode = "room" => pending' = pending - 1
  /\ shared' = shared \/ (uploader.at = "announcing" /\ shared' = Append(shared, uploader.file))
  /\ notShared' = notShared \/ (notShared' = notShared \cup {uploader.file} /\ InWork)
  /\ a \in {"streaming", "announcing"} =>
       uploader.at \in {"streaming", "announcing"} /\ shared' = shared
  /\ a = "shared" => shared' # shared
  /\ a \in AtWork \cup {"telling"} => InWork
  /\ InWork /\ a \notin AtWork \cup {"telling"} => uploader.file \in Elements(shared) \cup notShared'

LEMMA WorkSteps ==
  ASSUME InputInv, FileInv, NEW a \in Places, Moves(a)
  PROVE  FileTypes' /\ PendingExact' /\ FilesKept' /\ FileOrder'
<1> USE DEF FileInv, Moves
<1>1. uploader'.at = a /\ uploader'.file = uploader.file /\ uploader.file \in Nat
      /\ uploader' \in [at : Places, file : Nat]
  BY UploaderAt
<1>2. /\ shared \in Seq(Nat) /\ uploads \in Seq(Nat) /\ pending \in Int /\ Len(uploads) \in Nat
      /\ (mode = "room" => Len(uploads) <= UploadsCap)
  BY DEF FileTypes
<1>3. /\ shared' \in Seq(Nat)
      /\ Elements(shared') \subseteq Elements(shared) \cup {uploader.file}
      /\ Elements(shared) \subseteq Elements(shared')
      /\ shared' # shared => InWork /\ Elements(shared') = Elements(shared) \cup {uploader.file}
      /\ Ascending(shared')
  <2>1. CASE shared' = shared
    BY <1>2, <2>1 DEF FileOrder
  <2>2. CASE uploader.at = "announcing" /\ shared' = Append(shared, uploader.file)
    <3>1. \A f \in Elements(shared) : f < uploader.file
      BY <2>2 DEF FileOrder
    <3> QED
      BY <1>1, <1>2, <2>2, <3>1, Putting DEF FileOrder, InWork, AtWork
  <2> QED
    BY <2>1, <2>2
<1>4. FileTypes'
  BY <1>1, <1>2, <1>3 DEF FileTypes
<1>5. PendingExact'
  <2>1. CASE (a \in AtWork <=> uploader.at \in AtWork) /\ pending' = pending
    BY <1>1, <1>2, <2>1 DEF PendingExact
  <2>2. CASE uploader.at \in AtWork /\ a \notin AtWork /\ (mode = "room" => pending' = pending - 1)
    BY <1>1, <1>2, <2>2 DEF PendingExact
  <2> QED
    BY <2>1, <2>2
<1>6. FilesKept'
  <2>1. /\ 1 .. asked = (IF counted THEN {asked} ELSE {}) \cup Elements(uploads) \cup InSharing
                          \cup Elements(shared) \cup notShared
        /\ InSharing = (IF InWork THEN {uploader.file} ELSE {})
        /\ InSharing' = (IF a \in AtWork \cup {"telling"} THEN {uploader.file} ELSE {})
    BY <1>1 DEF FilesKept, InSharing, InWork
  <2>2. InSharing' \cup Elements(shared') \cup notShared' = InSharing \cup Elements(shared) \cup notShared
    BY <1>3, <2>1
  <2>3. 1 .. asked' = (IF counted' THEN {asked'} ELSE {}) \cup Elements(uploads') \cup InSharing'
                        \cup Elements(shared') \cup notShared'
    BY <2>1, <2>2
  <2> QED
    BY <2>3 DEF FilesKept, Elements
<1>7. FileOrder'
  <2>1. Given' = Given
    BY DEF Given
  <2>2. InWork' = (a \in AtWork \cup {"telling"})
    BY <1>1 DEF InWork
  <2>3. /\ \A f \in Elements(uploads) \cup Elements(shared') : f <= Given
        /\ \A f \in Elements(shared'), g \in Elements(uploads) : f < g
    BY <1>3 DEF FileOrder
  <2>4. a \in AtWork \cup {"telling"} =>
          uploader.file <= Given /\ \A g \in Elements(uploads) : uploader.file < g
    BY DEF FileOrder
  <2>5. a \in {"streaming", "announcing"} => \A f \in Elements(shared') : f < uploader.file
    BY DEF FileOrder
  <2>6. a = "shared" => uploader.file \in Elements(shared')
    BY <1>3
  <2>7. Ascending(uploads)
    BY DEF FileOrder
  <2> QED
    BY <1>1, <1>3, <2>1, <2>2, <2>3, <2>4, <2>5, <2>6, <2>7 DEF FileOrder, Elements, Ascending
<1> QED
  BY <1>4, <1>5, <1>6, <1>7

LEMMA TakeStep ==
  ASSUME InputInv, FileInv, TakeUpload, mode' = mode
  PROVE  FileTypes' /\ PendingExact' /\ FilesKept' /\ FileOrder'
<1> USE DEF FileInv
<1>1. uploader.at = "idle" /\ uploads # <<>> /\ uploads' = Tail(uploads)
      /\ UNCHANGED <<counted, asked, pending, shared, notShared>>
  BY DEF TakeUpload, fromUploader, input
<1>2. PICK a \in {"failed", "streaming"} : uploader' = [at |-> a, file |-> Head(uploads)]
  BY DEF TakeUpload, NextUpload
<1>3. /\ Head(uploads) \in Nat /\ uploads' \in Seq(Nat) /\ Len(uploads) \in Nat
      /\ Len(uploads') = Len(uploads) - 1
      /\ Elements(uploads) = {Head(uploads)} \cup Elements(uploads')
      /\ Ascending(uploads') /\ \A x \in Elements(uploads') : Head(uploads) < x
  BY <1>1, Taking DEF FileTypes, FileOrder
<1>4. uploader'.at = a /\ uploader'.file = Head(uploads) /\ uploader' \in [at : Places, file : Nat]
      /\ a \in AtWork /\ uploader.at \notin AtWork
  BY <1>1, <1>2, <1>3 DEF Places, AtWork
<1>5. FileTypes'
  BY <1>1, <1>3, <1>4, OutgoingAssumption DEF FileTypes
<1>6. PendingExact'
  <2>1. mode = "room" => pending = Len(uploads) + (IF counted THEN 1 ELSE 0)
    BY <1>4 DEF PendingExact
  <2>2. mode' = "room" => pending' = Len(uploads') + (IF counted' THEN 1 ELSE 0) + 1
    BY <1>1, <1>3, <2>1
  <2> QED
    BY <1>4, <2>2 DEF PendingExact
<1>7. FilesKept'
  <2>1. InSharing = {} /\ InSharing' = {Head(uploads)}
    BY <1>1, <1>4 DEF InSharing, AtWork
  <2> QED
    BY <1>1, <1>3, <2>1 DEF FilesKept, Elements
<1>8. FileOrder'
  <2>1. Given' = Given /\ Head(uploads) \in Elements(uploads) /\ a # "shared"
    BY <1>1, <1>3 DEF Given
  <2>2. Ascending(shared) /\ (\A f \in Elements(uploads) \cup Elements(shared) : f <= Given)
        /\ \A f \in Elements(shared), g \in Elements(uploads) : f < g
    BY DEF FileOrder
  <2> QED
    BY <1>1, <1>3, <1>4, <2>1, <2>2 DEF FileOrder, InWork, Elements, Ascending
<1> QED
  BY <1>5, <1>6, <1>7, <1>8

LEMMA FileStep == InputInv /\ FileInv /\ [Next]_vars => FileInv'
<1> SUFFICES ASSUME InputInv, FileInv, [Next]_vars PROVE FileInv'
  OBVIOUS
<1>1. SendKeeps'
  BY SendKeepsOn DEF FileInv
<1>2. CASE UNCHANGED vars \/ UNCHANGED <<mode, counted, asked, pending, uploads, uploader, shared, notShared>>
  <2>1. UNCHANGED <<mode, counted, asked, pending, uploads, uploader, shared, notShared>>
    BY <1>2 DEF vars, input, sharing
  <2>2. FileTypes' /\ PendingExact'
    BY <2>1 DEF FileInv, FileTypes, PendingExact
  <2>3. FilesKept'
    BY <2>1 DEF FileInv, FilesKept, InSharing, Elements
  <2>4. Given' = Given /\ InWork' = InWork /\ Elements(shared)' = Elements(shared)
        /\ Elements(uploads)' = Elements(uploads) /\ Ascending(shared)' = Ascending(shared)
        /\ Ascending(uploads)' = Ascending(uploads)
    BY <2>1 DEF Given, InWork, Elements, Ascending
  <2>5. FileOrder'
    BY <2>1, <2>4 DEF FileInv, FileOrder
  <2> QED
    BY <1>1, <2>2, <2>3, <2>5 DEF FileInv
<1>3. CASE Next
  <2>0. mode' = mode
    BY <1>3, ModeStays
  <2>1. CASE CountUpload \/ PushUpload
    BY <1>1, <2>0, <2>1, AskedSteps DEF FileInv
  <2>2. CASE TakeUpload
    <3>1. FileTypes' /\ PendingExact' /\ FilesKept' /\ FileOrder'
      BY <2>0, <2>2, TakeStep
    <3> QED
      BY <1>1, <3>1 DEF FileInv
  <2>3. CASE UploaderStarts \/ SendStarts
    <3>1. CASE uploader' = uploader
      <4>1. UNCHANGED <<mode, counted, asked, pending, uploads, shared, notShared>>
        BY <2>3 DEF UploaderStarts, SendStarts, fromUploader, input
      <4> QED
        BY <1>2, <3>1, <4>1
    <3>2. CASE uploader' # uploader
      <4>1. uploader.at = "waiting" /\ uploader' = [uploader EXCEPT !.at = "idle"]
            /\ UNCHANGED <<counted, asked, pending, uploads, shared, notShared>>
        BY <2>3, <3>2 DEF UploaderStarts, SendStarts, fromUploader, input
      <4>2. Moves("idle")
        BY <2>0, <4>1 DEF Moves, InWork, AtWork
      <4> QED
        BY <1>1, <4>2, WorkSteps DEF FileInv, Places
    <3> QED
      BY <3>1, <3>2
  <2>4. CASE StoreFile \/ UploadFails \/ AnnounceFails
    <3>1. PICK a \in {"announcing", "failed"} : uploader' = [uploader EXCEPT !.at = a]
            /\ (a = "announcing" => uploader.at = "streaming")
      BY <2>4 DEF StoreFile, UploadFails, AnnounceFails
    <3>2. uploader.at \in {"streaming", "announcing", "shared"}
          /\ UNCHANGED <<counted, asked, pending, uploads, shared, notShared>>
      BY <2>4 DEF StoreFile, UploadFails, AnnounceFails, fromUploader, input
    <3>3. Moves(a)
      BY <2>0, <3>1, <3>2 DEF Moves, InWork, AtWork
    <3> QED
      BY <1>1, <3>3, WorkSteps DEF FileInv, Places, AtWork
  <2>5. CASE Announce
    <3>1. uploader.at = "announcing" /\ shared' = Append(shared, uploader.file)
          /\ uploader' = [uploader EXCEPT !.at = "shared"]
          /\ UNCHANGED <<counted, asked, pending, uploads, notShared>>
      BY <2>5 DEF Announce, fromUploader, input
    <3>2. shared \in Seq(Nat) /\ uploader.file \in Nat
      BY DEF FileInv, FileTypes
    <3>3. shared' # shared
      BY <3>1, <3>2, Putting
    <3>4. Moves("shared")
      BY <2>0, <3>1, <3>3 DEF Moves, InWork, AtWork
    <3> QED
      BY <1>1, <3>4, WorkSteps DEF FileInv, Places, AtWork
  <2>6. CASE UploadDone
    <3>1. PICK a \in {"telling", "idle"} : uploader' = [uploader EXCEPT !.at = a]
            /\ (a = "idle" => uploader.at = "shared")
      BY <2>6 DEF UploadDone
    <3>2. uploader.at \in {"shared", "failed"} /\ pending' = pending - 1 /\ pending \in Int
          /\ UNCHANGED <<counted, asked, uploads, shared, notShared>>
      BY <2>6 DEF UploadDone, CountedDown, fromUploader, input, FileInv, FileTypes
    <3>3. a = "idle" => uploader.file \in Elements(shared)
      BY <3>1 DEF FileInv, FileOrder
    <3>4. Moves(a)
      BY <2>0, <3>1, <3>2, <3>3 DEF Moves, InWork, AtWork
    <3> QED
      BY <1>1, <3>4, WorkSteps DEF FileInv, Places
  <2>7. CASE UploadReported
    <3>1. uploader.at = "telling" /\ notShared' = notShared \cup {uploader.file}
          /\ uploader' = [uploader EXCEPT !.at = "idle"]
          /\ UNCHANGED <<counted, asked, pending, uploads, shared>>
      BY <2>7 DEF UploadReported, fromUploader, input
    <3>2. Moves("idle")
      BY <2>0, <3>1 DEF Moves, InWork, AtWork
    <3> QED
      BY <1>1, <3>2, WorkSteps DEF FileInv, Places
  <2>8. CASE SendDone
    <3>1. mode = "send" /\ uploader.at \in {"shared", "failed"}
          /\ uploader' = [uploader EXCEPT !.at = "idle"]
          /\ notShared' = (IF uploader.at = "failed" THEN notShared \cup {uploader.file} ELSE notShared)
          /\ UNCHANGED <<counted, asked, pending, uploads, shared>>
      BY <2>8 DEF SendDone, fromUploader, input
    <3>2. uploader.at = "shared" => uploader.file \in Elements(shared)
      BY DEF FileInv, FileOrder
    <3>3. pending \in Int
      BY DEF FileInv, FileTypes
    <3>4. Moves("idle")
      BY <2>0, <3>1, <3>2, <3>3 DEF Moves, InWork, AtWork
    <3> QED
      BY <1>1, <3>4, WorkSteps DEF FileInv, Places
  <2> QED
    BY <1>2, <1>3, <2>0, <2>1, <2>2, <2>3, <2>4, <2>5, <2>6, <2>7, <2>8, FileSteps
<1> QED
  BY <1>2, <1>3

LEMMA FileInvariance == Spec => [](InputInv /\ FileInv)
<1>1. Init => InputInv /\ FileInv
  BY InputStart, FileStart
<1>2. InputInv /\ FileInv /\ [Next]_vars => (InputInv /\ FileInv)'
  BY InputStep, FileStep
<1> QED
  BY <1>1, <1>2, PTL DEF Spec

\* main.go:356: nobody quits unwarned while a file is counted, queued or in work,
\* whatever the goroutines do between the look and the end (App.confirmQuit).
THEOREM QuitWarned == Spec => QuitAsksFirst
<1>1. InputInv /\ FileInv /\ [Next]_vars
        => [main = "reading" /\ main' = "quitting" /\ ~quitWarned => ~Unfinished]_vars
  <2> SUFFICES ASSUME InputInv, FileInv, Next, main = "reading", main' = "quitting", ~quitWarned
               PROVE  ~Unfinished
    OBVIOUS
  <2>1. Quit
    <3>1. CASE TypeMessage \/ TypeAction \/ TypeFlag \/ InputEnds
               \/ \E n \in 1 .. MaxPaths : TypeSend(n) \/ TypeGet(n)
      BY <3>1 DEF TypeMessage, TypeAction, TypeFlag, InputEnds, TypeSend, TypeGet, Hands
    <3>2. CASE PushMessage \/ CountUpload \/ PushUpload \/ PushDownload
      BY <3>2 DEF PushMessage, CountUpload, PushUpload, PushDownload
    <3> QED
      BY <3>1, <3>2, InputSteps
  <2>2. pending = 0
    BY <2>1 DEF Quit, ConfirmQuit, MayQuit
  <2>3. mode = "room"
    BY OutgoingAssumption DEF InputInv, InputTypes, FileInv, SendKeeps
  <2> DEFINE c == IF counted THEN 1 ELSE 0
             w == IF uploader.at \in AtWork THEN 1 ELSE 0
  <2>4. uploads \in Seq(Nat) /\ Len(uploads) \in Nat
    BY DEF FileInv, FileTypes
  <2>5. Len(uploads) = 0 /\ ~counted /\ uploader.at \notin AtWork
    <3>1. pending = Len(uploads) + c + w
      BY <2>3 DEF FileInv, PendingExact
    <3>2. c \in {0, 1} /\ w \in {0, 1} /\ (c = 0 => ~counted) /\ (w = 0 => uploader.at \notin AtWork)
      OBVIOUS
    <3> HIDE DEF c, w
    <3>3. Len(uploads) = 0 /\ c = 0 /\ w = 0
      BY <2>2, <2>4, <3>1, <3>2
    <3> QED
      BY <3>2, <3>3
  <2>6. uploads = <<>>
    BY <2>4, <2>5, EmptySeq
  <2> QED
    BY <2>5, <2>6 DEF Unfinished, AtWork
<1> QED
  BY <1>1, FileInvariance, PTL DEF Spec, QuitAsksFirst

\* The exit status of "reader send": 0 only when each file was announced, 1 only
\* when a failure was told (runSend).
THEOREM Truth == Spec => []SendTellsTruth
<1>1. Init => SendTellsTruth
  BY DEF Init, SendTellsTruth
<1>2. InputInv /\ FileInv /\ SendTellsTruth /\ [Next]_vars => SendTellsTruth'
  <2> SUFFICES ASSUME InputInv, FileInv, SendTellsTruth, [Next]_vars PROVE SendTellsTruth'
    OBVIOUS
  <2>1. CASE UNCHANGED vars
    BY <2>1 DEF vars, input, ending, sharing, SendTellsTruth, Elements
  <2>2. CASE Next
    <3>0. mode' = mode /\ status = -1
      BY <2>2, ModeStays DEF Next, Alive
    <3>1. CASE UNCHANGED <<leaving, status>> \/ Quit \/ WatcherActs
      <4>1. status' = -1
        BY <3>0, <3>1 DEF Quit, WatcherActs
      <4> QED
        BY <4>1 DEF SendTellsTruth
    <3>2. CASE SendStarts
      <4>1. status' = -1 \/ (status' = 1 /\ uploader'.at = "waiting")
        BY <3>0, <3>2 DEF SendStarts
      <4> QED
        BY <4>1 DEF SendTellsTruth
    <3>3. CASE SendEnds
      <4>1. /\ mode = "send" /\ uploader.at = "idle" /\ uploads = <<>> /\ ~counted
            /\ status' = (IF notShared # {} THEN 1 ELSE 0) /\ UNCHANGED <<asked, shared, notShared>>
        BY <3>3 DEF SendEnds, SendStatus, fromUploader, input, sharing, FileInv, SendKeeps
      <4>2. 1 .. asked = Elements(shared) \cup notShared
        BY <4>1, NoneIn DEF FileInv, FilesKept, InSharing, AtWork
      <4> QED
        BY <4>1, <4>2 DEF SendTellsTruth, Elements
    <3>4. CASE Exit
      <4>1. mode # "send"
        BY <3>4 DEF Exit, FileInv, SendKeeps
      <4> QED
        BY <3>0, <4>1 DEF SendTellsTruth
    <3> QED
      BY <2>2, <3>1, <3>2, <3>3, <3>4, EndSteps
  <2> QED
    BY <2>1, <2>2
<1> QED
  BY <1>1, <1>2, FileInvariance, PTL DEF Spec

-------------------------------------------------------------------------------
(* The rest of the types, and all that QueuesInv says.                      *)

EndTypes == leaving \subseteq {"main", "watcher"} /\ status \in {-1, 0, 1, 130}
RestTypes ==
  /\ pending \in Nat /\ downloads \in 0 .. DownloadsCap
  /\ stored.size \in Nat /\ stored.steady \in BOOLEAN
  /\ joined \in BOOLEAN /\ tenSeconds \in BOOLEAN /\ canceled \in BOOLEAN /\ closed \in BOOLEAN
  /\ EndTypes

LEMMA RestStart == Init => RestTypes
<1> SUFFICES ASSUME Init PROVE RestTypes
  OBVIOUS
<1>1. pending = 0 /\ downloads = 0 /\ stored = NoStream /\ leaving = {} /\ status = -1
      /\ joined = FALSE /\ tenSeconds = FALSE /\ canceled = FALSE /\ closed = FALSE
  BY Zenon DEF Init
<1>2. pending \in Nat /\ downloads \in 0 .. DownloadsCap /\ EndTypes
  BY <1>1, OutgoingAssumption DEF EndTypes
<1>3. NoStream.size \in Nat /\ NoStream.steady = TRUE
  BY DEF NoStream
<1> QED
  BY Zenon, <1>1, <1>2, <1>3 DEF RestTypes

LEMMA RestStep == InputInv /\ FileInv /\ RestTypes /\ [Next]_vars => RestTypes'
<1> SUFFICES ASSUME InputInv, FileInv, RestTypes, [Next]_vars PROVE RestTypes'
  OBVIOUS
<1>0. FileInv' /\ InputInv'
  BY FileStep, InputStep
<1>1. CASE UNCHANGED vars
  BY Zenon, <1>1 DEF vars, events, ending, sharing, RestTypes, EndTypes
<1>2. CASE Next
  <2>0. mode' = mode /\ mode \in {"room", "send"}
    BY <1>2, ModeStays, OutgoingAssumption DEF InputInv, InputTypes
  <2>1. pending' \in Nat
    <3>1. CASE mode = "room"
      <4>1. uploads' \in Seq(Nat) /\ Len(uploads') \in Nat
        BY <1>0 DEF FileInv, FileTypes
      <4>2. pending' = Len(uploads') + (IF counted' THEN 1 ELSE 0)
                        + (IF uploader'.at \in AtWork THEN 1 ELSE 0)
        BY <1>0, <2>0, <3>1 DEF FileInv, PendingExact
      <4>3. \E x \in Nat, y \in Nat : pending' = Len(uploads') + x + y
        <5>1. \E x \in Nat : x = IF counted' THEN 1 ELSE 0
          OBVIOUS
        <5>2. \E y \in Nat : y = IF uploader'.at \in AtWork THEN 1 ELSE 0
          OBVIOUS
        <5> QED
          BY Zenon, <4>2, <5>1, <5>2
      <4> QED
        BY <4>1, <4>3
    <3>2. CASE mode = "send"
      <4>1. ~CountUpload /\ ~UploadDone
        BY <3>2 DEF CountUpload, UploadDone, FileInv, SendKeeps
      <4>2. pending' = pending
        BY Zenon, <1>2, <4>1, FileSteps DEF PushUpload, UploaderStarts, TakeUpload, StoreFile,
          UploadFails, Announce, AnnounceFails, UploadReported, SendStarts, SendDone
      <4> QED
        BY <4>2 DEF RestTypes
    <3> QED
      BY <2>0, <3>1, <3>2
  <2>2. downloads' \in 0 .. DownloadsCap
    BY <1>2, OtherSteps, OutgoingAssumption DEF RestTypes, PushDownload, LiveFile, TakeDownload
  <2>3. stored'.size \in Nat /\ stored'.steady \in BOOLEAN
    <3>1. CASE stored' = stored
      BY Zenon, <3>1 DEF RestTypes
    <3>2. CASE stored' = NoStream
      BY Zenon, <3>2 DEF NoStream
    <3>3. CASE StoreFile
      <4>1. PICK size \in FileSizes : \E now \in Readings(size) : Streamed(size, now)
        BY <3>3 DEF StoreFile
      <4>2. PICK now \in Readings(size) : Streamed(size, now)
        BY <4>1
      <4>3. stored' = [size |-> size, steady |-> Steady(now, size), bytes |-> Encrypted(BytesRead(now))]
        BY Zenon, <4>2 DEF Streamed
      <4>4. stored'.size = size /\ stored'.steady = Steady(now, size)
        BY Zenon, <4>3
      <4>5. Steady(now, size) \in BOOLEAN
        BY Zenon DEF Steady
      <4>6. size \in Nat
        BY OutgoingAssumption
      <4> QED
        BY Zenon, <4>4, <4>5, <4>6
    <3>4. stored' = stored \/ stored' = NoStream \/ StoreFile
      BY Zenon, <1>2, FileSteps DEF CountUpload, PushUpload, UploaderStarts, TakeUpload,
        UploadFails, Announce, AnnounceFails, UploadDone, UploadReported, SendStarts, SendDone, sharing
    <3> QED
      BY <3>1, <3>2, <3>3, <3>4
  <2>4. joined' \in BOOLEAN /\ tenSeconds' \in BOOLEAN /\ canceled' \in BOOLEAN /\ closed' \in BOOLEAN
    BY Zenon, <1>2, OtherSteps DEF RestTypes, PushDownload, LiveFile, TakeDownload, Joins, TenSecondsPass,
      SignalArrives, RoomCloses, events, fromOthers
  <2>5. EndTypes'
    <3>1. SendStatus \in {0, 1}
      BY DEF SendStatus
    <3> QED
      BY <1>2, <3>1, EndSteps DEF RestTypes, EndTypes, Quit, ConfirmQuit, SendStarts, SendEnds,
        WatcherActs, Exit
  <2> QED
    BY Zenon, <2>1, <2>2, <2>3, <2>4, <2>5 DEF RestTypes
<1> QED
  BY <1>1, <1>2

\* The state of the way out is well typed, the counter counts the files that are
\* not done with, nothing taken from the user vanishes, and files are announced
\* in the order they were asked for (App.command, sendLoop, uploadLoop, runSend).
THEOREM Queues == Spec => []QueuesInv
<1>1. Init => RestTypes
  BY RestStart
<1>2. InputInv /\ FileInv /\ RestTypes /\ [Next]_vars => RestTypes'
  BY RestStep
<1>3. InputInv /\ NewInv /\ MessageInv /\ FileInv /\ RestTypes => QueuesInv
  <2> SUFFICES ASSUME InputInv, NewInv, MessageInv, FileInv, RestTypes PROVE QueuesInv
    OBVIOUS
  <2>1. taken \subseteq Nat /\ flagging \subseteq Nat /\ flagged \subseteq Nat
    BY DEF InputInv, InputTypes, NewInv, FlagsNew
  <2>2. notSent \subseteq Nat
    BY <2>1 DEF MessageInv, MessagesKept
  <2>3. notShared \subseteq Nat
    BY DEF InputInv, InputTypes, FileInv, FilesKept
  <2>4. TypeOK
    BY Zenon, <2>1, <2>2, <2>3 DEF TypeOK, InputInv, InputTypes, Channels, MessageInv, MessageTypes,
      FileInv, FileTypes, Places, RestTypes, EndTypes
  <2> QED
    BY <2>4 DEF QueuesInv, MessageInv, FileInv, FileOrder, NothingVanishes, SharedInOrder
<1> QED
  BY <1>1, <1>2, <1>3, MessageInvariance, FileInvariance, PTL DEF Spec

-------------------------------------------------------------------------------
(* Arithmetic, and streams put together of records.                        *)

LEMMA Times == ASSUME NEW a \in Nat, NEW b \in Nat, NEW c \in Nat
               PROVE  a * c \in Nat /\ (a <= b => a * c <= b * c) /\ (a + 1) * c = a * c + c
<1>1. a * c \in Nat /\ b * c \in Nat /\ (a + 1) * c = a * c + c
  OBVIOUS
<1>2. ASSUME a <= b PROVE a * c <= b * c
  <2>1. PICK d \in Nat : b = a + d
    <3>1. b - a \in Nat /\ b = a + (b - a)
      BY <1>2
    <3> QED BY <3>1
  <2>2. b * c = a * c + d * c /\ d * c \in Nat
    BY <2>1
  <2> QED BY <1>1, <2>2
<1> QED BY <1>1, <1>2

\* A division rounded up: full parts, and a last one that is not empty.
LEMMA RoundedUp ==
  ASSUME NEW n \in Nat, NEW d \in Nat \ {0}
  PROVE  /\ CeilDiv(n, d) \in Nat /\ n <= CeilDiv(n, d) * d
         /\ n > 0 => CeilDiv(n, d) \in Nat \ {0} /\ (CeilDiv(n, d) - 1) * d < n
<1> DEFINE q == CeilDiv(n, d)
           m == n + d - 1
<1>1. m \in Nat
  OBVIOUS
<1>2. q = m \div d
  BY DEF CeilDiv
<1>3. q \in Nat /\ q * d <= m /\ m < q * d + d
  <2> HIDE DEF m
  <2>1. q = m \div d /\ d \in Nat \ {0} /\ m \in Nat
    BY <1>1, <1>2
  <2> HIDE DEF q
  <2>2. q \in Nat /\ q * d <= m /\ m < (q + 1) * d
    BY <2>1
  <2> QED BY <2>2, Times
<1>4. n <= q * d
  <2> HIDE DEF q
  <2>1. q * d \in Nat
    BY <1>3, Times
  <2> QED BY <1>3, <2>1
<1>5. ASSUME n > 0 PROVE q \in Nat \ {0} /\ (q - 1) * d < n
  <2> HIDE DEF q
  <2>1. q # 0
    <3>1. 0 * d = 0
      OBVIOUS
    <3> QED BY <1>4, <1>5, <3>1
  <2>2. q - 1 \in Nat /\ (q - 1) + 1 = q
    BY <1>3, <2>1
  <2>3. q * d = (q - 1) * d + d /\ (q - 1) * d \in Nat
    BY <2>2, Times
  <2> QED BY <1>3, <2>1, <2>3
<1> HIDE DEF q
<1>6. q \in Nat /\ n <= q * d /\ (n > 0 => q \in Nat \ {0} /\ (q - 1) * d < n)
  BY <1>3, <1>4, <1>5
<1> QED BY <1>6 DEF q

\* And there is only one such number.
LEMMA RoundedTo ==
  ASSUME NEW n \in Nat, NEW d \in Nat \ {0}, NEW k \in Nat, NEW r \in 1 .. d, n = k * d + r
  PROVE  CeilDiv(n, d) = k + 1
<1> DEFINE q == CeilDiv(n, d)
<1>1. k * d \in Nat /\ n > 0
  BY Times
<1>2. q \in Nat \ {0} /\ n <= q * d /\ (q - 1) * d < n /\ q - 1 \in Nat
  BY <1>1, RoundedUp
<1> HIDE DEF q
<1>3. ~ (q <= k)
  <2> SUFFICES ASSUME q <= k PROVE FALSE
    OBVIOUS
  <2>1. q * d <= k * d
    BY <1>2, Times
  <2> QED BY <1>1, <1>2, <2>1, Times
<1>4. ~ (k + 1 <= q - 1)
  <2> SUFFICES ASSUME k + 1 <= q - 1 PROVE FALSE
    OBVIOUS
  <2>1. (k + 1) * d <= (q - 1) * d /\ (k + 1) * d = k * d + d
    BY <1>2, Times
  <2> QED BY <1>1, <1>2, <2>1, Times
<1>5. q = k + 1
  BY <1>2, <1>3, <1>4
<1> QED BY <1>5 DEF q

LEMMA TwoOf ==
  ASSUME NEW a \in Int, NEW b \in Int
  PROVE  /\ Max({a, b}) = IF a >= b THEN a ELSE b
         /\ Min({a, b}) = IF a <= b THEN a ELSE b
<1>1. \E x \in {a, b} : \A y \in {a, b} : x >= y
  OBVIOUS
<1>2. Max({a, b}) \in {a, b} /\ \A y \in {a, b} : Max({a, b}) >= y
  BY <1>1 DEF Max
<1>3. \E x \in {a, b} : \A y \in {a, b} : x <= y
  OBVIOUS
<1>4. Min({a, b}) \in {a, b} /\ \A y \in {a, b} : Min({a, b}) <= y
  BY <1>3 DEF Min
<1> QED BY <1>2, <1>4

\* FlattenSeq as a sequence of sequences that grow.
Grows(ss, f, T) ==
  /\ f \in [1 .. Len(ss) -> Seq(T)] /\ f[1] = ss[1]
  /\ \A i \in 2 .. Len(ss) : f[i] = f[i - 1] \o ss[i]

LEMMA FlattenGrows ==
  ASSUME NEW T, NEW ss \in Seq(Seq(T)), ss # <<>>
  PROVE  \E f : Grows(ss, f, T) /\ FlattenSeq(ss) = f[Len(ss)]
<1> DEFINE N == Len(ss)
           step == [p \in Seq(T) \X (1 .. N - 1) |-> p[1] \o ss[p[2] + 1]]
           is(f) == f = [i \in 1 .. Len(ss) |-> IF i = 1 THEN ss[i] ELSE f[i - 1] \o ss[i]]
           flat == CHOOSE f : is(f)
<1>n. N \in Nat \ {0} /\ \A i \in 1 .. N : ss[i] \in Seq(T)
  OBVIOUS
<1>m. N - 1 \in Nat /\ \A i \in 1 .. N - 1 : i + 1 \in 1 .. N
  BY <1>n
<1>1. step \in [Seq(T) \X (1 .. N - 1) -> Seq(T)]
  <2>1. \A p \in Seq(T) \X (1 .. N - 1) : p[1] \o ss[p[2] + 1] \in Seq(T)
    <3> TAKE p \in Seq(T) \X (1 .. N - 1)
    <3>1. p[1] \in Seq(T) /\ ss[p[2] + 1] \in Seq(T)
      BY <1>n, <1>m
    <3> QED BY <3>1, ConcatProperties
  <2> QED BY <2>1
<1>2. \A s \in Seq(T), i \in 1 .. N - 1 : step[<<s, i>>] = s \o ss[i + 1]
  OBVIOUS
<1>3. PICK g \in [0 .. N - 1 -> Seq(T)] :
        g[0] = ss[1] /\ \A i \in 1 .. N - 1 : g[i] = step[<<g[i - 1], i>>]
  <2>0. ss[1] \in Seq(T)
    BY <1>n
  <2> HIDE DEF step, N
  <2>1. \E g : Computes(g, N - 1, Seq(T), ss[1], step)
    BY <1>m, <1>1, <2>0, Recursion
  <2> QED BY <2>1 DEF Computes
<1>4. \A i \in 1 .. N - 1 : g[i] = g[i - 1] \o ss[i + 1]
  <2> TAKE i \in 1 .. N - 1
  <2> HIDE DEF step, N
  <2>0. i - 1 \in 0 .. N - 1
    BY <1>n
  <2>1. g[i - 1] \in Seq(T)
    BY <1>3, <2>0
  <2> QED BY <1>2, <1>3, <2>1
<1> DEFINE h == [i \in 1 .. N |-> g[i - 1]]
<1>5. h[1] = ss[1] /\ \A i \in 2 .. N : h[i] = h[i - 1] \o ss[i]
  <2> HIDE DEF N, step
  <2>1. 1 \in 1 .. N /\ 1 - 1 = 0
    BY <1>n
  <2>2. \A i \in 2 .. N : /\ i \in 1 .. N /\ i - 1 \in 1 .. N /\ i - 1 \in 1 .. N - 1
                          /\ (i - 1) + 1 = i
    BY <1>n
  <2> QED BY <1>3, <1>4, <2>1, <2>2
<1>6. is(h)
  <2> HIDE DEF N, step
  <2>1. h = [i \in 1 .. N |-> h[i]]
    OBVIOUS
  <2>2. \A i \in 1 .. N : i # 1 => i \in 2 .. N
    BY <1>n
  <2> HIDE DEF h
  <2>3. \A i \in 1 .. N : h[i] = IF i = 1 THEN ss[i] ELSE h[i - 1] \o ss[i]
    BY <1>5, <2>2
  <2> QED BY <2>1, <2>3 DEF N
<1>7. is(flat)
  <2> HIDE DEF is, h
  <2> QED BY <1>6
<1>8. flat[1] = ss[1] /\ \A i \in 2 .. N : flat[i] = flat[i - 1] \o ss[i]
  <2> HIDE DEF flat
  <2>1. \A i \in 1 .. N : flat[i] = IF i = 1 THEN ss[i] ELSE flat[i - 1] \o ss[i]
    BY <1>7
  <2>2. 1 \in 1 .. N /\ \A i \in 2 .. N : i \in 1 .. N /\ i # 1
    BY <1>n
  <2> HIDE DEF N
  <2> QED BY <2>1, <2>2
<1>9. \A i \in 1 .. N : flat[i] \in Seq(T)
  <2> DEFINE S == {i \in 0 .. N - 1 : flat[i + 1] \in Seq(T)}
  <2> HIDE DEF flat
  <2>1. 0 \in S
    BY <1>8, <1>n, <1>m
  <2>2. \A i \in 0 .. (N - 1) - 1 : i \in S => i + 1 \in S
    <3> SUFFICES ASSUME NEW i \in 0 .. (N - 1) - 1, flat[i + 1] \in Seq(T)
                 PROVE  flat[(i + 1) + 1] \in Seq(T)
      BY <1>n
    <3>1. i + 2 \in 2 .. N /\ (i + 2) - 1 = i + 1 /\ i + 2 \in 1 .. N /\ (i + 1) + 1 = i + 2
      BY <1>n
    <3> HIDE DEF N
    <3>2. flat[i + 2] = flat[i + 1] \o ss[i + 2]
      BY <1>8, <3>1
    <3>3. flat[i + 1] \o ss[i + 2] \in Seq(T)
      BY <3>1, <1>n, ConcatProperties
    <3> QED BY <3>1, <3>2, <3>3
  <2>3. 0 .. N - 1 \subseteq S
    <3> HIDE DEF S, N
    <3> QED BY <1>m, <2>1, <2>2, InductionUpTo
  <2> TAKE i \in 1 .. N
  <2>4. i - 1 \in 0 .. N - 1 /\ (i - 1) + 1 = i
    BY <1>n
  <2> QED BY <2>3, <2>4
<1>10. flat \in [1 .. N -> Seq(T)]
  <2>1. flat = [i \in 1 .. N |-> IF i = 1 THEN ss[i] ELSE flat[i - 1] \o ss[i]]
    <3> HIDE DEF flat
    <3> QED BY <1>7
  <2> HIDE DEF flat, N
  <2>2. flat = [i \in 1 .. N |-> flat[i]]
    BY <2>1
  <2> QED BY <1>9, <2>2
<1>11. FlattenSeq(ss) = flat[N]
  BY <1>n DEF FlattenSeq
<1> HIDE DEF flat
<1> QED BY <1>8, <1>10, <1>11 DEF Grows

\* After m parts of r bytes each comes the next part, and nothing after the last.
LEMMA FlattenAt ==
  ASSUME NEW T, NEW ss \in Seq(Seq(T)), NEW r \in Nat, NEW m \in 0 .. Len(ss) - 1,
         \A i \in 1 .. m : Len(ss[i]) = r
  PROVE  /\ FlattenSeq(ss) \in Seq(T)
         /\ m * r + Len(ss[m + 1]) <= Len(FlattenSeq(ss))
         /\ \A k \in 1 .. Len(ss[m + 1]) : FlattenSeq(ss)[m * r + k] = ss[m + 1][k]
         /\ m + 1 = Len(ss) => Len(FlattenSeq(ss)) = m * r + Len(ss[m + 1])
<1> DEFINE N == Len(ss)
<1>n. N \in Nat \ {0} /\ m \in Nat /\ m <= N - 1 /\ \A i \in 1 .. N : ss[i] \in Seq(T)
  OBVIOUS
<1>0. ss # <<>>
  BY <1>n
<1>1. PICK f : Grows(ss, f, T) /\ FlattenSeq(ss) = f[N]
  BY <1>0, FlattenGrows
<1> HIDE DEF N
<1>2. /\ \A i \in 1 .. N : f[i] \in Seq(T) /\ Len(f[i]) \in Nat /\ Len(ss[i]) \in Nat
      /\ f[1] = ss[1]
      /\ \A i \in 2 .. N : f[i] = f[i - 1] \o ss[i]
  <2>1. f \in [1 .. N -> Seq(T)] /\ f[1] = ss[1] /\ \A i \in 2 .. N : f[i] = f[i - 1] \o ss[i]
    BY <1>1 DEF Grows, N
  <2>2. \A i \in 1 .. N : f[i] \in Seq(T) /\ ss[i] \in Seq(T)
    BY <2>1, <1>n
  <2>3. \A s \in Seq(T) : Len(s) \in Nat
    BY LenProperties
  <2> QED BY <2>1, <2>2, <2>3
<1>3. \A i \in 1 .. N - 1 :
        /\ Len(f[i + 1]) = Len(f[i]) + Len(ss[i + 1])
        /\ \A k \in 1 .. Len(f[i]) : f[i + 1][k] = f[i][k]
        /\ \A k \in 1 .. Len(ss[i + 1]) : f[i + 1][Len(f[i]) + k] = ss[i + 1][k]
  <2> TAKE i \in 1 .. N - 1
  <2>1. i \in 1 .. N /\ i + 1 \in 1 .. N /\ i + 1 \in 2 .. N /\ (i + 1) - 1 = i
    BY <1>n
  <2>2. f[i] \in Seq(T) /\ ss[i + 1] \in Seq(T) /\ f[i + 1] = f[i] \o ss[i + 1]
    BY <1>2, <1>n, <2>1
  <2> DEFINE s == f[i]  t == ss[i + 1]
  <2>3. s \in Seq(T) /\ t \in Seq(T) /\ f[i + 1] = s \o t /\ Len(s) \in Nat /\ Len(t) \in Nat
    BY <2>2
  <2> HIDE DEF s, t
  <2>4. /\ Len(s \o t) = Len(s) + Len(t)
        /\ \A k \in 1 .. Len(s) + Len(t) : (s \o t)[k] = IF k <= Len(s) THEN s[k] ELSE t[k - Len(s)]
    BY <2>3, ConcatProperties
  <2>5. \A k \in 1 .. Len(s) : (s \o t)[k] = s[k]
    BY <2>3, <2>4
  <2>6. \A k \in 1 .. Len(t) : (s \o t)[Len(s) + k] = t[k]
    <3> TAKE k \in 1 .. Len(t)
    <3>1. Len(s) + k \in 1 .. Len(s) + Len(t) /\ ~ (Len(s) + k <= Len(s)) /\ (Len(s) + k) - Len(s) = k
      BY <2>3
    <3> QED BY <2>4, <3>1
  <2> QED BY <2>3, <2>4, <2>5, <2>6 DEF s, t
\* The length of the first m parts, when m # 0.
<1>4. \A i \in 1 .. N : i <= m => Len(f[i]) = i * r
  <2> DEFINE S == {i \in 0 .. N - 1 : i + 1 <= m => Len(f[i + 1]) = (i + 1) * r}
  <2>1. 0 \in S
    <3>1. 1 <= m => Len(ss[1]) = r
      BY <1>n
    <3>2. (0 + 1) * r = r /\ 0 + 1 = 1 /\ 0 \in 0 .. N - 1
      BY <1>n
    <3> QED BY <1>2, <3>1, <3>2
  <2>2. \A i \in 0 .. (N - 1) - 1 : i \in S => i + 1 \in S
    <3> SUFFICES ASSUME NEW i \in 0 .. (N - 1) - 1, i + 1 <= m => Len(f[i + 1]) = (i + 1) * r,
                        (i + 1) + 1 <= m
                 PROVE  Len(f[(i + 1) + 1]) = ((i + 1) + 1) * r
      BY <1>n
    <3> DEFINE j == i + 1
    <3>1. j \in 1 .. N - 1 /\ j + 1 \in 1 .. m /\ j <= m /\ j \in Nat
      BY <1>n
    <3>2. Len(f[j]) = j * r
      BY <3>1
    <3> HIDE DEF j
    <3>3. Len(f[j + 1]) = Len(f[j]) + Len(ss[j + 1]) /\ Len(ss[j + 1]) = r
      BY <1>3, <3>1
    <3>4. (j + 1) * r = j * r + r
      BY <3>1, Times
    <3>5. Len(f[j + 1]) = (j + 1) * r
      BY <3>2, <3>3, <3>4
    <3> QED BY <3>5 DEF j
  <2>3. 0 .. N - 1 \subseteq S
    <3>1. N - 1 \in Nat
      BY <1>n
    <3> HIDE DEF S
    <3> QED BY <3>1, <2>1, <2>2, InductionUpTo
  <2> TAKE i \in 1 .. N
  <2>4. i - 1 \in 0 .. N - 1 /\ (i - 1) + 1 = i
    BY <1>n
  <2> QED BY <2>3, <2>4
\* With the next part.
<1>5. /\ Len(f[m + 1]) = m * r + Len(ss[m + 1])
      /\ \A k \in 1 .. Len(ss[m + 1]) : f[m + 1][m * r + k] = ss[m + 1][k]
  <2>1. CASE m = 0
    <3>1. 1 \in 1 .. N /\ 0 * r = 0 /\ 0 + 1 = 1
      BY <1>n
    <3>2. f[1] = ss[1] /\ Len(ss[1]) \in Nat /\ \A k \in 1 .. Len(ss[1]) : 0 + k = k
      BY <1>2, <3>1
    <3> QED BY <2>1, <3>1, <3>2
  <2>2. CASE m # 0
    <3>1. m \in 1 .. N /\ m \in 1 .. N - 1 /\ m <= m
      BY <1>n, <2>2
    <3>2. Len(f[m]) = m * r
      BY <1>4, <3>1
    <3> QED BY <1>3, <3>1, <3>2
  <2> QED BY <2>1, <2>2
\* What follows it changes nothing.
<1> DEFINE L == m * r + Len(ss[m + 1])
<1>6. L \in Nat
  <2>1. m + 1 \in 1 .. N /\ m * r \in Nat
    BY <1>n, Times
  <2>2. Len(ss[m + 1]) \in Nat
    BY <1>2, <2>1
  <2>3. \A x, y \in Nat : x + y \in Nat
    OBVIOUS
  <2> QED BY Zenon, <2>1, <2>2, <2>3
<1>7. \A i \in 1 .. N : m + 1 <= i =>
        L <= Len(f[i]) /\ \A k \in 1 .. L : f[i][k] = f[m + 1][k]
  <2> DEFINE S == {i \in 0 .. N - 1 : m <= i =>
                     L <= Len(f[i + 1]) /\ \A k \in 1 .. L : f[i + 1][k] = f[m + 1][k]}
  <2>0. Len(f[m + 1]) = L
    BY <1>5
  <2> HIDE DEF L
  <2>1. 0 \in S
    <3>1. 0 \in 0 .. N - 1 /\ (m <= 0 => 0 + 1 = m + 1)
      BY <1>n
    <3> QED BY <1>6, <2>0, <3>1
  <2>2. \A i \in 0 .. (N - 1) - 1 : i \in S => i + 1 \in S
    <3> SUFFICES ASSUME NEW i \in 0 .. (N - 1) - 1, i \in S, m <= i + 1
                 PROVE  /\ L <= Len(f[(i + 1) + 1])
                        /\ \A k \in 1 .. L : f[(i + 1) + 1][k] = f[m + 1][k]
      BY <1>n
    <3>1. CASE m = i + 1
      BY <1>6, <2>0, <3>1
    <3>2. CASE m <= i
      <4> DEFINE j == i + 1
      <4>1. L <= Len(f[j]) /\ \A k \in 1 .. L : f[j][k] = f[m + 1][k]
        BY <3>2
      <4>2. j \in 1 .. N - 1 /\ j \in 1 .. N /\ j + 1 \in 1 .. N
        BY <1>n
      <4> HIDE DEF j, S
      <4>3. Len(f[j + 1]) = Len(f[j]) + Len(ss[j + 1]) /\ \A k \in 1 .. Len(f[j]) : f[j + 1][k] = f[j][k]
        BY <1>3, <4>2
      <4>4. Len(f[j]) \in Nat /\ Len(ss[j + 1]) \in Nat
        BY <1>2, <4>2
      <4>5. L <= Len(f[j + 1]) /\ \A k \in 1 .. L : k \in 1 .. Len(f[j])
        <5>1. L \in Nat
          BY <1>6
        <5>2. ASSUME NEW y \in Nat, NEW z \in Nat, L <= y
              PROVE  L <= y + z /\ \A k \in 1 .. L : k \in 1 .. y
          BY <5>1, <5>2
        <5>3. L <= Len(f[j]) + Len(ss[j + 1]) /\ \A k \in 1 .. L : k \in 1 .. Len(f[j])
          BY Zenon, <5>2, <4>1, <4>4
        <5> QED BY <5>3, <4>3
      <4>6. \A k \in 1 .. L : f[j + 1][k] = f[m + 1][k]
        BY <4>1, <4>3, <4>5
      <4> QED BY <4>5, <4>6 DEF j
    <3> QED BY <1>n, <3>1, <3>2
  <2>3. 0 .. N - 1 \subseteq S
    <3>1. N - 1 \in Nat
      BY <1>n
    <3> HIDE DEF S
    <3> QED BY <3>1, <2>1, <2>2, InductionUpTo
  <2> TAKE i \in 1 .. N
  <2>4. i - 1 \in 0 .. N - 1 /\ (i - 1) + 1 = i /\ (m + 1 <= i => m <= i - 1)
    BY <1>n
  <2> QED BY <2>3, <2>4
<1> DEFINE flat == FlattenSeq(ss)
<1>8. flat = f[N] /\ N \in 1 .. N /\ m + 1 <= N /\ m + 1 \in 1 .. N
  BY <1>1, <1>n
<1> HIDE DEF flat
<1>9. flat \in Seq(T) /\ L <= Len(flat) /\ \A k \in 1 .. L : flat[k] = f[m + 1][k]
  <2> HIDE DEF L
  <2> QED BY <1>2, <1>7, <1>8
<1>10. \A k \in 1 .. Len(ss[m + 1]) : flat[m * r + k] = ss[m + 1][k]
  <2> TAKE k \in 1 .. Len(ss[m + 1])
  <2>1. m * r + k \in 1 .. L
    <3>1. m * r \in Nat /\ Len(ss[m + 1]) \in Nat
      <4>1. m * r \in Nat
        BY <1>n, Times
      <4>2. Len(ss[m + 1]) \in Nat
        BY <1>2, <1>8
      <4> QED BY <4>1, <4>2
    <3>2. \A x, y \in Nat : \A z \in 1 .. y : x + z \in 1 .. x + y
      OBVIOUS
    <3> QED BY <3>1, <3>2
  <2> HIDE DEF L
  <2> QED BY <1>5, <1>9, <2>1
<1>11. m + 1 = N => Len(flat) = L
  BY <1>5, <1>8
<1> QED BY <1>9, <1>10, <1>11 DEF flat, N

-------------------------------------------------------------------------------
(* What decryptFile reads.                                                 *)

LEMMA BlockSize == RecordBytes \in Nat \ {0} /\ RecordBytes = Chunk + Seal
BY FileStreamAssumption DEF RecordBytes

\* Where a block lies in a stream.
LEMMA BlockAt ==
  ASSUME NEW T, NEW s \in Seq(T), NEW i \in 1 .. Blocks(s)
  PROVE  /\ (i - 1) * RecordBytes \in Nat /\ (i - 1) * RecordBytes < Len(s)
         /\ Block(s, i) \in Seq(T) /\ Len(Block(s, i)) \in 1 .. RecordBytes
         /\ i < Blocks(s) => Len(Block(s, i)) = RecordBytes
         /\ i = Blocks(s) => Len(Block(s, i)) = Len(s) - (i - 1) * RecordBytes
         /\ \A k \in 1 .. Len(Block(s, i)) :
              /\ (i - 1) * RecordBytes + k \in 1 .. Len(s)
              /\ Block(s, i)[k] = s[(i - 1) * RecordBytes + k]
<1> DEFINE R == RecordBytes
           L == Len(s)
           B == Blocks(s)
           x == (i - 1) * R
           y == i * R
           m == Min({L, y})
<1>0. R \in Nat \ {0} /\ L \in Nat
  BY BlockSize
<1>1. B \in Nat /\ L <= B * R /\ (L > 0 => (B - 1) * R < L /\ B # 0) /\ (L = 0 => B = 0)
  <2>1. B = CeilDiv(L, R)
    BY DEF Blocks
  <2>2. CeilDiv(L, R) \in Nat /\ L <= CeilDiv(L, R) * R
        /\ (L > 0 => CeilDiv(L, R) \in Nat \ {0} /\ (CeilDiv(L, R) - 1) * R < L)
    <3> HIDE DEF R, L
    <3> QED BY <1>0, RoundedUp
  <2>3. L = 0 => B = 0
    <3> SUFFICES ASSUME L = 0 PROVE CeilDiv(L, R) = 0
      BY <2>1
    <3>1. (0 + R - 1) \div R = 0
      <4> HIDE DEF R
      <4>1. (0 + R - 1) = R - 1 /\ R - 1 \in 0 .. R - 1
        BY <1>0
      <4> QED BY <1>0, <4>1
    <3> QED BY <3>1 DEF CeilDiv
  <2> HIDE DEF B, L, R
  <2> QED BY <2>1, <2>2, <2>3
<1>2. i \in Nat /\ i - 1 \in Nat /\ 1 <= i /\ i <= B /\ (i - 1) + 1 = i /\ B - 1 \in Nat /\ L > 0
  <2> HIDE DEF L, R
  <2>1. i \in 1 .. B
    OBVIOUS
  <2> HIDE DEF B
  <2> QED BY <1>0, <1>1, <2>1
<1>3. x \in Nat /\ y = x + R
  <2> HIDE DEF R
  <2> QED BY <1>0, <1>2, Times
<1>4. x < L
  <2>1. x <= (B - 1) * R /\ (B - 1) * R \in Nat
    <3> HIDE DEF B, R
    <3>1. i - 1 <= B - 1
      BY <1>2, <1>1
    <3> QED BY <1>0, <1>2, <3>1, Times
  <2> HIDE DEF B, R, L, x
  <2> QED BY <1>0, <1>1, <1>2, <1>3, <2>1
<1>5. i < B => y < L
  <2> SUFFICES ASSUME i < B PROVE y < L
    OBVIOUS
  <2>1. y <= (B - 1) * R /\ (B - 1) * R \in Nat /\ y \in Nat
    <3> HIDE DEF B, R
    <3>1. i <= B - 1
      BY <1>2, <1>1
    <3> QED BY <1>0, <1>2, <3>1, Times
  <2> HIDE DEF B, R, L, y
  <2> QED BY <1>0, <1>1, <1>2, <2>1
<1>6. i = B => L <= y
  BY <1>1
<1>7. m = IF L <= y THEN L ELSE y
  <2> HIDE DEF L, y
  <2>1. y \in Nat
    BY <1>0, <1>3
  <2>2. L \in Int /\ y \in Int
    BY <1>0, <2>1
  <2>3. Min({L, y}) = IF L <= y THEN L ELSE y
    BY Zenon, <2>2, TwoOf
  <2> QED BY <2>3
<1>8. Block(s, i) = SubSeq(s, x + 1, m)
  BY DEF Block
<1> HIDE DEF x, y, m, R, B
<1>9. x + 1 \in Int /\ m \in Int /\ m <= L /\ x + 1 <= m /\ m - x \in 1 .. R
      /\ (i < B => m - x = R) /\ (i = B => m = L)
  BY <1>0, <1>3, <1>4, <1>5, <1>6, <1>7
<1>10. /\ Block(s, i) \in Seq(T) /\ Len(Block(s, i)) = m - x
       /\ \A k \in 1 .. m - x : Block(s, i)[k] = s[x + k]
  <2>1. \A k \in (x + 1) .. m : s[k] \in T
    <3> SUFFICES ASSUME NEW k \in (x + 1) .. m PROVE s[k] \in T
      OBVIOUS
    <3>1. k \in 1 .. L
      BY <1>0, <1>3, <1>9
    <3> QED BY <3>1
  <2>2. /\ SubSeq(s, x + 1, m) \in Seq(T)
        /\ Len(SubSeq(s, x + 1, m)) = IF x + 1 <= m THEN m - (x + 1) + 1 ELSE 0
        /\ \A k \in 1 .. m - (x + 1) + 1 : SubSeq(s, x + 1, m)[k] = s[(x + 1) + k - 1]
    BY <1>9, <2>1, SubSeqProperties
  <2>3. m - (x + 1) + 1 = m - x /\ \A k \in 1 .. m - x : (x + 1) + k - 1 = x + k
    BY <1>3, <1>9
  <2> HIDE DEF L
  <2> QED BY <1>8, <1>9, <2>2, <2>3
<1>11. \A k \in 1 .. m - x : x + k \in 1 .. L
  BY <1>0, <1>3, <1>9
<1> HIDE DEF L
<1>12. /\ x \in Nat /\ x < L
       /\ Block(s, i) \in Seq(T) /\ Len(Block(s, i)) \in 1 .. R
       /\ i < B => Len(Block(s, i)) = R
       /\ i = B => Len(Block(s, i)) = L - x
       /\ \A k \in 1 .. Len(Block(s, i)) : x + k \in 1 .. L /\ Block(s, i)[k] = s[x + k]
  BY <1>3, <1>4, <1>9, <1>10, <1>11
<1> QED BY <1>12 DEF x, R, B, L

\* Every byte is in a block.
LEMMA InBlock ==
  ASSUME NEW T, NEW s \in Seq(T), NEW k \in 1 .. Len(s)
  PROVE  \E i \in 1 .. Blocks(s) : \E r \in 1 .. Len(Block(s, i)) : k = (i - 1) * RecordBytes + r
<1> DEFINE R == RecordBytes
           L == Len(s)
           B == Blocks(s)
           i == CeilDiv(k, R)
           x == (i - 1) * R
<1>0. R \in Nat \ {0} /\ L \in Nat /\ k \in Nat /\ 0 < k /\ k <= L
  BY BlockSize
<1>1. i \in Nat \ {0} /\ k <= i * R /\ x < k
  <2> HIDE DEF R
  <2> QED BY <1>0, RoundedUp
<1>2. B \in Nat /\ L <= B * R
  <2> HIDE DEF R, L
  <2> QED BY <1>0, RoundedUp DEF Blocks, R, L
<1> HIDE DEF i
<1>3. i <= B
  <2> SUFFICES ASSUME B <= i - 1 PROVE FALSE
    <3> HIDE DEF B
    <3> QED BY <1>1, <1>2
  <2>1. i - 1 \in Nat
    BY <1>1
  <2> HIDE DEF B, R, L
  <2>2. B * R <= x /\ B * R \in Nat /\ x \in Nat
    BY <1>0, <1>2, <2>1, Times
  <2> HIDE DEF x
  <2> QED BY <1>0, <1>1, <1>2, <2>2
<1>4. i * R = x + R /\ x \in Nat
  <2>1. i - 1 \in Nat /\ (i - 1) + 1 = i
    BY <1>1
  <2> HIDE DEF R
  <2> QED BY <1>0, <2>1, Times
<1> HIDE DEF x, R
<1>5. i \in 1 .. B
  <2> HIDE DEF B, L
  <2> QED BY <1>1, <1>2, <1>3
<1>6. /\ Len(Block(s, i)) \in 1 .. R
      /\ i < B => Len(Block(s, i)) = R
      /\ i = B => Len(Block(s, i)) = L - x
  BY <1>5, BlockAt DEF x, R
<1>7. k - x \in 1 .. Len(Block(s, i)) /\ k = x + (k - x)
  <2> HIDE DEF B, L
  <2> QED BY <1>0, <1>1, <1>2, <1>3, <1>4, <1>6
<1> QED BY <1>5, <1>7 DEF x, R

\* What a byte knows of its place in the stream it was sealed for.
Byte == [record : Nat, last : BOOLEAN, at : Nat, of : Nat]

Place(b) == (b.record - 1) * RecordBytes + b.at
Ends(b)  == b.last /\ b.at = b.of

\* Every byte is where it was sealed to be, and only the last one ends the stream.
Fits(s) == \A k \in 1 .. Len(s) : Place(s[k]) = k /\ (Ends(s[k]) <=> k = Len(s))

LEMMA RecordAt ==
  ASSUME NEW i \in Nat, NEW last \in BOOLEAN, NEW n \in Nat
  PROVE  /\ Record(i, last, n) \in Seq(Byte) /\ Len(Record(i, last, n)) = n + Seal
         /\ \A k \in 1 .. n + Seal :
              Record(i, last, n)[k] = [record |-> i, last |-> last, at |-> k, of |-> n + Seal]
<1>1. n + Seal \in Nat
  BY FileStreamAssumption
<1>2. \A k \in 1 .. n + Seal : [record |-> i, last |-> last, at |-> k, of |-> n + Seal] \in Byte
  <2> TAKE k \in 1 .. n + Seal
  <2>1. k \in Nat
    BY <1>1
  <2> QED BY Zenon, <1>1, <2>1 DEF Byte
<1> DEFINE b(k) == [record |-> i, last |-> last, at |-> k, of |-> n + Seal]
           N == n + Seal
<1>3. Record(i, last, n) = [k \in 1 .. N |-> b(k)]
  BY DEF Record
<1>4. N \in Nat /\ \A k \in 1 .. N : b(k) \in Byte
  BY <1>1, <1>2
<1> HIDE DEF b, N
<1>5. [k \in 1 .. N |-> b(k)] \in Seq(Byte) /\ Len([k \in 1 .. N |-> b(k)]) = N
      /\ \A k \in 1 .. N : [j \in 1 .. N |-> b(j)][k] = b(k)
  BY <1>4
<1>6. Record(i, last, n) \in Seq(Byte) /\ Len(Record(i, last, n)) = N
      /\ \A k \in 1 .. N : Record(i, last, n)[k] = b(k)
  BY <1>3, <1>5
<1> QED BY <1>6 DEF b, N

LEMMA DecryptsFits ==
  ASSUME NEW s \in Seq(Byte), Decrypts(s)
  PROVE  s # <<>> /\ Fits(s)
<1> DEFINE B == Blocks(s)
           R == RecordBytes
           L == Len(s)
<1>0. R \in Nat \ {0} /\ L \in Nat
  BY BlockSize
<1> SUFFICES ASSUME NEW k \in 1 .. L PROVE Place(s[k]) = k /\ (Ends(s[k]) <=> k = L)
  BY DEF Decrypts, Fits
<1>1. PICK i \in 1 .. B : \E r \in 1 .. Len(Block(s, i)) : k = (i - 1) * R + r
  BY InBlock
<1>2. PICK r \in 1 .. Len(Block(s, i)) : k = (i - 1) * R + r
  BY <1>1
<1> DEFINE block == Block(s, i)
           x == (i - 1) * R
           last == (i = B)
           n == Len(block) - Seal
<1>3. /\ x \in Nat
      /\ Len(block) \in 1 .. R
      /\ i < B => Len(block) = R
      /\ i = B => Len(block) = L - x
      /\ x + r \in 1 .. L /\ block[r] = s[x + r]
  <2>1. /\ (i - 1) * RecordBytes \in Nat
        /\ Len(Block(s, i)) \in 1 .. RecordBytes
        /\ i < Blocks(s) => Len(Block(s, i)) = RecordBytes
        /\ i = Blocks(s) => Len(Block(s, i)) = Len(s) - (i - 1) * RecordBytes
        /\ \A j \in 1 .. Len(Block(s, i)) :
              /\ (i - 1) * RecordBytes + j \in 1 .. Len(s)
              /\ Block(s, i)[j] = s[(i - 1) * RecordBytes + j]
    BY BlockAt
  <2>2. /\ (i - 1) * RecordBytes + r \in 1 .. Len(s)
        /\ Block(s, i)[r] = s[(i - 1) * RecordBytes + r]
    BY <1>2, <2>1
  <2> QED BY Zenon, <2>1, <2>2
<1>4. OpensAs(block, i, last)
  BY Zenon DEF Decrypts
<1>5. Len(block) >= Seal /\ block = Record(i, last, n)
  BY Zenon, <1>4 DEF OpensAs
<1>6. B \in Nat
  <2> HIDE DEF R
  <2> QED BY <1>0, RoundedUp DEF Blocks, R
<1> HIDE DEF B
<1>7. i \in Nat /\ last \in BOOLEAN /\ i <= B
  BY <1>6
<1> HIDE DEF block, x, R, L
<1>8. n \in Nat /\ n + Seal = Len(block) /\ Len(block) \in Nat
  BY <1>0, <1>3, <1>5, FileStreamAssumption
<1>9. r \in 1 .. n + Seal
  BY <1>2, <1>8 DEF block
<1> HIDE DEF n, last
<1>10. block[r] = [record |-> i, last |-> last, at |-> r, of |-> n + Seal]
  <2>1. Record(i, last, n)[r] = [record |-> i, last |-> last, at |-> r, of |-> n + Seal]
    BY Zenon, <1>7, <1>8, <1>9, RecordAt
  <2> QED BY Zenon, <1>5, <2>1
<1>11. k = x + r
  BY <1>2 DEF x, R
<1>12. s[k] = [record |-> i, last |-> last, at |-> r, of |-> Len(block)]
  BY Zenon, <1>3, <1>8, <1>10, <1>11
<1>13. s[k].record = i /\ s[k].at = r /\ s[k].of = Len(block) /\ s[k].last = last
  BY <1>12
<1>14. Place(s[k]) = k
  BY Zenon, <1>11, <1>13 DEF Place, x, R
<1>15. Ends(s[k]) <=> (last /\ r = Len(block))
  BY Zenon, <1>13 DEF Ends
<1>16. (last /\ r = Len(block)) <=> k = L
  <2>1. last <=> i = B
    BY Zenon DEF last
  <2>2. r \in 1 .. Len(block)
    BY <1>8, <1>9
  <2>3. ASSUME i = B PROVE r = Len(block) <=> k = L
    BY <1>0, <1>3, <1>11, <2>2, <2>3
  <2>4. ASSUME i # B PROVE k # L
    <3>1. i + 1 \in 1 .. B /\ (i + 1) - 1 = i /\ i < B /\ (i - 1) + 1 = i /\ i - 1 \in Nat
      BY <1>6, <1>7, <2>4
    <3>2. i * R < L
      <4>1. i + 1 \in 1 .. Blocks(s)
        BY <3>1 DEF B
      <4>2. ((i + 1) - 1) * RecordBytes < Len(s)
        BY <4>1, BlockAt
      <4> QED BY <3>1, <4>2 DEF R, L
    <3>3. i * R = x + R
      BY <1>0, <3>1, Times DEF x
    <3> QED BY <1>0, <1>3, <1>11, <2>2, <3>1, <3>2, <3>3
  <2> QED BY <2>1, <2>3, <2>4
<1> QED BY <1>14, <1>15, <1>16

LEMMA SeqParts ==
  ASSUME NEW s \in Seq(Byte), NEW m \in Int, NEW n \in Int, m >= 1, n <= Len(s)
  PROVE  /\ SubSeq(s, m, n) \in Seq(Byte)
         /\ Len(SubSeq(s, m, n)) = IF m <= n THEN n - m + 1 ELSE 0
         /\ \A k \in 1 .. n - m + 1 : SubSeq(s, m, n)[k] = s[m + k - 1]
<1> HIDE DEF Byte
<1>1. \A k \in m .. n : s[k] \in Byte
  OBVIOUS
<1> QED BY <1>1, SubSeqProperties

\* A stream that lost a piece does not decrypt: what follows it is out of place,
\* and if nothing does then the stream ends before its end.
LEMMA PieceMissed ==
  ASSUME NEW s \in Seq(Byte), Decrypts(s), NEW i \in 1 .. Len(s), NEW j \in 1 .. Len(s), i <= j
  PROVE  ~ Decrypts(Without(s, i, j))
<1> DEFINE L == Len(s)
           front == SubSeq(s, 1, i - 1)
           back == SubSeq(s, j + 1, L)
           w == Without(s, i, j)
<1>0. L \in Nat /\ i \in Nat /\ j \in Nat /\ 1 <= i /\ i <= j /\ j <= L
  OBVIOUS
<1>1. Fits(s)
  BY DecryptsFits
<1>2. /\ front \in Seq(Byte) /\ Len(front) = i - 1 /\ \A k \in 1 .. i - 1 : front[k] = s[k]
  <2>1. i - 1 <= Len(s) /\ i - 1 \in Int /\ (i - 1) - 1 + 1 = i - 1 /\ (1 > i - 1 => i - 1 = 0)
        /\ \A k \in 1 .. i - 1 : 1 + k - 1 = k
    BY <1>0
  <2>2. /\ SubSeq(s, 1, i - 1) \in Seq(Byte)
        /\ Len(SubSeq(s, 1, i - 1)) = IF 1 <= i - 1 THEN (i - 1) - 1 + 1 ELSE 0
        /\ \A k \in 1 .. (i - 1) - 1 + 1 : SubSeq(s, 1, i - 1)[k] = s[1 + k - 1]
    BY <2>1, SeqParts
  <2> HIDE DEF L
  <2> QED BY <1>0, <2>1, <2>2
<1>3. /\ back \in Seq(Byte) /\ Len(back) = L - j /\ \A k \in 1 .. L - j : back[k] = s[j + k]
  <2>1. j + 1 >= 1 /\ j + 1 \in Int /\ L \in Int /\ L <= Len(s) /\ L - (j + 1) + 1 = L - j
        /\ (j + 1 > L => L - j = 0) /\ \A k \in 1 .. L - j : (j + 1) + k - 1 = j + k
    BY <1>0
  <2>2. /\ SubSeq(s, j + 1, L) \in Seq(Byte)
        /\ Len(SubSeq(s, j + 1, L)) = IF j + 1 <= L THEN L - (j + 1) + 1 ELSE 0
        /\ \A k \in 1 .. L - (j + 1) + 1 : SubSeq(s, j + 1, L)[k] = s[(j + 1) + k - 1]
    BY <2>1, SeqParts
  <2> HIDE DEF L
  <2> QED BY <1>0, <2>1, <2>2
<1>w. w = front \o back
  BY DEF Without
<1> HIDE DEF front, back, w, L, Byte
<1>4. /\ w \in Seq(Byte) /\ Len(w) = (i - 1) + (L - j)
      /\ \A k \in 1 .. (i - 1) + (L - j) : w[k] = IF k <= i - 1 THEN front[k] ELSE back[k - (i - 1)]
  BY <1>2, <1>3, <1>w, ConcatProperties
<1> SUFFICES ASSUME Decrypts(w) PROVE FALSE
  BY DEF w
<1>5. w # <<>> /\ Fits(w)
  BY <1>4, DecryptsFits
<1>6. CASE j < L
  <2>1. i \in 1 .. Len(w) /\ ~ (i <= i - 1) /\ i - (i - 1) = 1 /\ 1 \in 1 .. L - j
    BY <1>0, <1>4, <1>6
  <2>2. w[i] = s[j + 1]
    BY <1>3, <1>4, <2>1
  <2>3. Place(w[i]) = i
    BY <1>5, <2>1 DEF Fits
  <2>4. Place(s[j + 1]) = j + 1
    <3>1. j + 1 \in 1 .. Len(s)
      BY <1>0, <1>6 DEF L
    <3> QED BY <1>1, <3>1 DEF Fits
  <2> QED BY <1>0, <2>2, <2>3, <2>4
<1>7. CASE j = L
  <2>1. Len(w) = i - 1 /\ i - 1 \in Nat
    BY <1>0, <1>4, <1>7
  <2>2. i - 1 # 0
    BY <1>4, <1>5, <2>1, EmptySeq
  <2>3. i - 1 \in 1 .. Len(w) /\ i - 1 <= i - 1
    BY <2>1, <2>2
  <2>4. w[i - 1] = s[i - 1]
    BY <1>2, <1>4, <2>1, <2>3
  <2>5. Ends(w[i - 1])
    BY <1>5, <2>1, <2>3 DEF Fits
  <2>6. i - 1 \in 1 .. Len(s) /\ i - 1 # Len(s)
    BY <1>0, <2>1, <2>2 DEF L
  <2>7. ~ Ends(s[i - 1])
    BY <1>1, <2>6 DEF Fits
  <2> QED BY <2>4, <2>5, <2>7
<1> QED BY <1>0, <1>6, <1>7

\* One that has a record twice at its end does not decrypt.
LEMMA RecordTwice ==
  ASSUME NEW s \in Seq(Byte), Decrypts(s), NEW i \in 1 .. Blocks(s)
  PROVE  ~ Decrypts(s \o Block(s, i))
<1> DEFINE L == Len(s)
           x == (i - 1) * RecordBytes
           block == Block(s, i)
           w == s \o block
<1>1. Fits(s) /\ L \in Nat
  BY DecryptsFits
<1>2. /\ x \in Nat /\ x < L /\ block \in Seq(Byte) /\ Len(block) \in Nat \ {0}
      /\ block[1] = s[x + 1]
  <2> HIDE DEF Byte
  <2>1. /\ x \in Nat /\ x < Len(s) /\ block \in Seq(Byte) /\ Len(block) \in 1 .. RecordBytes
        /\ \A k \in 1 .. Len(block) : block[k] = s[x + k]
    BY BlockAt
  <2> HIDE DEF block, x
  <2>2. Len(block) \in Nat \ {0} /\ 1 \in 1 .. Len(block)
    BY <2>1, BlockSize
  <2> QED BY <2>1, <2>2
<1> SUFFICES ASSUME Decrypts(w) PROVE FALSE
  OBVIOUS
<1>3. /\ w \in Seq(Byte) /\ Len(w) = L + Len(block)
      /\ \A k \in 1 .. L + Len(block) : w[k] = IF k <= L THEN s[k] ELSE block[k - L]
  <2> HIDE DEF Byte, block
  <2> QED BY <1>2, ConcatProperties
<1> HIDE DEF w, block, Byte, x
<1>4. Fits(w)
  BY <1>3, DecryptsFits
<1>5. L + 1 \in 1 .. Len(w) /\ ~ (L + 1 <= L) /\ (L + 1) - L = 1 /\ x + 1 \in 1 .. L
  <2> HIDE DEF L
  <2> QED BY <1>1, <1>2, <1>3
<1>6. w[L + 1] = s[x + 1]
  BY <1>2, <1>3, <1>5
<1>7. Place(w[L + 1]) = L + 1 /\ Place(s[x + 1]) = x + 1
  BY <1>1, <1>4, <1>5 DEF Fits
<1> HIDE DEF L
<1> QED BY <1>1, <1>2, <1>6, <1>7

\* One with two records exchanged does not decrypt: the first of the two places
\* has the other's record.
LEMMA RecordsSwapped ==
  ASSUME NEW s \in Seq(Byte), Decrypts(s), NEW i \in 1 .. Blocks(s), NEW j \in 1 .. Blocks(s), i # j
  PROVE  ~ Decrypts(Swapped(s, i, j))
<1> DEFINE B == Blocks(s)
           R == RecordBytes
           other(k) == IF k = i THEN j ELSE IF k = j THEN i ELSE k
           ss == [k \in 1 .. B |-> Block(s, other(k))]
           a == IF i < j THEN i ELSE j
           b == IF i < j THEN j ELSE i
           w == Swapped(s, i, j)
<1>0. B \in Nat /\ R \in Nat \ {0}
  <2>1. Len(s) \in Nat /\ R \in Nat \ {0}
    BY BlockSize
  <2> QED BY <2>1, RoundedUp DEF Blocks
<1>1. Fits(s)
  BY DecryptsFits
<1>w. w = FlattenSeq(ss)
  BY Zenon DEF Swapped
<1> HIDE DEF B
<1>2. i \in 1 .. B /\ j \in 1 .. B
  BY DEF B
<1>3. /\ a \in 1 .. B /\ b \in 1 .. B /\ a < b /\ other(a) = b
      /\ \A k \in 1 .. B : other(k) \in 1 .. B /\ (k < a => other(k) = k /\ k < B)
  BY <1>0, <1>2
<1> HIDE DEF a, b, other, Byte
<1>4. \A k \in 1 .. B : Block(s, k) \in Seq(Byte)
  BY BlockAt DEF B
<1>5. ss \in Seq(Seq(Byte)) /\ Len(ss) = B /\ \A k \in 1 .. B : ss[k] = Block(s, other(k))
  <2>1. \A k \in 1 .. B : Block(s, other(k)) \in Seq(Byte)
    BY <1>3, <1>4
  <2> QED BY <1>0, <2>1
<1> HIDE DEF ss
<1>6. \A k \in 1 .. a - 1 : Len(ss[k]) = R
  <2> TAKE k \in 1 .. a - 1
  <2>1. k \in 1 .. B /\ k < a
    BY <1>0, <1>3
  <2>2. ss[k] = Block(s, k) /\ k < B
    BY <1>3, <1>5, <2>1
  <2> QED BY <2>1, <2>2, BlockAt DEF B
<1> DEFINE x == (a - 1) * R
           y == (b - 1) * R
<1>7. /\ y \in Nat /\ y < Len(s) /\ Block(s, b)[1] = s[y + 1]
      /\ Len(Block(s, b)) \in Nat \ {0}
  <2>1. /\ y \in Nat /\ y < Len(s) /\ Len(Block(s, b)) \in 1 .. RecordBytes
        /\ \A k \in 1 .. Len(Block(s, b)) : Block(s, b)[k] = s[y + k]
    <3>1. b \in 1 .. Blocks(s)
      BY <1>3 DEF B
    <3>2. /\ (b - 1) * RecordBytes \in Nat /\ (b - 1) * RecordBytes < Len(s)
          /\ Len(Block(s, b)) \in 1 .. RecordBytes
          /\ \A k \in 1 .. Len(Block(s, b)) : Block(s, b)[k] = s[(b - 1) * RecordBytes + k]
      BY <3>1, BlockAt
    <3> QED BY Zenon, <3>2
  <2> HIDE DEF y
  <2>2. Len(Block(s, b)) \in Nat \ {0} /\ 1 \in 1 .. Len(Block(s, b))
    BY <2>1, BlockSize
  <2> QED BY <2>1, <2>2
<1>8. ss[a] = Block(s, b)
  BY <1>3, <1>5
<1>9. /\ w \in Seq(Byte) /\ x + Len(ss[a]) <= Len(w)
      /\ \A k \in 1 .. Len(ss[a]) : w[x + k] = ss[a][k]
  <2>1. a - 1 \in 0 .. Len(ss) - 1 /\ (a - 1) + 1 = a /\ R \in Nat
    BY <1>0, <1>3, <1>5
  <2> HIDE DEF R, w
  <2>2. /\ FlattenSeq(ss) \in Seq(Byte)
        /\ (a - 1) * R + Len(ss[(a - 1) + 1]) <= Len(FlattenSeq(ss))
        /\ \A k \in 1 .. Len(ss[(a - 1) + 1]) : FlattenSeq(ss)[(a - 1) * R + k] = ss[(a - 1) + 1][k]
    BY <1>5, <1>6, <2>1, FlattenAt
  <2> QED BY <1>w, <2>1, <2>2
<1>10. x \in Nat /\ x < y
  <2>1. a - 1 \in Nat /\ a \in Nat /\ b - 1 \in Nat /\ a <= b - 1 /\ (a - 1) + 1 = a
    BY <1>0, <1>3
  <2> HIDE DEF R
  <2>2. x \in Nat /\ a * R <= y /\ a * R = x + R
    BY <1>0, <2>1, Times
  <2> HIDE DEF x, y
  <2> QED BY <1>0, <1>7, <2>2
<1> HIDE DEF x, y, w, R
<1> SUFFICES ASSUME Decrypts(w) PROVE FALSE
  BY DEF w
<1>11. Fits(w)
  BY <1>9, DecryptsFits
<1>12. Len(ss[a]) \in Nat \ {0} /\ Len(w) \in Nat
  BY <1>7, <1>8, <1>9
<1>13. x + 1 \in 1 .. Len(w) /\ 1 \in 1 .. Len(ss[a]) /\ y + 1 \in 1 .. Len(s)
  BY <1>7, <1>9, <1>10, <1>12
<1>14. w[x + 1] = s[y + 1]
  BY <1>7, <1>8, <1>9, <1>13
<1>15. Place(w[x + 1]) = x + 1 /\ Place(s[y + 1]) = y + 1
  BY <1>1, <1>11, <1>13 DEF Fits
<1> QED BY <1>7, <1>10, <1>14, <1>15

-------------------------------------------------------------------------------
(* What encryptFile writes of a file that does not shrink.                  *)

LEMMA ReadsExist ==
  ASSUME NEW n \in Nat \ {0}, NEW now \in [1 .. n -> Nat]
  PROVE  \E offset \in [0 .. n -> Nat] :
           /\ offset[0] = 0
           /\ \A i \in 1 .. n :
                offset[i] = Max({offset[i - 1], Min({now[i], offset[i - 1] + Chunk})})
           /\ BytesRead(now) = [i \in 1 .. n |-> offset[i] - offset[i - 1]]
<1> DEFINE step == [p \in Nat \X (1 .. n) |-> Max({p[1], Min({now[p[2]], p[1] + Chunk})})]
           is(f) == f = [i \in 0 .. Len(now) |-> IF i = 0 THEN 0
                            ELSE Max({f[i - 1], Min({now[i], f[i - 1] + Chunk})})]
           read == CHOOSE f : is(f)
<1>n. Len(now) = n /\ Chunk \in Nat
  BY FileStreamAssumption
<1>1. \A a \in Nat, b \in Nat : Max({a, Min({b, a + Chunk})}) \in Nat
  <2> TAKE a \in Nat, b \in Nat
  <2>1. b \in Int /\ a + Chunk \in Int /\ a \in Int /\ a + Chunk \in Nat
    BY <1>n
  <2> DEFINE m == Min({b, a + Chunk})
  <2>2. m = IF b <= a + Chunk THEN b ELSE a + Chunk
    BY Zenon, <2>1, TwoOf
  <2>3. m \in Nat /\ m \in Int
    <3> HIDE DEF m
    <3> QED BY <2>1, <2>2
  <2> HIDE DEF m
  <2>4. Max({a, m}) = IF a >= m THEN a ELSE m
    BY Zenon, <2>1, <2>3, TwoOf
  <2>5. Max({a, m}) \in Nat
    BY <2>3, <2>4
  <2> QED BY <2>5 DEF m
<1>2. step \in [Nat \X (1 .. n) -> Nat]
  <2>1. \A p \in Nat \X (1 .. n) : Max({p[1], Min({now[p[2]], p[1] + Chunk})}) \in Nat
    <3> TAKE p \in Nat \X (1 .. n)
    <3>1. p[1] \in Nat /\ now[p[2]] \in Nat
      OBVIOUS
    <3> QED BY <1>1, <3>1
  <2> QED BY <2>1
<1>3. \A a \in Nat, i \in 1 .. n : step[<<a, i>>] = Max({a, Min({now[i], a + Chunk})})
  OBVIOUS
<1>4. PICK g \in [0 .. n -> Nat] : g[0] = 0 /\ \A i \in 1 .. n : g[i] = step[<<g[i - 1], i>>]
  <2> HIDE DEF step
  <2>1. \E g : Computes(g, n, Nat, 0, step)
    BY <1>2, Recursion
  <2> QED BY <2>1 DEF Computes
<1>5. \A i \in 1 .. n : i - 1 \in 0 .. n /\ i # 0 /\ i \in 0 .. n
  OBVIOUS
<1>6. \A i \in 1 .. n : g[i] = Max({g[i - 1], Min({now[i], g[i - 1] + Chunk})})
  <2> TAKE i \in 1 .. n
  <2>1. g[i - 1] \in Nat
    BY <1>4, <1>5
  <2> HIDE DEF step
  <2> QED BY <1>3, <1>4, <2>1
<1>7. is(g)
  <2>1. \A i \in 0 .. n : g[i] = IF i = 0 THEN 0
                                  ELSE Max({g[i - 1], Min({now[i], g[i - 1] + Chunk})})
    <3>1. \A i \in 0 .. n : i # 0 => i \in 1 .. n
      OBVIOUS
    <3> QED BY <1>4, <1>6, <3>1
  <2>2. g = [i \in 0 .. n |-> g[i]]
    BY <1>4
  <2> QED BY <2>1, <2>2, <1>n
<1>8. is(read)
  <2> HIDE DEF is
  <2> QED BY <1>7
<1>9. read[0] = 0 /\ \A i \in 1 .. n : read[i] = Max({read[i - 1], Min({now[i], read[i - 1] + Chunk})})
  <2> HIDE DEF read
  <2>1. \A i \in 0 .. n : read[i] = IF i = 0 THEN 0
                                  ELSE Max({read[i - 1], Min({now[i], read[i - 1] + Chunk})})
    BY <1>8, <1>n
  <2>2. 0 \in 0 .. n
    OBVIOUS
  <2> QED BY <1>5, <2>1, <2>2
<1>10. \A i \in 0 .. n : read[i] = g[i]
  <2> DEFINE S == {i \in 0 .. n : read[i] = g[i]}
  <2> HIDE DEF read
  <2>1. 0 \in S
    BY <1>4, <1>9
  <2>2. \A i \in 0 .. n - 1 : i \in S => i + 1 \in S
    <3> SUFFICES ASSUME NEW i \in 0 .. n - 1, read[i] = g[i] PROVE read[i + 1] = g[i + 1]
      <4>1. \A i \in 0 .. n - 1 : i + 1 \in 0 .. n
        OBVIOUS
      <4> QED BY <4>1
    <3>1. i + 1 \in 1 .. n /\ (i + 1) - 1 = i
      OBVIOUS
    <3> QED BY <1>6, <1>9, <3>1
  <2> HIDE DEF S
  <2>3. 0 .. n \subseteq S
    BY <2>1, <2>2, InductionUpTo
  <2> QED BY <2>3 DEF S
<1>11. BytesRead(now) = [i \in 1 .. n |-> read[i] - read[i - 1]]
  <2>1. BytesRead(now) = [i \in 1 .. Len(now) |-> read[i] - read[i - 1]]
    BY DEF BytesRead
  <2> HIDE DEF read
  <2> QED BY <1>n, <2>1
<1> HIDE DEF read
<1>12. BytesRead(now) = [i \in 1 .. n |-> g[i] - g[i - 1]]
  BY <1>5, <1>10, <1>11
<1> QED BY <1>4, <1>6, <1>12

LEMMA ReadType ==
  ASSUME NEW n \in Nat \ {0}, NEW now \in [1 .. n -> Nat]
  PROVE  BytesRead(now) \in [1 .. n -> Nat]
<1>1. PICK offset \in [0 .. n -> Nat] :
           /\ offset[0] = 0
           /\ \A i \in 1 .. n :
                offset[i] = Max({offset[i - 1], Min({now[i], offset[i - 1] + Chunk})})
           /\ BytesRead(now) = [i \in 1 .. n |-> offset[i] - offset[i - 1]]
  BY ReadsExist
<1>2. \A i \in 1 .. n : offset[i] - offset[i - 1] \in Nat
  <2> TAKE i \in 1 .. n
  <2> DEFINE a == offset[i - 1]
             c == a + Chunk
             b == Min({now[i], c})
  <2>1. i - 1 \in 0 .. n /\ i \in 0 .. n
    OBVIOUS
  <2>2. a \in Int /\ c \in Int /\ now[i] \in Int /\ a \in Nat
    BY <2>1, FileStreamAssumption
  <2>3. b = IF now[i] <= c THEN now[i] ELSE c
    <3> HIDE DEF c
    <3> QED BY Zenon, <2>2, TwoOf
  <2>4. b \in Int
    <3> HIDE DEF b, c
    <3> QED BY <2>2, <2>3
  <2>5. offset[i] = Max({a, b})
    BY <1>1
  <2> HIDE DEF a, b, c
  <2>6. Max({a, b}) = IF a >= b THEN a ELSE b
    BY Zenon, <2>2, <2>4, TwoOf
  <2>7. offset[i] - a \in Nat
    BY <2>2, <2>4, <2>5, <2>6
  <2> QED BY <2>7 DEF a
<1> QED BY <1>1, <1>2

LEMMA RecordCount ==
  ASSUME NEW size \in Nat
  PROVE  /\ Records(size) \in Nat \ {0}
         /\ \A i \in 1 .. Records(size) - 1 : i * Chunk < size /\ i * Chunk \in Nat
<1> DEFINE q == CeilDiv(size, Chunk)
           n == Records(size)
<1>0. Chunk \in Nat \ {0}
  BY FileStreamAssumption
<1>1. q \in Nat /\ (size > 0 => q \in Nat \ {0} /\ (q - 1) * Chunk < size)
  BY <1>0, RoundedUp
<1>2. size = 0 => q = 0
  <2> SUFFICES ASSUME size = 0 PROVE q = 0
    OBVIOUS
  <2>1. 0 + Chunk - 1 = Chunk - 1 /\ Chunk - 1 \in 0 .. Chunk - 1
    BY <1>0
  <2>2. (0 + Chunk - 1) \div Chunk = 0
    BY <1>0, <2>1
  <2> QED BY <2>2 DEF CeilDiv
<1> HIDE DEF q
<1>3. n = IF 1 >= q THEN 1 ELSE q
  <2>1. 1 \in Int /\ q \in Int
    BY <1>1
  <2>2. Max({1, q}) = IF 1 >= q THEN 1 ELSE q
    BY Zenon, <2>1, TwoOf
  <2> QED BY <2>2 DEF Records, q
<1> HIDE DEF n
<1>4. n \in Nat \ {0}
  BY <1>1, <1>3
<1>5. \A i \in 1 .. n - 1 : i * Chunk < size /\ i * Chunk \in Nat
  <2> TAKE i \in 1 .. n - 1
  <2>1. n = q /\ q - 1 \in Nat /\ i \in Nat /\ i <= q - 1 /\ size > 0
    BY <1>1, <1>2, <1>3, <1>4
  <2>2. i * Chunk <= (q - 1) * Chunk /\ i * Chunk \in Nat /\ (q - 1) * Chunk \in Nat
    BY <1>0, <2>1, Times
  <2>3. (q - 1) * Chunk < size
    BY <1>1, <2>1
  <2> DEFINE u == i * Chunk
             v == (q - 1) * Chunk
  <2> HIDE DEF u, v
  <2>4. u <= v /\ u \in Nat /\ v \in Nat /\ v < size
    BY <2>2, <2>3 DEF u, v
  <2>5. u < size
    BY <2>4
  <2> QED BY <2>4, <2>5 DEF u
<1> QED BY <1>4, <1>5 DEF n

\* Every record but the last is full as long as the file is there.
LEMMA SteadyReads ==
  ASSUME NEW size \in Nat, NEW now \in [1 .. Records(size) -> Nat],
         \A i \in 1 .. Records(size) : now[i] >= size
  PROVE  \A i \in 1 .. Records(size) :
           IF i < Records(size) THEN BytesRead(now)[i] = Chunk ELSE BytesRead(now)[i] \in 0 .. Chunk
<1> DEFINE n == Records(size)
<1>0. n \in Nat \ {0} /\ \A i \in 1 .. n - 1 : i * Chunk < size /\ i * Chunk \in Nat
  BY RecordCount
<1>c. Chunk \in Nat \ {0}
  BY FileStreamAssumption
<1> HIDE DEF n
<1>1. now \in [1 .. n -> Nat] /\ \A i \in 1 .. n : now[i] >= size
  BY DEF n
<1>2. PICK offset \in [0 .. n -> Nat] :
           /\ offset[0] = 0
           /\ \A i \in 1 .. n :
                offset[i] = Max({offset[i - 1], Min({now[i], offset[i - 1] + Chunk})})
           /\ BytesRead(now) = [i \in 1 .. n |-> offset[i] - offset[i - 1]]
  BY <1>0, <1>1, ReadsExist
<1>3. \A i \in 1 .. n : /\ i - 1 \in 0 .. n /\ offset[i - 1] \in Nat /\ now[i] \in Nat
                        /\ offset[i] = IF now[i] <= offset[i - 1] THEN offset[i - 1]
                                       ELSE IF now[i] <= offset[i - 1] + Chunk THEN now[i]
                                       ELSE offset[i - 1] + Chunk
  <2> TAKE i \in 1 .. n
  <2> DEFINE a == offset[i - 1]
             c == a + Chunk
             b == Min({now[i], c})
  <2>1. i - 1 \in 0 .. n /\ i \in 0 .. n
    BY <1>0
  <2>2. a \in Int /\ c \in Int /\ now[i] \in Int /\ a \in Nat /\ c > a /\ now[i] \in Nat
    <3>1. a \in Nat /\ now[i] \in Nat
      BY <1>1, <2>1
    <3> HIDE DEF a
    <3> QED BY <3>1, <1>c
  <2>3. b = IF now[i] <= c THEN now[i] ELSE c
    <3> HIDE DEF c
    <3> QED BY Zenon, <2>2, TwoOf
  <2>5. offset[i] = Max({a, b})
    BY <1>2
  <2>6. Max({a, b}) = IF a >= b THEN a ELSE b
    <3>1. b \in Int
      <4> HIDE DEF b, c
      <4> QED BY <2>2, <2>3
    <3> HIDE DEF a, b
    <3> QED BY Zenon, <2>2, <3>1, TwoOf
  <2> HIDE DEF a, b, c
  <2>7. offset[i] = IF now[i] <= a THEN a ELSE IF now[i] <= c THEN now[i] ELSE c
    BY <2>2, <2>3, <2>5, <2>6
  <2> QED BY <2>1, <2>2, <2>7 DEF a, c
<1>4. \A i \in 0 .. n - 1 : offset[i] = i * Chunk
  <2> DEFINE S == {i \in 0 .. n - 1 : offset[i] = i * Chunk}
  <2>1. 0 \in S
    <3>1. 0 * Chunk = 0 /\ 0 \in 0 .. n - 1
      BY <1>0, <1>c
    <3> QED BY <1>2, <3>1
  <2>2. \A i \in 0 .. (n - 1) - 1 : i \in S => i + 1 \in S
    <3> SUFFICES ASSUME NEW i \in 0 .. (n - 1) - 1, offset[i] = i * Chunk
                 PROVE  offset[i + 1] = (i + 1) * Chunk
      <4>1. \A i \in 0 .. (n - 1) - 1 : i + 1 \in 0 .. n - 1
        BY <1>0
      <4> QED BY <4>1
    <3>1. i \in Nat /\ i + 1 \in 1 .. n - 1 /\ i + 1 \in 1 .. n /\ (i + 1) - 1 = i
      BY <1>0
    <3>2. (i + 1) * Chunk = i * Chunk + Chunk /\ i * Chunk \in Nat
      BY <1>c, <3>1, Times
    <3>3. (i + 1) * Chunk < size /\ size <= now[i + 1] /\ now[i + 1] \in Nat
      <4>1. now[i + 1] >= size /\ now[i + 1] \in Nat
        BY <1>1, <3>1
      <4>2. (i + 1) * Chunk < size
        BY <1>0, <3>1
      <4> QED BY <4>1, <4>2
    <3> DEFINE a == i * Chunk
               d == (i + 1) * Chunk
               l == now[i + 1]
    <3>4. offset[i + 1] = IF l <= a THEN a ELSE IF l <= a + Chunk THEN l ELSE a + Chunk
      BY <1>3, <3>1
    <3>5. d = a + Chunk /\ a \in Nat /\ d < size /\ size <= l /\ l \in Nat
      BY <3>2, <3>3
    <3> HIDE DEF a, d, l
    <3>6. offset[i + 1] = d
      BY <1>c, <3>4, <3>5
    <3> QED BY <3>6 DEF d
  <2>3. 0 .. n - 1 \subseteq S
    <3>1. n - 1 \in Nat
      BY <1>0
    <3> HIDE DEF S
    <3> QED BY <3>1, <2>1, <2>2, InductionUpTo
  <2> QED BY <2>3
<1>5. \A i \in 1 .. n : IF i < n THEN offset[i] - offset[i - 1] = Chunk
                                 ELSE offset[i] - offset[i - 1] \in 0 .. Chunk
  <2> TAKE i \in 1 .. n
  <2>1. CASE i < n
    <3>1. i \in 0 .. n - 1 /\ i - 1 \in 0 .. n - 1 /\ i - 1 \in Nat /\ (i - 1) + 1 = i
      BY <1>0, <2>1
    <3>2. offset[i] = i * Chunk /\ offset[i - 1] = (i - 1) * Chunk
      BY <1>4, <3>1
    <3>3. i * Chunk = (i - 1) * Chunk + Chunk /\ (i - 1) * Chunk \in Nat
      BY <1>c, <3>1, Times
    <3> DEFINE a == (i - 1) * Chunk
    <3>4. offset[i - 1] = a /\ offset[i] = a + Chunk /\ a \in Nat
      BY <3>2, <3>3
    <3> HIDE DEF a
    <3> QED BY <1>c, <2>1, <3>4
  <2>2. CASE ~ (i < n)
    <3> DEFINE a == offset[i - 1]
               l == now[i]
    <3>1. /\ a \in Nat /\ l \in Nat
          /\ offset[i] = IF l <= a THEN a ELSE IF l <= a + Chunk THEN l ELSE a + Chunk
      BY <1>3
    <3> HIDE DEF a, l
    <3>2. offset[i] - a \in 0 .. Chunk
      BY <1>c, <3>1
    <3> QED BY <2>2, <3>2 DEF a
  <2> QED BY <2>1, <2>2
<1>6. \A i \in 1 .. n : BytesRead(now)[i] = offset[i] - offset[i - 1]
  BY <1>2
<1>7. \A i \in 1 .. n : IF i < n THEN BytesRead(now)[i] = Chunk ELSE BytesRead(now)[i] \in 0 .. Chunk
  BY <1>5, <1>6
<1> QED BY <1>7 DEF n

\* The parts of a stream.
Parts(read) == [i \in 1 .. Len(read) |-> Record(i, i = Len(read), read[i])]

LEMMA PartAt ==
  ASSUME NEW n \in Nat \ {0}, NEW read \in [1 .. n -> Nat]
  PROVE  /\ Parts(read) \in Seq(Seq(Byte)) /\ Len(Parts(read)) = n /\ Len(read) = n
         /\ Encrypted(read) = FlattenSeq(Parts(read)) /\ Encrypted(read) \in Seq(Byte)
         /\ \A i \in 1 .. n : /\ Parts(read)[i] = Record(i, i = n, read[i])
                              /\ Len(Parts(read)[i]) = read[i] + Seal
<1>1. Len(read) = n
  OBVIOUS
<1>2. \A i \in 1 .. n : /\ Record(i, i = n, read[i]) \in Seq(Byte)
                        /\ Len(Record(i, i = n, read[i])) = read[i] + Seal
  <2> TAKE i \in 1 .. n
  <2>1. i \in Nat /\ read[i] \in Nat
    OBVIOUS
  <2>2. (i = n) \in BOOLEAN
    BY Zenon
  <2> QED BY Zenon, <2>1, <2>2, RecordAt
<1>3. Parts(read) = [i \in 1 .. n |-> Record(i, i = n, read[i])]
  BY Zenon, <1>1 DEF Parts
<1> DEFINE p(i) == Record(i, i = n, read[i])
<1>4. Parts(read) = [i \in 1 .. n |-> p(i)] /\ \A i \in 1 .. n : p(i) \in Seq(Byte)
  BY Zenon, <1>2, <1>3
<1> HIDE DEF p, Byte
<1>5. Parts(read) \in Seq(Seq(Byte)) /\ Len(Parts(read)) = n /\ \A i \in 1 .. n : Parts(read)[i] = p(i)
  BY <1>4
<1>6. Encrypted(read) = FlattenSeq(Parts(read))
  BY Zenon DEF Encrypted, Parts
<1>7. FlattenSeq(Parts(read)) \in Seq(Byte)
  <2>1. 0 \in 0 .. Len(Parts(read)) - 1 /\ 0 \in Nat
    BY <1>5
  <2>2. \A i \in 1 .. 0 : Len(Parts(read)[i]) = 0
    OBVIOUS
  <2> HIDE DEF Parts
  <2> QED BY <1>5, <2>1, <2>2, FlattenAt
<1>8. \A i \in 1 .. n : Parts(read)[i] = Record(i, i = n, read[i])
  BY Zenon, <1>5 DEF p
<1>9. \A i \in 1 .. n : Len(Parts(read)[i]) = read[i] + Seal
  BY Zenon, <1>2, <1>8
<1> QED BY Zenon, <1>1, <1>5, <1>6, <1>7, <1>8, <1>9

\* A stream of the length that was announced, of a file that was never shorter,
\* decrypts to the file's size.
LEMMA SteadyDecrypts ==
  ASSUME NEW size \in Nat, NEW now \in [1 .. Records(size) -> Nat],
         \A i \in 1 .. Records(size) : now[i] >= size,
         Len(Encrypted(BytesRead(now))) = Total(size)
  PROVE  Decrypts(Encrypted(BytesRead(now))) /\ PlainBytes(Encrypted(BytesRead(now))) = size
<1> DEFINE n == Records(size)
           read == BytesRead(now)
           s == Encrypted(read)
           parts == Parts(read)
           R == RecordBytes
<1>r. R = Chunk + Seal /\ R \in Nat \ {0} /\ Chunk \in Nat \ {0} /\ Seal \in Nat \ {0}
  BY FileStreamAssumption, BlockSize
<1>0. n \in Nat \ {0}
  BY RecordCount
<1>1. read \in [1 .. n -> Nat]
  BY <1>0, ReadType
<1>2. \A i \in 1 .. n : IF i < n THEN read[i] = Chunk ELSE read[i] \in 0 .. Chunk
  BY SteadyReads
<1>3. Len(s) = size + n * Seal
  BY DEF Total
<1> HIDE DEF read, n
<1>4. /\ parts \in Seq(Seq(Byte)) /\ Len(parts) = n /\ s = FlattenSeq(parts) /\ s \in Seq(Byte)
      /\ \A i \in 1 .. n : parts[i] = Record(i, i = n, read[i]) /\ Len(parts[i]) = read[i] + Seal
  BY <1>0, <1>1, PartAt
<1> HIDE DEF parts, s, R, Byte
<1>5. \A i \in 1 .. n : read[i] \in Nat /\ (i < n => Len(parts[i]) = R)
  BY <1>1, <1>2, <1>4, <1>r
<1>6. \A i \in 1 .. n :
        /\ (i - 1) * R + Len(parts[i]) <= Len(s)
        /\ \A k \in 1 .. Len(parts[i]) : s[(i - 1) * R + k] = parts[i][k]
        /\ i = n => Len(s) = (i - 1) * R + Len(parts[i])
  <2> TAKE i \in 1 .. n
  <2>1. PICK m \in 0 .. Len(parts) - 1 : m = i - 1 /\ m + 1 = i
    BY <1>0, <1>4
  <2>2. \A k \in 1 .. m : Len(parts[k]) = R
    <3> TAKE k \in 1 .. m
    <3>1. k \in 1 .. n /\ k < n
      BY <1>0, <2>1
    <3> QED BY <1>5, <3>1
  <2>3. R \in Nat
    BY <1>r
  <2>4. /\ m * R + Len(parts[m + 1]) <= Len(FlattenSeq(parts))
        /\ \A k \in 1 .. Len(parts[m + 1]) : FlattenSeq(parts)[m * R + k] = parts[m + 1][k]
        /\ m + 1 = Len(parts) => Len(FlattenSeq(parts)) = m * R + Len(parts[m + 1])
    <3>1. parts \in Seq(Seq(Byte))
      BY <1>4
    <3> QED BY Zenon, <2>2, <2>3, <3>1, FlattenAt
  <2> QED BY Zenon, <1>4, <2>1, <2>4
<1> DEFINE x == (n - 1) * R
           r == read[n] + Seal
<1>7. n \in 1 .. n /\ n - 1 \in Nat /\ x \in Nat /\ r \in 1 .. R /\ Len(s) = x + r
  <2>1. n \in 1 .. n /\ n - 1 \in Nat
    BY <1>0
  <2>2. x \in Nat
    BY <2>1, <1>r, Times
  <2>3. read[n] \in 0 .. Chunk
    BY <1>2, <2>1, <1>0
  <2>4. r \in 1 .. R
    BY <2>3, <1>r
  <2>5. Len(s) = x + r
    BY <1>4, <1>6, <2>1
  <2> QED BY <2>1, <2>2, <2>4, <2>5
<1>8. Blocks(s) = n
  <2>1. CeilDiv(Len(s), R) = (n - 1) + 1
    <3>1. Len(s) = (n - 1) * R + r /\ Len(s) \in Nat
      BY <1>7
    <3> HIDE DEF x, r
    <3> QED BY <1>7, <1>r, <3>1, RoundedTo
  <2>2. (n - 1) + 1 = n
    BY <1>0
  <2> QED BY <2>1, <2>2 DEF Blocks, R
<1>9. \A i \in 1 .. n : Block(s, i) = parts[i]
  <2> TAKE i \in 1 .. n
  <2> DEFINE y == (i - 1) * R
  <2>1. /\ Block(s, i) \in Seq(Byte)
        /\ i < n => Len(Block(s, i)) = R
        /\ i = n => Len(Block(s, i)) = Len(s) - y
        /\ \A k \in 1 .. Len(Block(s, i)) : Block(s, i)[k] = s[y + k]
    <3>1. i \in 1 .. Blocks(s)
      BY <1>8
    <3>2. /\ Block(s, i) \in Seq(Byte)
          /\ i < Blocks(s) => Len(Block(s, i)) = RecordBytes
          /\ i = Blocks(s) => Len(Block(s, i)) = Len(s) - (i - 1) * RecordBytes
          /\ \A k \in 1 .. Len(Block(s, i)) : Block(s, i)[k] = s[(i - 1) * RecordBytes + k]
      BY <1>4, <3>1, BlockAt
    <3> QED BY Zenon, <1>8, <3>2 DEF R
  <2>2. parts[i] \in Seq(Byte) /\ (i < n => Len(parts[i]) = R)
    BY <1>4, <1>5
  <2>3. i = n => Len(parts[i]) = r /\ y = x
    BY <1>4, <1>7
  <2>4. Len(Block(s, i)) = Len(parts[i])
    <3>1. CASE i < n
      BY <2>1, <2>2, <3>1
    <3>2. CASE i = n
      <4> HIDE DEF r, x, y
      <4>1. Len(Block(s, i)) = Len(s) - x /\ Len(s) = x + r /\ x \in Nat /\ r \in Nat
        BY <1>7, <2>1, <2>3, <3>2
      <4> QED BY <2>3, <3>2, <4>1
    <3> QED BY <1>0, <3>1, <3>2
  <2>5. \A k \in 1 .. Len(parts[i]) : s[y + k] = parts[i][k]
    BY <1>6
  <2> HIDE DEF y
  <2>6. \A k \in 1 .. Len(Block(s, i)) : Block(s, i)[k] = parts[i][k]
    BY <2>1, <2>4, <2>5
  <2> QED BY <2>1, <2>2, <2>4, <2>6, SeqEqual
<1>10. \A i \in 1 .. Blocks(s) : OpensAs(Block(s, i), i, i = Blocks(s))
  <2> TAKE i \in 1 .. Blocks(s)
  <2>1. i \in 1 .. n
    BY <1>8
  <2>2. Block(s, i) = Record(i, i = n, read[i]) /\ Len(Block(s, i)) = read[i] + Seal
    BY Zenon, <1>4, <1>9, <2>1
  <2>3. Len(Block(s, i)) >= Seal /\ Len(Block(s, i)) - Seal = read[i]
    BY <1>5, <2>1, <2>2, <1>r
  <2> QED BY Zenon, <1>8, <2>2, <2>3 DEF OpensAs
<1>11. s # <<>>
  <2>1. Len(s) > 0
    <3> HIDE DEF x, r
    <3>1. r > 0 /\ r \in Nat
      BY <1>7, <1>r
    <3> QED BY <1>7, <3>1
  <2> QED BY <2>1, EmptySeq
<1>12. PlainBytes(s) = size
  <2> DEFINE z == n * Seal
  <2>1. z \in Nat /\ Len(s) = size + z
    BY <1>0, <1>3, <1>r, Times
  <2>2. PlainBytes(s) = Len(s) - z
    BY <1>8 DEF PlainBytes
  <2> HIDE DEF z
  <2> QED BY <2>1, <2>2
<1>13. Decrypts(s)
  BY Zenon, <1>10, <1>11 DEF Decrypts
<1> QED BY <1>12, <1>13 DEF s, read

-------------------------------------------------------------------------------
(* The stream the server has.                                              *)

StreamInv == stored.bytes \in Seq(Byte) /\ AnnouncedDecrypts

LEMMA StreamStart == Init => StreamInv
<1> SUFFICES ASSUME Init PROVE StreamInv
  OBVIOUS
<1>1. stored = NoStream /\ uploader = [at |-> "waiting", file |-> 0]
  BY Zenon DEF Init
<1>2. stored.bytes = <<>>
  BY Zenon, <1>1 DEF NoStream
<1>3. uploader.at # "announcing"
  BY <1>1
<1>4. stored.bytes \in Seq(Byte)
  BY Zenon, <1>2, EmptySeq
<1> QED BY Zenon, <1>3, <1>4 DEF StreamInv, AnnouncedDecrypts

\* What the server takes is a stream, and the file's if it did not shrink.
LEMMA StoredStream ==
  ASSUME StoreFile
  PROVE  stored'.bytes \in Seq(Byte)
         /\ (stored'.steady => Decrypts(stored'.bytes) /\ PlainBytes(stored'.bytes) = stored'.size)
<1>1. PICK size \in FileSizes : \E now \in Readings(size) : Streamed(size, now)
  BY Zenon DEF StoreFile
<1>2. PICK now \in Readings(size) : Streamed(size, now)
  BY Zenon, <1>1
<1> DEFINE bytes == Encrypted(BytesRead(now))
           n == Records(size)
<1>3. Len(bytes) = Total(size)
      /\ stored' = [size |-> size, steady |-> Steady(now, size), bytes |-> bytes]
  BY Zenon, <1>2 DEF Streamed
<1>4. size \in Nat /\ now \in [1 .. n -> Nat] /\ n \in Nat \ {0}
  <2>1. size \in Nat /\ FileSizes \subseteq Nat
    BY OutgoingAssumption
  <2>2. now \in [1 .. n -> FileSizes]
    BY DEF Readings
  <2> HIDE DEF n
  <2>3. now \in [1 .. n -> Nat]
    BY <2>1, <2>2
  <2> QED BY <2>1, <2>3, RecordCount DEF n
<1>5. bytes \in Seq(Byte)
  <2>1. BytesRead(now) \in [1 .. n -> Nat]
    BY <1>4, ReadType
  <2> HIDE DEF n
  <2> QED BY Zenon, <1>4, <2>1, PartAt
<1>6. stored'.bytes = bytes /\ stored'.size = size /\ stored'.steady = Steady(now, size)
  BY Zenon, <1>3
<1>7. Steady(now, size) => Decrypts(bytes) /\ PlainBytes(bytes) = size
  <2> SUFFICES ASSUME Steady(now, size) PROVE Decrypts(bytes) /\ PlainBytes(bytes) = size
    BY Zenon
  <2>1. \A i \in 1 .. n : now[i] >= size
    <3>1. DOMAIN now = 1 .. n
      BY <1>4
    <3>2. 1 .. n # {}
      BY <1>4
    <3> HIDE DEF n
    <3> QED BY <3>1, <3>2 DEF Steady
  <2> QED BY <1>3, <1>4, <2>1, SteadyDecrypts
<1> QED BY Zenon, <1>5, <1>6, <1>7

LEMMA StreamStep == FileInv /\ StreamInv /\ [Next]_vars => StreamInv'
<1> SUFFICES ASSUME FileInv, StreamInv, [Next]_vars PROVE StreamInv'
  OBVIOUS
<1>1. CASE UNCHANGED <<uploader, stored>>
  BY Zenon, <1>1 DEF StreamInv, AnnouncedDecrypts
<1>2. CASE stored' \in {stored, NoStream} /\ uploader'.at # "announcing"
  <2>1. NoStream.bytes \in Seq(Byte)
    BY Zenon, EmptySeq DEF NoStream
  <2>2. stored'.bytes \in Seq(Byte)
    BY Zenon, <1>2, <2>1 DEF StreamInv
  <2> QED BY Zenon, <1>2, <2>2 DEF StreamInv, AnnouncedDecrypts
<1>3. CASE StoreFile
  BY Zenon, <1>3, StoredStream DEF StreamInv, AnnouncedDecrypts
<1>4. CASE Next /\ ~ StoreFile
  <2>1. CASE UNCHANGED <<counted, asked, pending, uploads, uploader, stored, shared, notShared>>
             \/ CountUpload \/ PushUpload
    BY Zenon, <1>1, <2>1 DEF CountUpload, PushUpload, sharing
  <2>2. CASE UploaderStarts \/ UploadReported \/ SendDone \/ UploadDone \/ UploadFails
    <3>1. stored' = stored
      BY Zenon, <2>2 DEF UploaderStarts, UploadReported, SendDone, UploadDone, UploadFails
    <3>2. \E a \in {"idle", "telling", "failed"} : uploader' = [uploader EXCEPT !.at = a]
      BY <2>2 DEF UploaderStarts, UploadReported, SendDone, UploadDone, UploadFails
    <3>3. uploader'.at # "announcing"
      BY <3>2, UploaderAt DEF FileInv, Places, AtWork
    <3> QED BY <1>2, <3>1, <3>3
  <2>3. CASE Announce \/ AnnounceFails
    <3>1. stored' = NoStream
      BY Zenon, <2>3 DEF Announce, AnnounceFails
    <3>2. \E a \in {"shared", "failed"} : uploader' = [uploader EXCEPT !.at = a]
      BY <2>3 DEF Announce, AnnounceFails
    <3>3. uploader'.at # "announcing"
      BY <3>2, UploaderAt DEF FileInv, Places, AtWork
    <3> QED BY <1>2, <3>1, <3>3
  <2>4. CASE TakeUpload
    <3>1. stored' = stored
      BY Zenon, <2>4 DEF TakeUpload
    <3>2. \E a \in {"streaming", "failed"} : uploader' = [at |-> a, file |-> NextUpload]
      BY <2>4 DEF TakeUpload
    <3>3. uploader'.at # "announcing"
      BY <3>2
    <3> QED BY <1>2, <3>1, <3>3
  <2>5. CASE SendStarts
    <3>1. stored' = stored
      BY Zenon, <2>5 DEF SendStarts
    <3>2. uploader' = uploader \/ uploader' = [uploader EXCEPT !.at = "idle"]
      BY <2>5 DEF SendStarts
    <3>3. uploader' = uploader \/ uploader'.at # "announcing"
      BY <3>2, UploaderAt DEF FileInv, Places, AtWork
    <3> QED BY <1>1, <1>2, <3>1, <3>3
  <2> QED BY <1>4, <2>1, <2>2, <2>3, <2>4, <2>5, FileSteps
<1>5. CASE UNCHANGED vars
  BY Zenon, <1>1, <1>5 DEF vars, sharing
<1> QED BY <1>3, <1>4, <1>5

LEMMA StreamInvariance == Spec => []StreamInv
<1>1. Init => StreamInv
  BY StreamStart
<1>2. FileInv /\ StreamInv /\ [Next]_vars => StreamInv'
  BY StreamStep
<1> QED BY <1>1, <1>2, FileInvariance, PTL DEF Spec

\* room.go:773 announces a length before the file is read, room.go:919 seals it
\* while it is: what the server takes is the file, unless it shrank meanwhile,
\* whatever its size, the record's and how much it grows between two reads.
THEOREM AnnouncedWhole == Spec => []AnnouncedDecrypts
<1>1. StreamInv => AnnouncedDecrypts
  BY Zenon DEF StreamInv
<1> QED BY <1>1, StreamInvariance, PTL

\* room.go:959: a stream that lost a piece, has a record twice or two records
\* exchanged does not pass for the file, whatever the sizes.
THEOREM DamageNoticed == Spec => []DamageShows
<1>1. StreamInv => DamageShows
  <2> SUFFICES ASSUME StreamInv PROVE DamageShows
    OBVIOUS
  <2> DEFINE s == stored.bytes
  <2>1. s \in Seq(Byte)
    BY Zenon DEF StreamInv
  <2> HIDE DEF s
  <2> SUFFICES ASSUME Decrypts(s)
               PROVE  /\ \A i, j \in 1 .. Len(s) : i <= j => ~Decrypts(Without(s, i, j))
                      /\ \A i, j \in 1 .. Blocks(s) : /\ i # j => ~Decrypts(Swapped(s, i, j))
                                                      /\ ~Decrypts(s \o Block(s, i))
    BY Zenon DEF DamageShows, s
  <2>2. \A i, j \in 1 .. Len(s) : i <= j => ~Decrypts(Without(s, i, j))
    BY Zenon, <2>1, PieceMissed
  <2>3. \A i, j \in 1 .. Blocks(s) : i # j => ~Decrypts(Swapped(s, i, j))
    BY Zenon, <2>1, RecordsSwapped
  <2>4. \A i \in 1 .. Blocks(s) : ~Decrypts(s \o Block(s, i))
    BY Zenon, <2>1, RecordTwice
  <2> QED BY Zenon, <2>2, <2>3, <2>4
<1> QED BY <1>1, StreamInvariance, PTL

===============================================================================
