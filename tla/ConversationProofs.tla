-------------------------- MODULE ConversationProofs --------------------------
(***************************************************************************)
(* Theorems about Conversation, for every value of its constants: types,   *)
(* that messages are shown once and in order, whatever is lost and         *)
(* replayed, which makes the reader an implementation of Transcript, that  *)
(* what was removed, wiped or not one's own stays so, and that a replay is *)
(* counted down exactly as long as every kept message decrypts.            *)
(***************************************************************************)
EXTENDS Conversation, Induction, SequenceTheorems, FiniteSetTheorems, TLAPS

USE DEF Content, Quiet, Kept, AllKinds

-------------------------------------------------------------------------------
(* Sequences of frames in the order of their ids.                          *)

\* Handling the first frame of a queue: what is left follows it.
LEMMA SortedTail ==
  ASSUME NEW s \in Seq(Frame), s # <<>>, Sorted(s)
  PROVE  /\ Head(s) \in Elements(s)
         /\ Elements(s) = {Head(s)} \cup Elements(Tail(s))
         /\ Sorted(Tail(s))
         /\ \A f \in Elements(Tail(s)) : Head(s).id < f.id
<1>1. /\ Tail(s) \in Seq(Frame)
      /\ Len(Tail(s)) = Len(s) - 1
      /\ \A i \in 1 .. Len(Tail(s)) : Tail(s)[i] = s[i+1]
  BY HeadTailProperties
<1>2. Len(s) \in Nat /\ Len(s) # 0 /\ Head(s) = s[1]
  BY EmptySeq
<1>3. Head(s) \in Elements(s)
  BY <1>2 DEF Elements
<1>4. Elements(s) = {Head(s)} \cup Elements(Tail(s))
  <2>1. \A k \in 1 .. Len(s) : k = 1 \/ (k - 1 \in 1 .. Len(Tail(s)) /\ Tail(s)[k-1] = s[k])
    BY <1>1, <1>2
  <2>2. Elements(s) \subseteq {Head(s)} \cup Elements(Tail(s))
    BY <2>1, <1>2 DEF Elements
  <2>3. \A k \in 1 .. Len(Tail(s)) : k + 1 \in 1 .. Len(s) /\ s[k+1] = Tail(s)[k]
    BY <1>1, <1>2
  <2>4. Elements(Tail(s)) \subseteq Elements(s)
    BY <2>3 DEF Elements
  <2> QED BY <2>2, <2>4, <1>3
<1>5. Sorted(Tail(s))
  BY <1>1, <1>2 DEF Sorted
<1>6. \A f \in Elements(Tail(s)) : Head(s).id < f.id
  BY <1>1, <1>2 DEF Sorted, Elements
<1> QED BY <1>3, <1>4, <1>5, <1>6

\* Relaying a frame that follows everything before it.
LEMMA SortedAppend ==
  ASSUME NEW s \in Seq(Frame), NEW f \in Frame, Sorted(s),
         \A g \in Elements(s) : g.id < f.id
  PROVE  /\ Append(s, f) \in Seq(Frame)
         /\ Sorted(Append(s, f))
         /\ Elements(Append(s, f)) = Elements(s) \cup {f}
<1>1. /\ Append(s, f) \in Seq(Frame)
      /\ Len(Append(s, f)) = Len(s) + 1
      /\ \A i \in 1 .. Len(s) : Append(s, f)[i] = s[i]
      /\ Append(s, f)[Len(s) + 1] = f
  BY AppendProperties
<1>2. Len(s) \in Nat
  OBVIOUS
<1>3. Sorted(Append(s, f))
  <2> SUFFICES ASSUME NEW a \in 1 .. Len(s) + 1, NEW b \in 1 .. Len(s) + 1, a < b
               PROVE  Append(s, f)[a].id < Append(s, f)[b].id
    BY <1>1 DEF Sorted
  <2>1. a \in 1 .. Len(s) /\ Append(s, f)[a] = s[a] /\ s[a] \in Elements(s)
    BY <1>1, <1>2 DEF Elements
  <2>2. CASE b = Len(s) + 1
    BY <2>1, <2>2, <1>1
  <2>3. CASE b # Len(s) + 1
    BY <2>1, <2>3, <1>1, <1>2 DEF Sorted
  <2> QED BY <2>2, <2>3
<1>4. Elements(Append(s, f)) = Elements(s) \cup {f}
  <2>1. Elements(Append(s, f)) \subseteq Elements(s) \cup {f}
    BY <1>1, <1>2 DEF Elements
  <2>2. Elements(s) \subseteq Elements(Append(s, f))
    BY <1>1, <1>2 DEF Elements
  <2>3. f \in Elements(Append(s, f))
    BY <1>1, <1>2 DEF Elements
  <2> QED BY <2>1, <2>2, <2>3
<1> QED BY <1>1, <1>3, <1>4

\* The last n frames of a sequence of frames are one.
LEMMA LastOfType ==
  ASSUME NEW s \in Seq(Frame), NEW n \in Nat
  PROVE  LastOf(s, n) \in Seq(Frame)
<1>1. CASE Len(s) <= n
  BY <1>1 DEF LastOf
<1>2. CASE Len(s) > n
  <2> DEFINE m == Len(s) - n + 1
  <2>1. m \in Int /\ m >= 1 /\ Len(s) \in Nat
    BY <1>2
  <2>2. \A i \in m .. Len(s) : s[i] \in Frame
    BY <2>1
  <2>3. LastOf(s, n) = SubSeq(s, m, Len(s))
    BY <1>2 DEF LastOf
  <2> HIDE DEF m
  <2> QED BY <2>1, <2>2, <2>3, SubSeqProperties
<1> QED BY <1>1, <1>2

\* What the server keeps is a sorted part of what it was given.
LEMMA SortedLastOf ==
  ASSUME NEW s \in Seq(Frame), NEW n \in Nat, Sorted(s)
  PROVE  /\ LastOf(s, n) \in Seq(Frame)
         /\ Sorted(LastOf(s, n))
         /\ Elements(LastOf(s, n)) \subseteq Elements(s)
<1>1. CASE Len(s) <= n
  BY <1>1 DEF LastOf
<1>2. CASE Len(s) > n
  <2> DEFINE m == Len(s) - n + 1
             t == SubSeq(s, m, Len(s))
  <2>1. LastOf(s, n) = t
    BY <1>2 DEF LastOf
  <2>2. m \in 1 .. Len(s) + 1 /\ Len(s) \in Nat
    BY <1>2
  <2>3. /\ t \in Seq(Frame)
        /\ Len(t) = IF m <= Len(s) THEN Len(s) - m + 1 ELSE 0
        /\ \A i \in 1 .. Len(s) - m + 1 : t[i] = s[m + i - 1]
    <3>1. \A i \in m .. Len(s) : s[i] \in Frame
      BY <2>2
    <3> HIDE DEF m
    <3> QED BY <3>1, <2>2, SubSeqProperties
  <2>4. \A i \in 1 .. Len(t) : m + i - 1 \in 1 .. Len(s) /\ t[i] = s[m + i - 1]
    BY <2>2, <2>3
  <2>5. Sorted(t)
    <3> SUFFICES ASSUME NEW a \in 1 .. Len(t), NEW b \in 1 .. Len(t), a < b
                 PROVE  t[a].id < t[b].id
      BY DEF Sorted
    <3> HIDE DEF t, m
    <3>1. m + a - 1 < m + b - 1
      BY <2>2, <2>3
    <3> QED BY <3>1, <2>4 DEF Sorted
  <2>6. Elements(t) \subseteq Elements(s)
    <3> HIDE DEF t, m
    <3> QED BY <2>2, <2>3, <2>4 DEF Elements
  <2> QED BY <2>1, <2>3, <2>5, <2>6
<1> QED BY <1>1, <1>2

\* The replay of a new subscription: its header and what was kept.
LEMMA SortedReplay ==
  ASSUME NEW h \in Frame, h.id = 0, NEW s \in Seq(Frame), Sorted(s),
         \A f \in Elements(s) : f.id > 0
  PROVE  /\ <<h>> \o s \in Seq(Frame)
         /\ Sorted(<<h>> \o s)
         /\ Elements(<<h>> \o s) = {h} \cup Elements(s)
<1> DEFINE t == <<h>> \o s
<1>1. /\ t \in Seq(Frame)
      /\ Len(t) = Len(s) + 1
      /\ \A i \in 1 .. Len(s) + 1 : t[i] = IF i = 1 THEN h ELSE s[i - 1]
  <2>1. <<h>> \in Seq(Frame) /\ Len(<<h>>) = 1 /\ <<h>>[1] = h
    OBVIOUS
  <2> QED BY <2>1, ConcatProperties
<1>2. Len(s) \in Nat
  OBVIOUS
<1> HIDE DEF t
<1>3. Sorted(t)
  <2> SUFFICES ASSUME NEW a \in 1 .. Len(s) + 1, NEW b \in 1 .. Len(s) + 1, a < b
               PROVE  t[a].id < t[b].id
    BY <1>1 DEF Sorted
  <2>1. b - 1 \in 1 .. Len(s) /\ t[b] = s[b - 1] /\ s[b - 1] \in Elements(s)
    BY <1>1, <1>2 DEF Elements
  <2>2. CASE a = 1
    BY <2>1, <2>2, <1>1, <1>2
  <2>3. CASE a # 1
    BY <2>1, <2>3, <1>1, <1>2 DEF Sorted
  <2> QED BY <2>2, <2>3
<1>4. Elements(t) = {h} \cup Elements(s)
  <2>1. Elements(t) \subseteq {h} \cup Elements(s)
    <3>1. \A k \in 1 .. Len(t) : k = 1 \/ (k - 1 \in 1 .. Len(s) /\ t[k] = s[k-1])
      BY <1>1, <1>2
    <3> QED BY <3>1, <1>1, <1>2 DEF Elements
  <2>2. \A k \in 1 .. Len(s) : k + 1 \in 1 .. Len(t) /\ t[k+1] = s[k]
    BY <1>1, <1>2
  <2>3. 1 \in 1 .. Len(t) /\ t[1] = h
    BY <1>1, <1>2
  <2>4. Elements(s) \subseteq Elements(t)
    BY <2>2 DEF Elements
  <2>5. h \in Elements(t)
    BY <2>3 DEF Elements
  <2> QED BY <2>1, <2>4, <2>5
<1> QED BY <1>1, <1>3, <1>4 DEF t

-------------------------------------------------------------------------------
(* Types.                                                                  *)

\* The state of a reader and of its room always has the types it should.
THEOREM TypeCorrect == Spec => []TypeOK
<1>1. Init => TypeOK
  <2> SUFFICES ASSUME Init PROVE TypeOK
    OBVIOUS
  <2>1. /\ said \in Seq(Frame) /\ kept \in Seq(Frame) /\ wire \in Seq(Frame)
        /\ downloads \in Seq(Nat) /\ Len(downloads) = 0 /\ shown \in Seq(Nat)
    BY EmptySeq DEF Init
  <2>2. drops \in 0 .. MaxDrops /\ restarts \in 0 .. MaxRestarts /\ DownloadCap \in Nat
    BY ConversationAssumption DEF Init
  <2>3. files \subseteq Nat /\ IsFiniteSet(files)
    BY FS_EmptySet DEF Init
  <2>4. Len(downloads) <= DownloadCap
    BY <2>1, <2>2
  <2>5. conn \in BOOLEAN /\ joined \in BOOLEAN
    BY DEF Init
  <2>6. /\ replayLeft \in Nat /\ lastSpoiler \in Nat /\ lastPoll \in Nat
        /\ joinedAt \in Nat /\ since \in Nat /\ wipedAt \in Nat
    BY DEF Init
  <2>7. /\ seenMIDs \subseteq Nat /\ log \subseteq Entry /\ polls \subseteq Nat
        /\ votes \subseteq Vote /\ offered \subseteq Nat /\ hints \subseteq (Nat \X Nat)
        /\ deleted \subseteq Nat /\ cleared \subseteq Nat
    BY DEF Init
  <2> QED BY <2>1, <2>2, <2>3, <2>4, <2>5, <2>6, <2>7 DEF TypeOK
<1>2. TypeOK /\ [Next]_vars => TypeOK'
  <2> SUFFICES ASSUME TypeOK, [Next]_vars PROVE TypeOK'
    OBVIOUS
  <2> USE ConversationAssumption
  <2>1. ASSUME NEW p \in People, NEW kind \in Kinds \ {"nuke", "cleared"},
               NEW target \in Targets(kind), NEW arg \in Args(kind),
               NEW sid \in Sids(p, kind), Post(p, kind, target, arg, sid)
        PROVE  TypeOK'
    <3> DEFINE f == [id |-> Len(said) + 1, kind |-> kind, by |-> VouchedName(p),
                     sid |-> sid, target |-> target, arg |-> arg]
    <3>1. f \in Frame
      <4>1. target \in Nat
        BY <2>1 DEF Targets, ContentIds, PollIds, TypeOK
      <4>2. arg \in Nat
        BY <2>1 DEF Args, Choices, TypeOK
      <4>3. Len(said) + 1 \in Nat
        BY DEF TypeOK
      <4> QED BY <2>1, <4>1, <4>2, <4>3 DEF Frame, VouchedName, Sids
    <3>2. said' \in Seq(Frame) /\ wire' \in Seq(Frame)
      <4> HIDE DEF f
      <4>1. said' = Append(said, f) /\ wire' = IF conn THEN Append(wire, f) ELSE wire
        BY <2>1 DEF Post, Relay, f
      <4> QED BY <4>1, <3>1, AppendProperties DEF TypeOK
    <3>3. kept' \in Seq(Frame)
      <4> HIDE DEF f
      <4>1. kept' = IF ServerKeeps /\ kind \in Kept THEN LastOf(Append(kept, f), KeepMax) ELSE kept
        BY <2>1 DEF Post, f
      <4>2. Append(kept, f) \in Seq(Frame)
        BY <3>1, AppendProperties DEF TypeOK
      <4>3. LastOf(Append(kept, f), KeepMax) \in Seq(Frame)
        BY <4>2, LastOfType
      <4> QED BY <4>1, <4>3 DEF TypeOK
    <3> QED BY <2>1, <3>2, <3>3 DEF Post, TypeOK, listing, memory, polling
  <2>2. ASSUME NEW kind \in Kinds \cap {"nuke", "cleared"}, ServerFrame(kind)
        PROVE  TypeOK'
    <3> DEFINE f == [id |-> Len(said) + 1, kind |-> kind, by |-> Nobody, sid |-> Me,
                     target |-> 0, arg |-> Len(said)]
    <3>1. f \in Frame
      BY <2>2 DEF Frame, TypeOK
    <3>2. said' \in Seq(Frame) /\ wire' \in Seq(Frame)
      <4> HIDE DEF f
      <4>1. said' = Append(said, f) /\ wire' = IF conn THEN Append(wire, f) ELSE wire
        BY <2>2 DEF ServerFrame, Relay, f
      <4> QED BY <4>1, <3>1, AppendProperties DEF TypeOK
    <3>3. kept' \in Seq(Frame)
      BY <2>2 DEF ServerFrame, TypeOK
    <3> QED BY <2>2, <3>2, <3>3 DEF ServerFrame, TypeOK, listing, memory, polling
  <2>3. CASE Connect
    <3>1. [id |-> 0, kind |-> "replay", by |-> Nobody, sid |-> Me, target |-> 0,
           arg |-> Len(kept)] \in Frame
      BY DEF Frame, TypeOK
    <3>2. wire' \in Seq(Frame)
      BY <2>3, <3>1 DEF Connect, TypeOK
    <3> QED BY <2>3, <3>2 DEF Connect, TypeOK, server, listing, memory, polling
  <2>4. CASE Drop
    <3>1. wire' \in Seq(Frame)
      BY <2>4, EmptySeq DEF Drop
    <3>2. drops' \in 0 .. MaxDrops
      BY <2>4 DEF Drop, TypeOK
    <3> QED BY <2>4, <3>1, <3>2 DEF Drop, TypeOK, server, listing, memory, polling
  <2>5. CASE ServerRestart
    <3>1. wire' \in Seq(Frame) /\ kept' \in Seq(Frame)
      BY <2>5, EmptySeq DEF ServerRestart
    <3>2. restarts' \in 0 .. MaxRestarts
      BY <2>5 DEF ServerRestart, TypeOK
    <3> QED BY <2>5, <3>1, <3>2 DEF ServerRestart, TypeOK, listing, memory, polling
  <2>6. ASSUME NEW kinds, Incoming(kinds), Take
        PROVE  Head(wire) \in Frame /\ wire' \in Seq(Frame)
    BY <2>6, HeadTailProperties DEF Incoming, Take, TypeOK
  <2>7. CountDown => replayLeft' \in Nat
    BY DEF CountDown, Replayed, TypeOK
  <2>8. CASE ReceiveReplay
    BY <2>6, <2>8 DEF ReceiveReplay, TypeOK, server, listing, memory, polling, Frame
  <2>9. CASE ReceiveCleared
    <3>1. files' \subseteq files /\ cleared' \subseteq Nat
      BY <2>9 DEF ReceiveCleared, TypeOK
    <3>2. IsFiniteSet(files')
      BY <3>1, FS_Subset DEF TypeOK
    <3> QED BY <2>6, <2>9, <3>1, <3>2 DEF ReceiveCleared, TypeOK, server, polling
  <2>10. CASE ReceiveSealed
    BY <2>6, <2>10 DEF ReceiveSealed, TypeOK, server, listing, memory, polling
  <2>11. CASE ReceiveAside
    BY <2>6, <2>7, <2>11 DEF ReceiveAside, TypeOK, server, listing, memory, polling
  <2>12. CASE ReceiveNuke
    BY <2>6, <2>7, <2>12, FS_EmptySet DEF ReceiveNuke, TypeOK, server, polling, Frame
  <2>13. CASE ReceiveEdit
    <3>1. Head(wire).arg \in Nat
      BY <2>6, <2>13 DEF ReceiveEdit, Frame
    <3>2. log' \subseteq Entry
      BY <2>13, <3>1 DEF ReceiveEdit, TypeOK, Entry
    <3> QED BY <2>6, <2>7, <2>13, <3>2 DEF ReceiveEdit, TypeOK, server, listing, polling
  <2>14. CASE ReceiveDelete
    <3>1. log' \subseteq Entry /\ deleted' \subseteq Nat
      BY <2>14 DEF ReceiveDelete, TypeOK, Entry
    <3> QED BY <2>6, <2>7, <2>14, <3>1 DEF ReceiveDelete, TypeOK, server, listing, polling
  <2>15. CASE ReceiveVote
    <3>1. Head(wire) \in Frame
      BY <2>6, <2>15 DEF ReceiveVote
    <3>2. votes' \subseteq Vote
      BY <2>15, <3>1 DEF ReceiveVote, Voted, TypeOK, Vote, Frame
    <3> QED BY <2>6, <2>7, <2>15, <3>2 DEF ReceiveVote, TypeOK, server, listing, memory
  <2>16. CASE ReceiveRepeat
    BY <2>6, <2>7, <2>16 DEF ReceiveRepeat, TypeOK, server, listing, memory, polling
  <2>17. ASSUME NEW kinds, Incoming(kinds), Show(Head(wire))
         PROVE  /\ Head(wire).id \in Nat /\ Head(wire).sid \in People
                /\ wire' \in Seq(Frame) /\ replayLeft' \in Nat
                /\ seenMIDs' \subseteq Nat /\ shown' \in Seq(Nat) /\ log' \subseteq Entry
                /\ UNCHANGED <<server, conn, drops, joined, joinedAt, since, deleted, cleared, wipedAt>>
    <3>1. Head(wire) \in Frame /\ wire' \in Seq(Frame) /\ replayLeft' \in Nat
      BY <2>6, <2>7, <2>17 DEF Show
    <3>2. Head(wire).id \in Nat /\ Head(wire).sid \in People
      BY <3>1 DEF Frame
    <3>3. log' \subseteq Entry
      BY <2>17, <3>2 DEF Show, Remember, NewestOf, TypeOK, Entry
    <3>4. seenMIDs' \subseteq Nat /\ shown' \in Seq(Nat)
      BY <2>17, <3>2, AppendProperties DEF Show, TypeOK
    <3> QED BY <2>17, <3>1, <3>2, <3>3, <3>4 DEF Show
  <2>18. CASE ReceiveText
    BY <2>17, <2>18 DEF ReceiveText, TypeOK, server, listing, polling
  <2>19. CASE ReceiveSpoiler
    BY <2>17, <2>19 DEF ReceiveSpoiler, TypeOK, server, listing, polling
  <2>20. CASE ReceivePoll
    BY <2>17, <2>20 DEF ReceivePoll, TypeOK, server, listing
  <2>21. CASE ReceiveFile
    <3>1. Head(wire).id \in Nat
      BY <2>17, <2>21 DEF ReceiveFile
    <3>2. files' \subseteq Nat /\ IsFiniteSet(files')
      BY <2>21, <3>1, FS_AddElement DEF ReceiveFile, TypeOK
    <3>3. Cardinality(files) \in Nat
      BY FS_CardinalityType DEF TypeOK
    <3>4. hints' \subseteq (Nat \X Nat)
      BY <2>21, <3>1, <3>3 DEF ReceiveFile, TypeOK
    <3>5. downloads' \in Seq(Nat) /\ Len(downloads') <= DownloadCap
      BY <2>21, <3>1, AppendProperties DEF ReceiveFile, TypeOK
    <3> QED BY <2>17, <2>21, <3>1, <3>2, <3>4, <3>5 DEF ReceiveFile, TypeOK, server, polling
  <2>22. ASSUME NEW i \in Listed, Get(i)
         PROVE  TypeOK'
    <3>0. i \in Nat
      BY DEF Listed, TypeOK
    <3>1. downloads' \in Seq(Nat) /\ Len(downloads') <= DownloadCap
      BY <2>22, <3>0, AppendProperties DEF Get, TypeOK
    <3> QED BY <2>22, <3>1 DEF Get, TypeOK, server, link, memory, polling
  <2>23. CASE TakeDownload
    <3>1. downloads' \in Seq(Nat) /\ Len(downloads') <= DownloadCap
      BY <2>23, HeadTailProperties DEF TakeDownload, TypeOK
    <3> QED BY <2>23, <3>1 DEF TakeDownload, TypeOK, server, link, memory, polling
  <2>24. CASE UNCHANGED vars
    BY <2>24 DEF TypeOK, vars, server, link, listing, memory, polling
  <2> QED
    BY <2>1, <2>2, <2>3, <2>4, <2>5, <2>8, <2>9, <2>10, <2>11, <2>12, <2>13, <2>14, <2>15,
       <2>16, <2>18, <2>19, <2>20, <2>21, <2>22, <2>23, <2>24
    DEF Next, Room, Receive
<1> QED BY <1>1, <1>2, PTL DEF Spec

-------------------------------------------------------------------------------
(* Order.                                                                  *)

OrderVars == <<said, kept, conn, wire, seenMIDs, shown>>

\* Steps that touch nothing the order of messages depends on.
LEMMA OrderStutter ==
  ASSUME OrderInv, UNCHANGED OrderVars
  PROVE  OrderInv'
BY DEF OrderVars, OrderInv, Numbered, KeptOnlyIfSo, QueuesInOrder, KeptWasSaid, WireWasSaid,
       SeenIsShown, ShownInOrder, NewComesLater, NewIsOnItsWay, WasSaid, IsNew, ShownSet,
       ContentIds, Elements, Sorted

\* The room takes a frame: it gets the next number, is relayed when the reader
\* is connected, and may be kept, or make the server drop what it kept.
LEMMA OrderRoom ==
  ASSUME TypeOK, OrderInv, NEW f \in Frame, f.id = Len(said) + 1,
         said' = Append(said, f), Relay(f), UNCHANGED <<conn, seenMIDs, shown>>,
         \/ kept' = kept
         \/ kept' = <<>>
         \/ ServerKeeps /\ kept' = LastOf(Append(kept, f), KeepMax)
  PROVE  OrderInv'
<1>1. /\ said' \in Seq(Frame) /\ Len(said') = Len(said) + 1 /\ Len(said) \in Nat
      /\ \A i \in 1 .. Len(said) : said'[i] = said[i]
      /\ said'[Len(said) + 1] = f
  BY AppendProperties DEF TypeOK
<1>2. Numbered'
  BY <1>1 DEF Numbered, OrderInv
<1>3. \A g \in Frame : WasSaid(g) => WasSaid(g)' /\ g.id < f.id
  BY <1>1 DEF WasSaid
<1>4. WasSaid(f)'
  BY <1>1 DEF WasSaid
<1>5. /\ \A g \in Elements(kept) : g \in Frame /\ g.id < f.id
      /\ \A g \in Elements(wire) : g \in Frame /\ g.id < f.id
  <2>1. \A g \in Elements(kept) \cup Elements(wire) : g \in Frame
    BY DEF Elements, TypeOK
  <2>2. 0 < f.id
    BY <1>1
  <2> QED BY <2>1, <2>2, <1>3 DEF OrderInv, KeptWasSaid, WireWasSaid
<1>6. /\ wire' \in Seq(Frame) /\ Sorted(wire')
      /\ Elements(wire') = IF conn THEN Elements(wire) \cup {f} ELSE Elements(wire)
  BY <1>5, SortedAppend DEF Relay, TypeOK, OrderInv, QueuesInOrder
<1>7. Sorted(kept') /\ Elements(kept') \subseteq Elements(kept) \cup {f}
  <2>1. CASE kept' = kept
    BY <2>1 DEF OrderInv, QueuesInOrder
  <2>2. CASE kept' = <<>>
    BY <2>2 DEF Sorted, Elements
  <2>3. CASE kept' = LastOf(Append(kept, f), KeepMax)
    <3>1. /\ Append(kept, f) \in Seq(Frame) /\ Sorted(Append(kept, f))
          /\ Elements(Append(kept, f)) = Elements(kept) \cup {f}
      BY <1>5, SortedAppend DEF TypeOK, OrderInv, QueuesInOrder
    <3>2. KeepMax \in Nat
      BY ConversationAssumption
    <3> QED BY <2>3, <3>1, <3>2, SortedLastOf
  <2> QED BY <2>1, <2>2, <2>3
<1>8. KeptOnlyIfSo'
  BY DEF KeptOnlyIfSo, OrderInv
<1>9. QueuesInOrder'
  BY <1>6, <1>7 DEF QueuesInOrder
<1>10. KeptWasSaid'
  BY <1>3, <1>4, <1>5, <1>7 DEF KeptWasSaid, OrderInv
<1>11. WireWasSaid'
  BY <1>3, <1>4, <1>5, <1>6 DEF WireWasSaid, OrderInv
<1>12. \A i \in seenMIDs : i < f.id
  BY <1>1 DEF OrderInv, SeenIsShown, ContentIds
<1>13. SeenIsShown'
  <2>1. ContentIds \subseteq ContentIds'
    BY <1>1 DEF ContentIds
  <2> QED BY <2>1 DEF SeenIsShown, OrderInv, ShownSet
<1>14. ShownInOrder'
  BY DEF ShownInOrder, OrderInv
<1>15. NewComesLater'
  BY <1>6, <1>7, <1>12 DEF NewComesLater, OrderInv, IsNew
<1>16. NewIsOnItsWay'
  BY <1>6, <1>7 DEF NewIsOnItsWay, OrderInv, IsNew
<1> QED BY <1>2, <1>8, <1>9, <1>10, <1>11, <1>13, <1>14, <1>15, <1>16 DEF OrderInv

\* A new subscription: what is kept is what will be replayed.
LEMMA OrderConnect ==
  ASSUME TypeOK, OrderInv, Connect
  PROVE  OrderInv'
<1> DEFINE h == [id |-> 0, kind |-> "replay", by |-> Nobody, sid |-> Me, target |-> 0,
                 arg |-> Len(kept)]
<1>1. h \in Frame /\ h.id = 0 /\ h.kind = "replay"
  BY ConversationAssumption DEF Frame, TypeOK
<1>2. \A f \in Elements(kept) : f.id > 0
  BY DEF OrderInv, KeptWasSaid, WasSaid, TypeOK
<1>3. /\ Sorted(wire')
      /\ Elements(wire') \subseteq {h} \cup Elements(kept)
      /\ Elements(kept) \subseteq Elements(wire')
  <2>1. CASE ServerKeeps
    <3>1. wire' = <<h>> \o kept
      BY <2>1 DEF Connect
    <3> HIDE DEF h
    <3>2. Sorted(wire') /\ Elements(wire') = {h} \cup Elements(kept)
      BY <3>1, <1>1, <1>2, SortedReplay DEF TypeOK, OrderInv, QueuesInOrder
    <3> QED BY <3>2
  <2>2. CASE ~ServerKeeps
    BY <2>2 DEF Connect, OrderInv, KeptOnlyIfSo, Sorted, Elements
  <2> QED BY <2>1, <2>2
<1>4. UNCHANGED <<said, kept, seenMIDs, shown>>
  BY DEF Connect, server
<1> HIDE DEF h
<1>5. /\ Numbered' /\ KeptOnlyIfSo' /\ KeptWasSaid' /\ SeenIsShown' /\ ShownInOrder'
  BY <1>4 DEF OrderInv, Numbered, KeptOnlyIfSo, KeptWasSaid, SeenIsShown, ShownInOrder,
              WasSaid, ShownSet, ContentIds, Elements
<1>6. QueuesInOrder'
  BY <1>3, <1>4 DEF OrderInv, QueuesInOrder, Sorted
<1>7. WireWasSaid'
  BY <1>1, <1>3, <1>4 DEF OrderInv, KeptWasSaid, WireWasSaid, WasSaid
<1>8. NewComesLater'
  BY <1>1, <1>3, <1>4 DEF OrderInv, NewComesLater, IsNew, Content
<1>9. NewIsOnItsWay'
  BY <1>3, <1>4 DEF NewIsOnItsWay
<1> QED BY <1>5, <1>6, <1>7, <1>8, <1>9 DEF OrderInv

\* The connection is lost, and perhaps what the server kept.
LEMMA OrderLost ==
  ASSUME OrderInv, conn' = FALSE, wire' = <<>>, kept' = kept \/ kept' = <<>>,
         UNCHANGED <<said, seenMIDs, shown>>
  PROVE  OrderInv'
<1>1. Elements(wire') = {} /\ Sorted(wire')
  BY DEF Elements, Sorted
<1>2. Elements(kept') \subseteq Elements(kept) /\ Sorted(kept')
  BY DEF Elements, Sorted, OrderInv, QueuesInOrder
<1>3. Numbered' /\ KeptOnlyIfSo' /\ SeenIsShown' /\ ShownInOrder'
  BY DEF OrderInv, Numbered, KeptOnlyIfSo, SeenIsShown, ShownInOrder, ShownSet, ContentIds
<1>4. QueuesInOrder' /\ KeptWasSaid' /\ WireWasSaid' /\ NewComesLater' /\ NewIsOnItsWay'
  BY <1>1, <1>2 DEF OrderInv, QueuesInOrder, KeptWasSaid, WireWasSaid, WasSaid,
                    NewComesLater, NewIsOnItsWay, IsNew
<1> QED BY <1>3, <1>4 DEF OrderInv

\* The reader handles a frame without showing it: not content, or a repeat.
LEMMA OrderSkip ==
  ASSUME TypeOK, OrderInv, wire # <<>>, Take, ~IsNew(Head(wire)),
         UNCHANGED <<said, kept, conn, seenMIDs, shown>>
  PROVE  OrderInv'
<1>1. /\ Elements(wire) = {Head(wire)} \cup Elements(wire')
      /\ Sorted(wire')
  BY SortedTail DEF Take, TypeOK, OrderInv, QueuesInOrder
<1>2. /\ Numbered' /\ KeptOnlyIfSo' /\ KeptWasSaid' /\ SeenIsShown' /\ ShownInOrder'
  BY DEF OrderInv, Numbered, KeptOnlyIfSo, KeptWasSaid, SeenIsShown, ShownInOrder,
              WasSaid, ShownSet, ContentIds, Elements
<1>3. QueuesInOrder'
  BY <1>1 DEF OrderInv, QueuesInOrder, Sorted
<1>4. WireWasSaid'
  BY <1>1 DEF OrderInv, WireWasSaid, WasSaid
<1>5. \A f : IsNew(f)' <=> IsNew(f)
  BY DEF IsNew
<1>6. Elements(kept') = Elements(kept)
  BY DEF Elements
<1>7. NewComesLater'
  BY <1>1, <1>5, <1>6 DEF OrderInv, NewComesLater
<1>8. NewIsOnItsWay'
  BY <1>1, <1>5, <1>6 DEF OrderInv, NewIsOnItsWay
<1> QED BY <1>2, <1>3, <1>4, <1>7, <1>8 DEF OrderInv

\* The reader shows a message: it is a message of the room, later than all
\* shown before, and nothing that is still to be shown is earlier.
LEMMA OrderShow ==
  ASSUME TypeOK, OrderInv, conn, wire # <<>>, IsNew(Head(wire)), Show(Head(wire))
  PROVE  /\ OrderInv'
         /\ Head(wire).id \in ContentIds
         /\ \A i \in ShownSet : i < Head(wire).id
         /\ shown' = Append(shown, Head(wire).id)
         /\ UNCHANGED said
<1> DEFINE h == Head(wire)
<1>1. /\ h \in Elements(wire)
      /\ Elements(wire) = {h} \cup Elements(wire')
      /\ Sorted(wire')
      /\ \A f \in Elements(wire') : h.id < f.id
  BY SortedTail DEF Show, Take, TypeOK, OrderInv, QueuesInOrder
<1>2. /\ seenMIDs' = seenMIDs \cup {h.id} /\ shown' = Append(shown, h.id)
      /\ UNCHANGED <<said, kept, conn>> /\ h.kind \in Content /\ h.id \notin seenMIDs
  BY DEF Show, server, IsNew
<1>3. WasSaid(h)
  BY <1>1, <1>2 DEF OrderInv, WireWasSaid, Content
<1>4. h.id \in ContentIds /\ h.id \in Nat
  BY <1>2, <1>3 DEF ContentIds, WasSaid, TypeOK
<1>5. \A i \in seenMIDs : i < h.id
  BY <1>1 DEF OrderInv, NewComesLater
<1> HIDE DEF h
<1>6. /\ Len(shown') = Len(shown) + 1 /\ Len(shown) \in Nat
      /\ \A k \in 1 .. Len(shown) : shown'[k] = shown[k]
      /\ shown'[Len(shown) + 1] = h.id
  BY <1>2, <1>4, AppendProperties DEF TypeOK
<1>7. SeenIsShown'
  <2>1. ShownSet' = ShownSet \cup {h.id}
    <3>1. \A k \in 1 .. Len(shown') : k \in 1 .. Len(shown) \/ k = Len(shown) + 1
      BY <1>6
    <3>2. ShownSet' \subseteq ShownSet \cup {h.id}
      BY <3>1, <1>6 DEF ShownSet
    <3>3. ShownSet \subseteq ShownSet' /\ h.id \in ShownSet'
      BY <1>6 DEF ShownSet
    <3> QED BY <3>2, <3>3
  <2>2. ContentIds' = ContentIds
    BY <1>2 DEF ContentIds
  <2> QED BY <2>1, <2>2, <1>2, <1>4 DEF OrderInv, SeenIsShown
<1>8. ShownInOrder'
  <2>1. \A k \in 1 .. Len(shown) : shown[k] < h.id
    BY <1>5 DEF OrderInv, SeenIsShown, ShownSet
  <2> SUFFICES ASSUME NEW a \in 1 .. Len(shown) + 1, NEW b \in 1 .. Len(shown) + 1, a < b
               PROVE  shown'[a] < shown'[b]
    BY <1>6 DEF ShownInOrder
  <2>2. CASE b = Len(shown) + 1
    BY <2>1, <2>2, <1>6
  <2>3. CASE b # Len(shown) + 1
    BY <2>3, <1>6 DEF OrderInv, ShownInOrder
  <2> QED BY <2>2, <2>3
<1>9. Numbered' /\ KeptOnlyIfSo' /\ KeptWasSaid'
  BY <1>2 DEF OrderInv, Numbered, KeptOnlyIfSo, KeptWasSaid, WasSaid, Elements
<1>10. QueuesInOrder' /\ WireWasSaid'
  BY <1>1, <1>2 DEF OrderInv, QueuesInOrder, WireWasSaid, WasSaid, Sorted
<1>11. \A f : IsNew(f)' => IsNew(f) /\ f.id # h.id
  BY <1>2 DEF IsNew
<1>12. NewIsOnItsWay'
  <2>1. Elements(kept') = Elements(kept) /\ conn' = conn
    BY <1>2 DEF Elements
  <2> QED BY <2>1, <1>1, <1>11 DEF OrderInv, NewIsOnItsWay
<1>13. NewComesLater'
  <2> SUFFICES ASSUME NEW f \in Elements(wire') \cup Elements(kept'), IsNew(f)',
                      NEW i \in seenMIDs'
               PROVE  i < f.id
    BY DEF NewComesLater
  <2>1. IsNew(f) /\ f.id # h.id /\ f \in Elements(wire) \cup Elements(kept)
    BY <1>1, <1>2, <1>11 DEF Elements
  <2>2. CASE i \in seenMIDs
    BY <2>1, <2>2 DEF OrderInv, NewComesLater
  <2>3. CASE i = h.id
    <3>1. f \in Elements(wire')
      <4>1. f \in Elements(kept') => f \in Elements(wire)
        BY <2>1, <1>2 DEF OrderInv, NewIsOnItsWay, Elements
      <4> QED BY <4>1, <2>1, <1>1
    <3> QED BY <3>1, <2>3, <1>1
  <2> QED BY <2>2, <2>3, <1>2
<1> QED BY <1>2, <1>4, <1>5, <1>7, <1>8, <1>9, <1>10, <1>12, <1>13 DEF OrderInv, SeenIsShown, h

\* What one step does: it keeps the order invariant, and either the room takes
\* at most one more frame and the reader is shown nothing, or the reader is
\* shown one message of the room that is later than everything shown before.
Hears(i) == /\ i \in ContentIds
            /\ \A j \in ShownSet : j < i
            /\ shown' = Append(shown, i)
            /\ UNCHANGED said

Takes == /\ UNCHANGED shown
         /\ UNCHANGED said \/ \E f \in Frame : f.id = Len(said) + 1 /\ said' = Append(said, f)

LEMMA OrderStep ==
  ASSUME TypeOK, OrderInv, [Next]_vars
  PROVE  OrderInv' /\ (Takes \/ \E i \in Nat : Hears(i))
<1> USE ConversationAssumption
<1>1. ASSUME NEW p \in People, NEW kind \in Kinds \ {"nuke", "cleared"},
             NEW target \in Targets(kind), NEW arg \in Args(kind),
             NEW sid \in Sids(p, kind), Post(p, kind, target, arg, sid)
      PROVE  OrderInv' /\ Takes
  <2> DEFINE f == [id |-> Len(said) + 1, kind |-> kind, by |-> VouchedName(p),
                   sid |-> sid, target |-> target, arg |-> arg]
  <2>1. f \in Frame
    <3>1. target \in Nat
      BY <1>1 DEF Targets, ContentIds, PollIds, TypeOK
    <3>2. arg \in Nat
      BY <1>1 DEF Args, Choices, TypeOK
    <3>3. Len(said) + 1 \in Nat
      BY DEF TypeOK
    <3> QED BY <1>1, <3>1, <3>2, <3>3 DEF Frame, VouchedName, Sids
  <2>2. /\ f.id = Len(said) + 1 /\ said' = Append(said, f) /\ Relay(f)
        /\ kept' = IF ServerKeeps /\ kind \in Kept THEN LastOf(Append(kept, f), KeepMax) ELSE kept
        /\ UNCHANGED <<conn, seenMIDs, shown>>
    BY <1>1 DEF Post
  <2> HIDE DEF f
  <2>3. OrderInv'
    BY <2>1, <2>2, OrderRoom
  <2> QED BY <2>1, <2>2, <2>3 DEF Takes
<1>2. ASSUME NEW kind \in Kinds \cap {"nuke", "cleared"}, ServerFrame(kind)
      PROVE  OrderInv' /\ Takes
  <2> DEFINE f == [id |-> Len(said) + 1, kind |-> kind, by |-> Nobody, sid |-> Me,
                   target |-> 0, arg |-> Len(said)]
  <2>1. f \in Frame
    BY <1>2 DEF Frame, TypeOK
  <2>2. /\ f.id = Len(said) + 1 /\ said' = Append(said, f) /\ Relay(f)
        /\ kept' = kept \/ kept' = <<>>
        /\ UNCHANGED <<conn, seenMIDs, shown>>
    BY <1>2 DEF ServerFrame
  <2> HIDE DEF f
  <2>3. OrderInv'
    BY <2>1, <2>2, OrderRoom
  <2> QED BY <2>1, <2>2, <2>3 DEF Takes
<1>3. CASE Connect
  BY <1>3, OrderConnect DEF Takes, Connect, server
<1>4. CASE Drop \/ ServerRestart
  <2>1. /\ conn' = FALSE /\ wire' = <<>> /\ (kept' = kept \/ kept' = <<>>)
        /\ UNCHANGED <<said, seenMIDs, shown>>
    BY <1>4 DEF Drop, ServerRestart, server
  <2> QED BY <2>1, OrderLost DEF Takes
<1>5. ASSUME NEW kinds, Incoming(kinds), Take, kinds \cap Content = {} \/ Repeated(Head(wire)),
             UNCHANGED <<said, kept, conn, seenMIDs, shown>>
      PROVE  OrderInv' /\ Takes
  <2>1. wire # <<>> /\ ~IsNew(Head(wire))
    BY <1>5 DEF Incoming, IsNew, Repeated
  <2> QED BY <1>5, <2>1, OrderSkip DEF Takes
<1>6. CASE ReceiveReplay
  BY <1>5, <1>6 DEF ReceiveReplay, server
<1>7. CASE ReceiveCleared
  BY <1>5, <1>7 DEF ReceiveCleared, server
<1>8. CASE ReceiveSealed
  BY <1>5, <1>8 DEF ReceiveSealed, server
<1>9. CASE ReceiveAside
  BY <1>5, <1>9 DEF ReceiveAside, server
<1>10. CASE ReceiveNuke
  BY <1>5, <1>10 DEF ReceiveNuke, server
<1>11. CASE ReceiveEdit
  BY <1>5, <1>11 DEF ReceiveEdit, server
<1>12. CASE ReceiveDelete
  BY <1>5, <1>12 DEF ReceiveDelete, server
<1>13. CASE ReceiveVote
  BY <1>5, <1>13 DEF ReceiveVote, server
<1>14. CASE ReceiveRepeat
  BY <1>5, <1>14 DEF ReceiveRepeat, server
<1>15. ASSUME NEW kinds \in SUBSET Content, Incoming(kinds), ~Repeated(Head(wire)), Show(Head(wire))
       PROVE  OrderInv' /\ \E i \in Nat : Hears(i)
  <2>1. conn /\ wire # <<>> /\ IsNew(Head(wire))
    BY <1>15 DEF Incoming, IsNew, Repeated
  <2>2. OrderInv' /\ Hears(Head(wire).id)
    BY <1>15, <2>1, OrderShow DEF Hears
  <2>3. Head(wire).id \in Nat
    BY <2>2 DEF Hears, ContentIds, TypeOK
  <2> QED BY <2>2, <2>3
<1>16. CASE ReceiveText
  BY <1>15, <1>16 DEF ReceiveText
<1>17. CASE ReceiveSpoiler
  BY <1>15, <1>17 DEF ReceiveSpoiler
<1>18. CASE ReceivePoll
  BY <1>15, <1>18 DEF ReceivePoll
<1>19. CASE ReceiveFile
  BY <1>15, <1>19 DEF ReceiveFile
<1>20. CASE TakeDownload \/ (\E i \in Listed : Get(i)) \/ UNCHANGED vars
  <2>1. UNCHANGED OrderVars
    BY <1>20 DEF TakeDownload, Get, vars, server, link, OrderVars
  <2> QED BY <2>1, OrderStutter DEF OrderVars, Takes
<1> QED
  BY <1>1, <1>2, <1>3, <1>4, <1>6, <1>7, <1>8, <1>9, <1>10, <1>11, <1>12, <1>13, <1>14,
     <1>16, <1>17, <1>18, <1>19, <1>20
  DEF Next, Room, Receive

LEMMA OrderInit == Init => OrderInv
<1> SUFFICES ASSUME Init PROVE OrderInv
  OBVIOUS
<1>1. Elements(wire) = {} /\ Elements(kept) = {} /\ Sorted(kept) /\ Sorted(wire)
  BY DEF Init, Elements, Sorted
<1>2. Numbered /\ KeptOnlyIfSo /\ ShownInOrder
  BY DEF Init, Numbered, KeptOnlyIfSo, ShownInOrder
<1>3. SeenIsShown
  BY DEF Init, SeenIsShown, ShownSet
<1> QED BY <1>1, <1>2, <1>3 DEF OrderInv, QueuesInOrder, KeptWasSaid, WireWasSaid,
                                NewComesLater, NewIsOnItsWay

\* Messages the reader has yet to see are always later than those it has seen.
THEOREM OrderInvariant == Spec => []OrderInv
<1>1. TypeOK /\ OrderInv /\ [Next]_vars => OrderInv'
  BY OrderStep
<1> QED BY <1>1, OrderInit, TypeCorrect, PTL DEF Spec

\* A message is printed at most once, and never after a later one.
THEOREM InOrderOnce == Spec => []ShownInOrder
<1>1. OrderInv => ShownInOrder
  BY DEF OrderInv
<1> QED BY <1>1, OrderInvariant, PTL

\* In every room, however it keeps and loses messages, the reader implements
\* Transcript: it is shown postings of the room, once each and in order.
THEOREM ImplementsTranscript == Spec => ShowsTranscript
<1>1. Init => Ordered!Init
  BY DEF Init, Ordered!Init, ContentIds
<1>2. TypeOK /\ OrderInv /\ [Next]_vars => [Ordered!Next]_(Ordered!vars)
  <2> SUFFICES ASSUME TypeOK, OrderInv, [Next]_vars
               PROVE  [Ordered!Next]_(Ordered!vars)
    OBVIOUS
  <2>1. CASE Takes
    <3>1. CASE UNCHANGED said
      BY <2>1, <3>1 DEF Takes, Ordered!vars, ContentIds
    <3>2. CASE \E f \in Frame : f.id = Len(said) + 1 /\ said' = Append(said, f)
      <4>1. PICK f \in Frame : said' = Append(said, f)
        BY <3>2
      <4>2. /\ Len(said') = Len(said) + 1 /\ Len(said) \in Nat
            /\ \A i \in 1 .. Len(said) : said'[i] = said[i]
        BY <4>1, AppendProperties DEF TypeOK
      <4>3. ContentIds \subseteq ContentIds'
        BY <4>2 DEF ContentIds
      <4>4. \A i \in ContentIds' \ ContentIds, j \in ContentIds : j < i
        BY <4>2 DEF ContentIds
      <4> QED BY <2>1, <4>3, <4>4 DEF Takes, Ordered!Next, Ordered!Say, Ordered!vars
    <3> QED BY <2>1, <3>1, <3>2 DEF Takes
  <2>2. CASE \E i \in Nat : Hears(i)
    <3>1. PICK i \in Nat : Hears(i)
      BY <2>2
    <3>2. ContentIds' = ContentIds
      BY <3>1 DEF Hears, ContentIds
    <3> QED BY <3>1, <3>2 DEF Hears, Ordered!Next, Ordered!Hear, Ordered!HeardSet, ShownSet
  <2> QED BY <2>1, <2>2, OrderStep
<1> QED BY <1>1, <1>2, TypeCorrect, OrderInvariant, PTL DEF Spec, ShowsTranscript, Ordered!Spec

-------------------------------------------------------------------------------
(* What was removed.                                                       *)

\* Everything remembered, listed or removed was shown before; the log has one
\* entry for a message, and what was removed is in it no longer.
GoneInv == /\ LogIds \subseteq seenMIDs /\ files \subseteq seenMIDs
           /\ deleted \subseteq seenMIDs /\ cleared \subseteq seenMIDs
           /\ \A d, e \in log : d.id = e.id => d = e
           /\ DeletedStaysDeleted /\ ClearedStayCleared

LEMMA GoneStep ==
  ASSUME TypeOK, GoneInv, [Next]_vars
  PROVE  GoneInv'
<1> USE DEF GoneInv, DeletedStaysDeleted, ClearedStayCleared
<1>1. ASSUME UNCHANGED <<seenMIDs, memory, files>>
      PROVE  GoneInv'
  BY <1>1 DEF LogIds, memory
<1>2. CASE ReceiveCleared
  <2>1. Head(wire) \in Frame
    BY <1>2, HeadTailProperties DEF ReceiveCleared, Incoming, TypeOK
  <2>2. /\ files' = {i \in files : i > Head(wire).arg}
        /\ cleared' = cleared \cup {i \in files : i <= Head(wire).arg}
        /\ UNCHANGED <<seenMIDs, log, deleted>>
    BY <1>2 DEF ReceiveCleared
  <2>3. \A i \in files : ~(i > Head(wire).arg /\ i <= Head(wire).arg)
    BY <2>1 DEF Frame, TypeOK
  <2> QED BY <2>2, <2>3 DEF LogIds
<1>3. CASE ReceiveNuke
  BY <1>3 DEF ReceiveNuke, LogIds
<1>4. CASE ReceiveEdit
  <2> DEFINE hit(e) == e.id = Head(wire).target /\ SameSender(e, Head(wire))
             new(e) == IF hit(e) THEN [e EXCEPT !.data = Head(wire).arg] ELSE e
  <2>1. /\ log' = {new(e) : e \in log}
        /\ UNCHANGED <<seenMIDs, files, deleted, cleared>>
    BY <1>4 DEF ReceiveEdit, listing
  <2>2. \A e \in log : new(e).id = e.id
    BY DEF TypeOK, Entry
  <2> HIDE DEF new
  <2>3. LogIds' = LogIds
    BY <2>1, <2>2 DEF LogIds
  <2>4. \A d, e \in log' : d.id = e.id => d = e
    BY <2>1, <2>2
  <2> QED BY <2>1, <2>3, <2>4
<1>5. CASE ReceiveDelete
  <2> DEFINE hit == {e \in log : e.id = Head(wire).target /\ SameSender(e, Head(wire))}
  <2>1. /\ log' = log \ hit /\ deleted' = deleted \cup {e.id : e \in hit}
        /\ UNCHANGED <<seenMIDs, files, cleared>>
    BY <1>5 DEF ReceiveDelete, listing
  <2>2. hit \subseteq log
    OBVIOUS
  <2> HIDE DEF hit
  <2> QED BY <2>1, <2>2 DEF LogIds
<1>6. ASSUME NEW kinds, Incoming(kinds), ~Repeated(Head(wire)), Show(Head(wire)),
             files' \subseteq files \cup {Head(wire).id}
      PROVE  GoneInv'
  <2>1. /\ seenMIDs' = seenMIDs \cup {Head(wire).id} /\ Head(wire).id \notin seenMIDs
        /\ UNCHANGED <<deleted, cleared>>
    BY <1>6 DEF Show, Repeated
  <2>2. log' \subseteq log \cup {[id |-> Head(wire).id, data |-> 0]}
    BY <1>6 DEF Show, Remember, NewestOf
  <2> QED BY <1>6, <2>1, <2>2 DEF LogIds
<1>7. CASE ReceiveText
  BY <1>6, <1>7 DEF ReceiveText, listing
<1>8. CASE ReceiveSpoiler
  BY <1>6, <1>8 DEF ReceiveSpoiler, listing
<1>9. CASE ReceivePoll
  BY <1>6, <1>9 DEF ReceivePoll, listing
<1>10. CASE ReceiveFile
  BY <1>6, <1>10 DEF ReceiveFile
<1>11. CASE Connect \/ Drop \/ ServerRestart
  BY <1>1, <1>11 DEF Connect, Drop, ServerRestart, listing
<1>14. CASE Room
  <2>1. ASSUME NEW p, NEW kind, NEW target, NEW arg, NEW sid, Post(p, kind, target, arg, sid)
        PROVE  GoneInv'
    BY <1>1, <2>1 DEF Post, listing
  <2>2. ASSUME NEW kind, ServerFrame(kind)
        PROVE  GoneInv'
    BY <1>1, <2>2 DEF ServerFrame, listing
  <2> QED BY <1>14, <2>1, <2>2 DEF Room
<1>12. CASE ReceiveReplay \/ ReceiveSealed \/ ReceiveAside \/ ReceiveVote \/ ReceiveRepeat
  BY <1>1, <1>12 DEF ReceiveReplay, ReceiveSealed, ReceiveAside, ReceiveVote, ReceiveRepeat,
                     listing
<1>13. CASE TakeDownload \/ (\E i \in Listed : Get(i)) \/ UNCHANGED vars
  BY <1>1, <1>13 DEF TakeDownload, Get, vars, listing
<1> QED
  BY <1>2, <1>3, <1>4, <1>5, <1>7, <1>8, <1>9, <1>10, <1>11, <1>12, <1>13, <1>14
  DEF Next, Receive

LEMMA GoneInvariance == Spec => []GoneInv
<1>1. Init => GoneInv
  BY DEF Init, GoneInv, LogIds, DeletedStaysDeleted, ClearedStayCleared
<1>2. TypeOK /\ GoneInv /\ [Next]_vars => GoneInv'
  BY GoneStep
<1> QED BY <1>1, <1>2, TypeCorrect, PTL DEF Spec

\* A message deleted from the log and a file taken off the list stay away,
\* whatever is replayed later: what was shown once is not shown again.
THEOREM GoneForGood == Spec => [](DeletedStaysDeleted /\ ClearedStayCleared)
<1>1. GoneInv => DeletedStaysDeleted /\ ClearedStayCleared
  BY DEF GoneInv
<1> QED BY <1>1, GoneInvariance, PTL

-------------------------------------------------------------------------------
(* The room's steps and the reader's, as the theorems below need them.     *)

\* The frame f is taken by the room.
Taken(f) ==
  /\ f.id = Len(said) + 1 /\ f.kind \in Kinds /\ f.kind # "replay"
  /\ f.kind = "edit" => f.arg = f.id
  /\ said' = Append(said, f) /\ Relay(f)
  /\ \/ kept' = <<>>
     \/ f.kind # "nuke" /\ kept' = kept
     \/ f.kind \in Kept /\ kept' = LastOf(Append(kept, f), KeepMax)
  /\ UNCHANGED <<conn, joinedAt, replayLeft, seenMIDs, memory, files>>

LEMMA RoomStep ==
  ASSUME TypeOK, Room
  PROVE  \E f \in Frame : Taken(f)
<1> USE ConversationAssumption
<1>1. ASSUME NEW p \in People, NEW kind \in Kinds \ {"nuke", "cleared"},
             NEW target \in Targets(kind), NEW arg \in Args(kind),
             NEW sid \in Sids(p, kind), Post(p, kind, target, arg, sid)
      PROVE  \E f \in Frame : Taken(f)
  <2> DEFINE f == [id |-> Len(said) + 1, kind |-> kind, by |-> VouchedName(p),
                   sid |-> sid, target |-> target, arg |-> arg]
  <2>1. f \in Frame
    <3>1. target \in Nat
      BY <1>1 DEF Targets, ContentIds, PollIds, TypeOK
    <3>2. arg \in Nat
      BY <1>1 DEF Args, Choices, TypeOK
    <3>3. Len(said) + 1 \in Nat
      BY DEF TypeOK
    <3> QED BY <1>1, <3>1, <3>2, <3>3 DEF Frame, VouchedName, Sids
  <2>2. f.id = Len(said) + 1 /\ f.kind = kind /\ f.arg = arg
    OBVIOUS
  <2>3. /\ said' = Append(said, f) /\ Relay(f)
        /\ kept' = IF ServerKeeps /\ kind \in Kept THEN LastOf(Append(kept, f), KeepMax) ELSE kept
        /\ UNCHANGED <<conn, joinedAt, replayLeft, seenMIDs, memory, files>>
    BY <1>1 DEF Post, listing
  <2>4. kind = "edit" => arg = Len(said) + 1
    BY <1>1 DEF Args
  <2>5. kind \in Kinds /\ kind # "replay" /\ kind # "nuke"
    BY <1>1
  <2> HIDE DEF f
  <2> QED BY <2>1, <2>2, <2>3, <2>4, <2>5 DEF Taken
<1>2. ASSUME NEW kind \in Kinds \cap {"nuke", "cleared"}, ServerFrame(kind)
      PROVE  \E f \in Frame : Taken(f)
  <2> DEFINE f == [id |-> Len(said) + 1, kind |-> kind, by |-> Nobody, sid |-> Me,
                   target |-> 0, arg |-> Len(said)]
  <2>1. f \in Frame
    BY <1>2 DEF Frame, TypeOK
  <2>2. f.id = Len(said) + 1 /\ f.kind = kind
    OBVIOUS
  <2>3. /\ said' = Append(said, f) /\ Relay(f)
        /\ kept' = IF kind = "nuke" THEN <<>> ELSE kept
        /\ UNCHANGED <<conn, joinedAt, replayLeft, seenMIDs, memory, files>>
    BY <1>2 DEF ServerFrame, listing
  <2> HIDE DEF f
  <2> QED BY <1>2, <2>1, <2>2, <2>3 DEF Taken
<1> QED BY <1>1, <1>2 DEF Room

\* What the room, the wire and what is kept have then.
LEMMA AfterTaken ==
  ASSUME TypeOK, OrderInv, NEW f \in Frame, Taken(f)
  PROVE  /\ Len(said) \in Nat /\ Len(said') = Len(said) + 1 /\ said'[Len(said) + 1] = f
         /\ \A i \in 1 .. Len(said) : said'[i] = said[i]
         /\ wire' = IF conn THEN Append(wire, f) ELSE wire
         /\ Elements(wire') \subseteq Elements(wire) \cup {f}
         /\ Elements(kept') \subseteq Elements(kept) \cup {f}
         /\ \A g \in Elements(kept) : g \in Frame /\ g.id < f.id
         /\ f \in Elements(kept') => f.kind \in Kept
         /\ f.kind = "nuke" => Elements(kept') = {}
<1>1. /\ Len(said') = Len(said) + 1 /\ Len(said) \in Nat
      /\ \A i \in 1 .. Len(said) : said'[i] = said[i]
      /\ said'[Len(said) + 1] = f
  BY AppendProperties DEF TypeOK, Taken
<1>2. \A g \in Elements(kept) \cup Elements(wire) : g \in Frame /\ g.id < f.id
  <2>1. \A g \in Elements(kept) \cup Elements(wire) : g \in Frame
    BY DEF Elements, TypeOK
  <2>2. 0 < f.id /\ f.id = Len(said) + 1
    BY <1>1 DEF Taken
  <2> QED BY <2>1, <2>2, <1>1 DEF OrderInv, KeptWasSaid, WireWasSaid, WasSaid
<1>3. /\ wire' = IF conn THEN Append(wire, f) ELSE wire
      /\ Elements(wire') \subseteq Elements(wire) \cup {f}
  BY <1>2, SortedAppend DEF Taken, Relay, TypeOK, OrderInv, QueuesInOrder
<1>4. CASE kept' = <<>>
  <2>1. Elements(kept') = {}
    BY <1>4 DEF Elements
  <2> QED BY <2>1, <1>1, <1>2, <1>3
<1>5. CASE f.kind # "nuke" /\ kept' = kept
  <2>1. Elements(kept') = Elements(kept) /\ f \notin Elements(kept)
    BY <1>2, <1>5 DEF Elements, Frame
  <2> QED BY <2>1, <1>1, <1>2, <1>3, <1>5
<1>6. CASE f.kind \in Kept /\ kept' = LastOf(Append(kept, f), KeepMax)
  <2>1. /\ Append(kept, f) \in Seq(Frame) /\ Sorted(Append(kept, f))
        /\ Elements(Append(kept, f)) = Elements(kept) \cup {f}
    BY <1>2, SortedAppend DEF TypeOK, OrderInv, QueuesInOrder
  <2>2. KeepMax \in Nat
    BY ConversationAssumption
  <2>3. Elements(kept') \subseteq Elements(kept) \cup {f}
    BY <1>6, <2>1, <2>2, SortedLastOf
  <2>4. f.kind # "nuke"
    BY <1>6
  <2> QED BY <2>3, <2>4, <1>1, <1>2, <1>3, <1>6
<1> QED BY <1>4, <1>5, <1>6 DEF Taken

\* The reader takes the first frame off the wire.
LEMMA AfterTake ==
  ASSUME TypeOK, OrderInv, NEW kinds, Incoming(kinds), Take
  PROVE  /\ Head(wire) \in Frame /\ Head(wire) \in Elements(wire) /\ Head(wire).kind \in kinds
         /\ Elements(wire') \subseteq Elements(wire)
         /\ \A f \in Elements(wire') : Head(wire).id < f.id
         /\ Head(wire).kind # "replay" => WasSaid(Head(wire))
<1>1. wire # <<>> /\ wire \in Seq(Frame) /\ wire' = Tail(wire)
  BY DEF Incoming, Take, TypeOK
<1>2. /\ Head(wire) \in Elements(wire)
      /\ Elements(wire) = {Head(wire)} \cup Elements(wire')
      /\ \A f \in Elements(wire') : Head(wire).id < f.id
  BY <1>1, SortedTail DEF OrderInv, QueuesInOrder
<1>3. Head(wire) \in Frame
  BY <1>1, HeadTailProperties
<1> QED BY <1>2, <1>3 DEF Incoming, OrderInv, WireWasSaid

\* A new subscription: nothing on the wire but the header and what is kept.
LEMMA AfterConnect ==
  ASSUME TypeOK, OrderInv, Connect
  PROVE  \A f \in Elements(wire') : f.kind = "replay" \/ f \in Elements(kept)
<1> DEFINE h == [id |-> 0, kind |-> "replay", by |-> Nobody, sid |-> Me, target |-> 0,
                 arg |-> Len(kept)]
<1>1. h \in Frame /\ h.id = 0 /\ h.kind = "replay"
  BY ConversationAssumption DEF Frame, TypeOK
<1>2. \A f \in Elements(kept) : f.id > 0
  BY DEF OrderInv, KeptWasSaid, WasSaid, TypeOK
<1>3. CASE ServerKeeps
  <2>1. wire' = <<h>> \o kept
    BY <1>3 DEF Connect
  <2> HIDE DEF h
  <2> QED BY <2>1, <1>1, <1>2, SortedReplay DEF TypeOK, OrderInv, QueuesInOrder
<1>4. CASE ~ServerKeeps
  BY <1>4 DEF Connect, Elements
<1> QED BY <1>3, <1>4

-------------------------------------------------------------------------------
(* What a wipe leaves.                                                     *)

IsWipe(w) == w \in 1 .. Len(said) /\ said[w].kind = "nuke"

\* What the server keeps is later than every wipe, and what the reader will
\* still hear is later than the last one it heard of.
KeptAfterWipes == \A f \in Elements(kept), w \in 1 .. Len(said) : IsWipe(w) => w < f.id
HeardInTime    == \A f \in Elements(wire) : f.kind \in Content => wipedAt < f.id
WipeInv == /\ wipedAt = 0 \/ IsWipe(wipedAt)
           /\ KeptAfterWipes /\ HeardInTime /\ WipedIsGone

LEMMA WipeStep ==
  ASSUME TypeOK, OrderInv, WipeInv, [Next]_vars
  PROVE  WipeInv'
<1>1. CASE Room
  <2>1. PICK f \in Frame : Taken(f)
    BY <1>1, RoomStep
  <2>2. /\ Len(said) \in Nat /\ Len(said') = Len(said) + 1 /\ said'[Len(said) + 1] = f
        /\ \A i \in 1 .. Len(said) : said'[i] = said[i]
        /\ Elements(wire') \subseteq Elements(wire) \cup {f}
        /\ Elements(kept') \subseteq Elements(kept) \cup {f}
        /\ f \in Elements(kept') => f.kind \in Kept
        /\ f.kind = "nuke" => Elements(kept') = {}
    BY <2>1, AfterTaken
  <2>3. f.id = Len(said) + 1 /\ UNCHANGED <<wipedAt, log, files>>
    BY <2>1 DEF Taken, memory
  <2>4. \A w : IsWipe(w)' <=> IsWipe(w) \/ (w = f.id /\ f.kind = "nuke")
    BY <2>2, <2>3 DEF IsWipe
  <2>5. wipedAt < f.id /\ (wipedAt' = 0 \/ IsWipe(wipedAt)')
    BY <2>2, <2>3, <2>4 DEF WipeInv, IsWipe
  <2>6. KeptAfterWipes'
    <3> SUFFICES ASSUME NEW g \in Elements(kept'), NEW w \in 1 .. Len(said'), IsWipe(w)'
                 PROVE  w < g.id
      BY DEF KeptAfterWipes
    <3>1. f.kind # "nuke" /\ IsWipe(w)
      BY <2>2, <2>4
    <3>2. w \in 1 .. Len(said)
      BY <3>1 DEF IsWipe
    <3>3. CASE g \in Elements(kept)
      BY <3>1, <3>2, <3>3 DEF WipeInv, KeptAfterWipes
    <3>4. CASE g = f
      BY <3>2, <3>4, <2>2, <2>3
    <3> QED BY <3>3, <3>4, <2>2
  <2>7. HeardInTime'
    BY <2>2, <2>3, <2>5 DEF WipeInv, HeardInTime
  <2> QED BY <2>3, <2>5, <2>6, <2>7 DEF WipeInv, WipedIsGone, LogIds
<1>2. CASE Connect
  <2>1. UNCHANGED <<said, kept, wipedAt, log, files>>
    BY <1>2 DEF Connect, server, memory, listing
  <2>2. \A f \in Elements(kept) : wipedAt < f.id
    <3>1. \A f \in Elements(kept) : 0 < f.id
      BY DEF OrderInv, KeptWasSaid, WasSaid, TypeOK
    <3> QED BY <3>1 DEF WipeInv, KeptAfterWipes, IsWipe
  <2>3. HeardInTime'
    BY <1>2, <2>1, <2>2, AfterConnect DEF HeardInTime
  <2> QED BY <2>1, <2>3 DEF WipeInv, IsWipe, KeptAfterWipes, WipedIsGone, LogIds, Elements
<1>3. CASE Drop \/ ServerRestart
  <2>1. /\ UNCHANGED <<said, wipedAt, log, files>> /\ (kept' = kept \/ kept' = <<>>)
        /\ wire' = <<>>
    BY <1>3 DEF Drop, ServerRestart, server, memory, listing
  <2>2. Elements(kept') \subseteq Elements(kept) /\ Elements(wire') = {}
    BY <2>1 DEF Elements
  <2> QED BY <2>1, <2>2 DEF WipeInv, IsWipe, KeptAfterWipes, HeardInTime, WipedIsGone, LogIds
<1>4. ASSUME Elements(wire') \subseteq Elements(wire), UNCHANGED <<said, kept, wipedAt>>,
             \A i \in (LogIds \cup files)' : i \in LogIds \cup files \/ wipedAt < i
      PROVE  WipeInv'
  BY <1>4 DEF WipeInv, IsWipe, KeptAfterWipes, HeardInTime, WipedIsGone, Elements
<1>5. ASSUME NEW kinds, Incoming(kinds), Take, UNCHANGED <<said, kept, wipedAt>>,
             LogIds' \subseteq LogIds, files' \subseteq files
      PROVE  WipeInv'
  BY <1>4, <1>5, AfterTake
<1>6. CASE ReceiveNuke
  <2> DEFINE h == Head(wire)
  <2>1. /\ h \in Frame /\ h.kind = "nuke" /\ \A f \in Elements(wire') : h.id < f.id
        /\ WasSaid(h)
    BY <1>6, AfterTake DEF ReceiveNuke
  <2>2. wipedAt' = h.id /\ log' = {} /\ files' = {} /\ UNCHANGED <<said, kept>>
    BY <1>6 DEF ReceiveNuke, server
  <2>3. IsWipe(h.id)
    BY <2>1 DEF WasSaid, IsWipe
  <2> HIDE DEF h
  <2> QED BY <2>1, <2>2, <2>3 DEF WipeInv, IsWipe, KeptAfterWipes, HeardInTime, WipedIsGone,
                                  LogIds, Elements
<1>7. ASSUME NEW kinds \in SUBSET Content, Incoming(kinds), Show(Head(wire)),
             files' \subseteq files \cup {Head(wire).id}
      PROVE  WipeInv'
  <2>1. Take /\ UNCHANGED <<said, kept, wipedAt>>
    BY <1>7 DEF Show, server
  <2>2. Elements(wire') \subseteq Elements(wire) /\ wipedAt < Head(wire).id
    BY <1>7, <2>1, AfterTake DEF WipeInv, HeardInTime
  <2>3. LogIds' \subseteq LogIds \cup {Head(wire).id}
    <3>1. log' \subseteq log \cup {[id |-> Head(wire).id, data |-> 0]}
      BY <1>7 DEF Show, Remember, NewestOf
    <3> QED BY <3>1 DEF LogIds
  <2> QED BY <1>4, <1>7, <2>1, <2>2, <2>3
<1>8. CASE ReceiveText
  BY <1>7, <1>8 DEF ReceiveText, listing
<1>9. CASE ReceiveSpoiler
  BY <1>7, <1>9 DEF ReceiveSpoiler, listing
<1>10. CASE ReceivePoll
  BY <1>7, <1>10 DEF ReceivePoll, listing
<1>11. CASE ReceiveFile
  BY <1>7, <1>11 DEF ReceiveFile
<1>12. CASE ReceiveReplay \/ ReceiveSealed \/ ReceiveAside \/ ReceiveVote \/ ReceiveRepeat
  BY <1>5, <1>12 DEF ReceiveReplay, ReceiveSealed, ReceiveAside, ReceiveVote, ReceiveRepeat,
                     listing, memory, server, LogIds
<1>13. CASE ReceiveCleared
  BY <1>5, <1>13 DEF ReceiveCleared, server, LogIds
<1>14. CASE ReceiveEdit
  <2> DEFINE hit(e) == e.id = Head(wire).target /\ SameSender(e, Head(wire))
             new(e) == IF hit(e) THEN [e EXCEPT !.data = Head(wire).arg] ELSE e
  <2>1. log' = {new(e) : e \in log}
    BY <1>14 DEF ReceiveEdit
  <2>2. \A e \in log : new(e).id = e.id
    BY DEF TypeOK, Entry
  <2> HIDE DEF new
  <2>3. LogIds' \subseteq LogIds
    BY <2>1, <2>2 DEF LogIds
  <2> QED BY <1>5, <1>14, <2>3 DEF ReceiveEdit, listing, server
<1>15. CASE ReceiveDelete
  <2>1. log' \subseteq log
    BY <1>15 DEF ReceiveDelete
  <2> QED BY <1>5, <1>15, <2>1 DEF ReceiveDelete, listing, server, LogIds
<1>16. CASE TakeDownload \/ (\E i \in Listed : Get(i)) \/ UNCHANGED vars
  BY <1>4, <1>16 DEF TakeDownload, Get, vars, listing, memory, server, link, LogIds, Elements
<1> QED
  BY <1>1, <1>2, <1>3, <1>6, <1>8, <1>9, <1>10, <1>11, <1>12, <1>13, <1>14, <1>15, <1>16
  DEF Next, Receive

\* Once a passed /nuke was heard of, nothing said before it is remembered or
\* listed, whatever the server replays afterwards (App.receive).
THEOREM WipedForGood == Spec => []WipedIsGone
<1>1. Init => WipeInv
  BY DEF Init, WipeInv, KeptAfterWipes, HeardInTime, WipedIsGone, LogIds, Elements
<1>2. TypeOK /\ OrderInv /\ WipeInv /\ [Next]_vars => WipeInv'
  BY WipeStep
<1>3. WipeInv => WipedIsGone
  BY DEF WipeInv
<1> QED BY <1>1, <1>2, <1>3, TypeCorrect, OrderInvariant, PTL DEF Spec

-------------------------------------------------------------------------------
(* Who changes what.                                                       *)

\* An edit is known by its own number, and all the log tells of was said.
AuthorInv == /\ \A j \in 1 .. Len(said) : said[j].kind = "edit" => said[j].arg = j
             /\ LogIds \cup deleted \subseteq 1 .. Len(said)
             /\ \A e \in log : e.data # 0 => e.data \in 1 .. Len(said)
             /\ OnlyAuthorsChange

LEMMA AuthorStep ==
  ASSUME TypeOK, OrderInv, GoneInv', AuthorInv, [Next]_vars
  PROVE  AuthorInv'
<1>1. CASE Room
  <2>1. PICK f \in Frame : Taken(f)
    BY <1>1, RoomStep
  <2>2. /\ Len(said) \in Nat /\ Len(said') = Len(said) + 1 /\ said'[Len(said) + 1] = f
        /\ \A i \in 1 .. Len(said) : said'[i] = said[i]
    BY <2>1, AfterTaken
  <2>3. f.id = Len(said) + 1 /\ (f.kind = "edit" => f.arg = f.id) /\ UNCHANGED <<log, deleted>>
    BY <2>1 DEF Taken, memory
  <2>4. \A j \in 1 .. Len(said') : said'[j].kind = "edit" => said'[j].arg = j
    BY <2>2, <2>3 DEF AuthorInv
  <2>5. /\ (LogIds \cup deleted)' \subseteq 1 .. Len(said')
        /\ \A e \in log' : e.data # 0 => e.data \in 1 .. Len(said')
    BY <2>2, <2>3 DEF AuthorInv, LogIds
  <2>6. \A e \in log : e.id \in 1 .. Len(said)
    BY DEF AuthorInv, LogIds
  <2>7. OnlyAuthorsChange'
    <3>1. ASSUME NEW e \in log', e.data # 0, said'[e.id].by # Nobody
          PROVE  said'[e.data].by = said'[e.id].by /\ said'[e.data].target = e.id
      <4>1. e \in log /\ said'[e.id] = said[e.id] /\ said'[e.data] = said[e.data]
        BY <2>2, <2>3, <2>6, <3>1 DEF AuthorInv
      <4> QED BY <3>1, <4>1 DEF AuthorInv, OnlyAuthorsChange
    <3>2. ASSUME NEW i \in deleted', said'[i].by # Nobody
          PROVE  \E j \in 1 .. Len(said') : /\ said'[j].kind = "delete"
                                            /\ said'[j].target = i /\ said'[j].by = said'[i].by
      <4>1. i \in deleted /\ said'[i] = said[i]
        BY <2>2, <2>3, <3>2 DEF AuthorInv
      <4>2. PICK j \in 1 .. Len(said) : /\ said[j].kind = "delete"
                                        /\ said[j].target = i /\ said[j].by = said[i].by
        BY <3>2, <4>1 DEF AuthorInv, OnlyAuthorsChange
      <4>3. j \in 1 .. Len(said') /\ said'[j] = said[j]
        BY <2>2
      <4> QED BY <4>1, <4>2, <4>3
    <3> QED BY <3>1, <3>2 DEF OnlyAuthorsChange
  <2> QED BY <2>4, <2>5, <2>7 DEF AuthorInv
<1>2. ASSUME UNCHANGED said, \A e \in log' : e \in log \/ e.data = 0, UNCHANGED deleted
      PROVE  AuthorInv'
  <2>1. OrderInv' /\ GoneInv'
    BY OrderStep
  <2>2. (LogIds \cup deleted)' \subseteq 1 .. Len(said')
    BY <2>1 DEF GoneInv, OrderInv, SeenIsShown, ContentIds
  <2> QED BY <1>2, <2>2 DEF AuthorInv, OnlyAuthorsChange
<1>3. CASE ReceiveEdit
  <2> DEFINE h == Head(wire)
             hit(e) == e.id = h.target /\ SameSender(e, h)
             new(e) == IF hit(e) THEN [e EXCEPT !.data = h.arg] ELSE e
  <2>1. h.kind = "edit" /\ WasSaid(h)
    BY <1>3, AfterTake DEF ReceiveEdit
  <2>2. h.id \in 1 .. Len(said) /\ said[h.id] = h /\ h.arg = h.id
    BY <2>1 DEF WasSaid, AuthorInv
  <2>3. log' = {new(e) : e \in log} /\ UNCHANGED <<said, deleted>>
    BY <1>3 DEF ReceiveEdit, server
  <2>4. \A e \in log : new(e).id = e.id /\ (hit(e) => new(e).data = h.arg)
    BY DEF TypeOK, Entry
  <2>5. OrderInv' /\ GoneInv'
    BY OrderStep
  <2>6. (LogIds \cup deleted)' \subseteq 1 .. Len(said')
    BY <2>5 DEF GoneInv, OrderInv, SeenIsShown, ContentIds
  <2>7. ASSUME NEW e \in log', e.data # 0
        PROVE  /\ e.data \in 1 .. Len(said)
               /\ said[e.id].by # Nobody => said[e.data].by = said[e.id].by /\ said[e.data].target = e.id
    <3>1. PICK d \in log : e = new(d)
      BY <2>3
    <3>2. CASE hit(d)
      <4>1. e.id = d.id /\ e.data = h.id
        BY <2>2, <2>4, <3>1, <3>2
      <4>2. d.id = h.target /\ (said[d.id].by # Nobody => said[d.id].by = h.by)
        BY <3>2 DEF SameSender
      <4> HIDE DEF h
      <4> QED BY <2>2, <4>1, <4>2
    <3>3. CASE ~hit(d)
      <4>1. e \in log
        BY <3>1, <3>3
      <4> QED BY <2>7, <4>1 DEF AuthorInv, OnlyAuthorsChange
    <3> QED BY <3>2, <3>3
  <2> HIDE DEF h, new
  <2> QED BY <2>3, <2>6, <2>7 DEF AuthorInv, OnlyAuthorsChange
<1>4. CASE ReceiveDelete
  <2> DEFINE h == Head(wire)
             hit == {e \in log : e.id = h.target /\ SameSender(e, h)}
  <2>1. h.kind = "delete" /\ WasSaid(h)
    BY <1>4, AfterTake DEF ReceiveDelete
  <2>2. h.id \in 1 .. Len(said) /\ said[h.id] = h
    BY <2>1 DEF WasSaid
  <2>3. log' = log \ hit /\ deleted' = deleted \cup {e.id : e \in hit} /\ UNCHANGED said
    BY <1>4 DEF ReceiveDelete, server
  <2>4. OrderInv' /\ GoneInv'
    BY OrderStep
  <2>5. (LogIds \cup deleted)' \subseteq 1 .. Len(said')
    BY <2>4 DEF GoneInv, OrderInv, SeenIsShown, ContentIds
  <2>6. ASSUME NEW i \in deleted', said[i].by # Nobody
        PROVE  \E j \in 1 .. Len(said) : /\ said[j].kind = "delete"
                                         /\ said[j].target = i /\ said[j].by = said[i].by
    <3>1. CASE i \in deleted
      BY <2>6, <3>1 DEF AuthorInv, OnlyAuthorsChange
    <3>2. CASE i \notin deleted
      <4>1. PICK e \in hit : i = e.id
        BY <2>3, <3>2
      <4>2. i = h.target /\ said[i].by = h.by
        BY <2>6, <4>1 DEF SameSender
      <4> QED BY <2>1, <2>2, <4>2
    <3> QED BY <3>1, <3>2
  <2>7. log' \subseteq log
    BY <2>3
  <2> HIDE DEF h, hit
  <2> QED BY <2>3, <2>5, <2>6, <2>7 DEF AuthorInv, OnlyAuthorsChange
<1>5. ASSUME Show(Head(wire))
      PROVE  AuthorInv'
  <2>1. log' \subseteq log \cup {[id |-> Head(wire).id, data |-> 0]}
    BY <1>5 DEF Show, Remember, NewestOf
  <2>2. UNCHANGED <<said, deleted>>
    BY <1>5 DEF Show, server
  <2> QED BY <1>2, <2>1, <2>2
<1>6. CASE ReceiveText \/ ReceiveSpoiler \/ ReceivePoll \/ ReceiveFile
  BY <1>5, <1>6 DEF ReceiveText, ReceiveSpoiler, ReceivePoll, ReceiveFile
<1>7. CASE ReceiveReplay \/ ReceiveSealed \/ ReceiveAside \/ ReceiveVote \/ ReceiveRepeat
  BY <1>2, <1>7 DEF ReceiveReplay, ReceiveSealed, ReceiveAside, ReceiveVote, ReceiveRepeat,
                     memory, server
<1>8. CASE ReceiveNuke \/ ReceiveCleared
  BY <1>2, <1>8 DEF ReceiveNuke, ReceiveCleared, server
<1>9. CASE Connect \/ Drop \/ ServerRestart
  BY <1>2, <1>9 DEF Connect, Drop, ServerRestart, server, memory
<1>10. CASE TakeDownload \/ (\E i \in Listed : Get(i)) \/ UNCHANGED vars
  BY <1>2, <1>10 DEF TakeDownload, Get, vars, memory, server
<1> QED
  BY <1>1, <1>3, <1>4, <1>6, <1>7, <1>8, <1>9, <1>10 DEF Next, Receive

LEMMA AuthorInvariance == Spec => []AuthorInv
<1>1. Init => AuthorInv
  BY DEF Init, AuthorInv, OnlyAuthorsChange, LogIds
<1>2. TypeOK /\ OrderInv /\ GoneInv' /\ AuthorInv /\ [Next]_vars => AuthorInv'
  BY AuthorStep
<1> QED BY <1>1, <1>2, TypeCorrect, OrderInvariant, GoneInvariance, PTL DEF Spec

\* Whatever session ids edits and deletes carry, what somebody said under a name
\* the server vouches for was changed or deleted under that name (App.editLog).
THEOREM AuthorsOnly == Spec => []OnlyAuthorsChange
<1>1. AuthorInv => OnlyAuthorsChange
  BY DEF AuthorInv
<1> QED BY <1>1, AuthorInvariance, PTL

-------------------------------------------------------------------------------
(* The countdown.                                                          *)

\* What replayLeft is, or will be when the header has been read, counts the
\* header included; what is on the wire from before the subscription was kept.
Expected == IF wire # <<>> /\ Head(wire).kind = "replay" THEN Head(wire).arg + 1 ELSE replayLeft
Exact    == /\ Expected <= Len(wire)
            /\ \A k \in 1 .. Len(wire) : wire[k].id <= joinedAt <=> k <= Expected
EarlierWasKept == \A f \in Elements(wire) : f.id <= joinedAt => f.kind \in Kept \cup {"replay"}
HeaderMeansKept == /\ \A f \in Elements(wire) : f.kind = "replay" => ServerKeeps
                   /\ ~ServerKeeps => replayLeft = 0
Open     == \A i \in 1 .. Len(said) : said[i].kind \notin {"sealed", "replay"}
ExactInv == /\ conn => Exact /\ EarlierWasKept
            /\ joinedAt <= Len(said) /\ HeaderMeansKept /\ Open
            /\ \A f \in Elements(kept) : f.kind \in Kept

\* How replayLeft goes on when the frame h was read.
Counts(h) == IF h.kind = "replay" THEN replayLeft' = h.arg
             ELSE CountDown \/ (h.kind \notin Kept /\ UNCHANGED replayLeft)

LEMMA CountOne ==
  ASSUME TypeOK, OrderInv, ExactInv, NEW kinds, Incoming(kinds), Take, Counts(Head(wire)),
         UNCHANGED <<said, kept, conn, joinedAt>>
  PROVE  ExactInv'
<1> DEFINE h == Head(wire)
<1>1. /\ wire' \in Seq(Frame) /\ Len(wire) \in Nat /\ Len(wire) # 0 /\ Len(wire') = Len(wire) - 1
      /\ \A k \in 1 .. Len(wire') : wire'[k] = wire[k + 1]
      /\ wire # <<>> /\ h = wire[1]
  BY HeadTailProperties, EmptySeq DEF Incoming, Take, TypeOK
<1>2. /\ h \in Frame /\ h \in Elements(wire) /\ Elements(wire') \subseteq Elements(wire)
      /\ \A f \in Elements(wire') : h.id < f.id
  BY AfterTake
<1>3. conn /\ joinedAt \in Nat /\ replayLeft \in Nat /\ h.id \in Nat /\ h.arg \in Nat
  BY <1>2 DEF Incoming, TypeOK, Frame
<1>4. wire' # <<>> => Head(wire').kind # "replay"
  <2> SUFFICES ASSUME wire' # <<>> PROVE Head(wire').kind # "replay"
    OBVIOUS
  <2>1. Head(wire') = wire'[1] /\ 1 \in 1 .. Len(wire')
    BY <1>1, EmptySeq
  <2>2. Head(wire') \in Elements(wire')
    BY <2>1 DEF Elements
  <2>3. Head(wire') \in Elements(wire) /\ Head(wire').id > 0
    <3>1. wire'[1] \in Frame
      BY <1>1, <2>1
    <3>2. h.id < Head(wire').id
      BY <1>2, <2>2
    <3>3. Head(wire').id \in Nat
      BY <2>1, <3>1 DEF Frame
    <3> QED BY <1>2, <1>3, <2>2, <3>2, <3>3
  <2>4. WasSaid(Head(wire'))
    BY <2>3 DEF OrderInv, WireWasSaid
  <2> QED BY <2>4 DEF WasSaid, ExactInv, Open
<1>5. Expected' = replayLeft'
  BY <1>4 DEF Expected
<1>6. Expected = replayLeft' + 1 \/ (Expected = 0 /\ replayLeft' = 0)
  <2>1. CASE h.kind = "replay"
    BY <1>1, <1>3, <2>1 DEF Expected, Counts
  <2>2. CASE h.kind # "replay"
    <3>1. Expected = replayLeft
      BY <2>2 DEF Expected
    <3>2. CASE CountDown
      BY <1>3, <3>1, <3>2 DEF CountDown, Replayed
    <3>3. CASE h.kind \notin Kept /\ UNCHANGED replayLeft
      <4>1. ~(h.id <= joinedAt)
        BY <1>2, <1>3, <2>2, <3>3 DEF ExactInv, EarlierWasKept
      <4>2. ~(1 <= Expected)
        BY <1>1, <1>3, <4>1 DEF ExactInv, Exact
      <4> QED BY <1>3, <3>1, <3>3, <4>2
    <3> QED BY <2>2, <3>2, <3>3 DEF Counts
  <2> QED BY <2>1, <2>2
<1>7. replayLeft' \in Nat
  BY <1>3 DEF Counts, CountDown, Replayed
<1>8. Exact'
  <2>1. Exact
    BY <1>3 DEF ExactInv
  <2>2. replayLeft' <= Len(wire')
    BY <1>1, <1>6, <1>7, <2>1 DEF Exact
  <2>3. ASSUME NEW k \in 1 .. Len(wire')
        PROVE  wire'[k].id <= joinedAt' <=> k <= replayLeft'
    <3>1. k + 1 \in 1 .. Len(wire) /\ wire'[k] = wire[k + 1]
      BY <1>1
    <3>2. wire[k + 1].id <= joinedAt <=> k + 1 <= Expected
      BY <2>1, <3>1 DEF Exact
    <3> QED BY <1>6, <1>7, <3>1, <3>2
  <2> QED BY <1>5, <2>2, <2>3 DEF Exact
<1>9. EarlierWasKept' /\ Open' /\ \A f \in Elements(kept') : f.kind \in Kept
  BY <1>2, <1>3 DEF ExactInv, EarlierWasKept, Open, Elements
<1>10. HeaderMeansKept'
  <2>1. CASE h.kind = "replay"
    BY <1>2, <2>1 DEF ExactInv, HeaderMeansKept
  <2>2. CASE h.kind # "replay"
    BY <1>2, <1>3, <2>2 DEF ExactInv, HeaderMeansKept, Counts, CountDown, Replayed
  <2> QED BY <2>1, <2>2
<1> QED BY <1>8, <1>9, <1>10 DEF ExactInv

LEMMA ExactStep ==
  ASSUME TypeOK, OrderInv, ExactInv, [Next]_vars, "sealed" \notin Kinds
  PROVE  ExactInv'
<1>1. CASE Room
  <2>1. PICK f \in Frame : Taken(f)
    BY <1>1, RoomStep
  <2>2. /\ Len(said) \in Nat /\ Len(said') = Len(said) + 1 /\ said'[Len(said) + 1] = f
        /\ \A i \in 1 .. Len(said) : said'[i] = said[i]
        /\ wire' = IF conn THEN Append(wire, f) ELSE wire
        /\ Elements(wire') \subseteq Elements(wire) \cup {f}
        /\ Elements(kept') \subseteq Elements(kept) \cup {f}
        /\ f \in Elements(kept') => f.kind \in Kept
    BY <2>1, AfterTaken
  <2>3. /\ f.id = Len(said) + 1 /\ UNCHANGED <<conn, joinedAt, replayLeft>>
        /\ f.kind \notin {"sealed", "replay"}
    BY <2>1 DEF Taken
  <2>4. Open'
    BY <2>2, <2>3 DEF ExactInv, Open
  <2>5. HeaderMeansKept' /\ \A g \in Elements(kept') : g.kind \in Kept
    BY <2>2, <2>3 DEF ExactInv, HeaderMeansKept
  <2>6. joinedAt' < f.id /\ joinedAt' <= Len(said') /\ joinedAt \in Nat
    BY <2>2, <2>3 DEF ExactInv, TypeOK
  <2>7. conn => EarlierWasKept'
    BY <2>2, <2>3, <2>6 DEF ExactInv, EarlierWasKept
  <2>8. ASSUME conn PROVE Exact'
    <3>1. /\ Len(wire) \in Nat /\ Len(wire') = Len(wire) + 1
          /\ \A k \in 1 .. Len(wire) : wire'[k] = wire[k]
          /\ wire'[Len(wire) + 1] = f /\ wire' \in Seq(Frame)
      BY <2>2, <2>8, AppendProperties DEF TypeOK
    <3>2. Expected' = Expected
      <4>1. CASE wire = <<>>
        <5>1. Head(wire') = f
          BY <2>2, <2>8, <4>1
        <5> QED BY <2>3, <4>1, <5>1 DEF Expected
      <4>2. CASE wire # <<>>
        <5>1. Len(wire) # 0 /\ wire' # <<>>
          BY <3>1, <4>2, EmptySeq DEF TypeOK
        <5>2. Head(wire') = Head(wire)
          BY <3>1, <5>1 DEF TypeOK
        <5> QED BY <2>3, <4>2, <5>1, <5>2 DEF Expected
      <4> QED BY <4>1, <4>2
    <3>3. Expected <= Len(wire) /\ Expected \in Int
      <4>1. wire # <<>> => Head(wire) \in Frame
        BY HeadTailProperties DEF TypeOK
      <4>2. wire # <<>> => Head(wire).arg \in Nat
        BY <4>1 DEF Frame
      <4>3. Expected \in Nat
        BY <4>2 DEF Expected, TypeOK
      <4> QED BY <2>8, <4>3 DEF ExactInv, Exact
    <3>4. \A k \in 1 .. Len(wire) : wire[k].id <= joinedAt <=> k <= Expected
      BY <2>8 DEF ExactInv, Exact
    <3>5. ~(f.id <= joinedAt')
      BY <2>2, <2>3, <2>6
    <3> HIDE DEF Expected
    <3>6. ASSUME NEW k \in 1 .. Len(wire')
          PROVE  wire'[k].id <= joinedAt' <=> k <= Expected'
      <4>1. CASE k = Len(wire) + 1
        BY <3>1, <3>2, <3>3, <3>5, <4>1
      <4>2. CASE k # Len(wire) + 1
        <5>1. k \in 1 .. Len(wire)
          BY <3>1, <4>2
        <5> QED BY <2>3, <3>1, <3>2, <3>4, <5>1
      <4> QED BY <4>1, <4>2
    <3> QED BY <3>1, <3>2, <3>3, <3>6 DEF Exact
  <2> QED BY <2>3, <2>4, <2>5, <2>6, <2>7, <2>8 DEF ExactInv
<1>2. CASE Connect
  <2> DEFINE h == [id |-> 0, kind |-> "replay", by |-> Nobody, sid |-> Me, target |-> 0,
                   arg |-> Len(kept)]
  <2>1. /\ UNCHANGED <<said, kept, replayLeft>> /\ joinedAt' = Len(said)
        /\ wire' = IF ServerKeeps THEN <<h>> \o kept ELSE <<>>
    BY <1>2 DEF Connect, server
  <2>2. h \in Frame /\ h.id = 0 /\ h.kind = "replay" /\ h.arg = Len(kept)
    BY ConversationAssumption DEF Frame, TypeOK
  <2>3. \A f \in Elements(kept) : f.id \in 1 .. Len(said) /\ f.kind \in Kept
    BY DEF OrderInv, KeptWasSaid, WasSaid, ExactInv
  <2> HIDE DEF h
  <2>4. EarlierWasKept'
    BY <1>2, <2>3, AfterConnect DEF EarlierWasKept
  <2>5. Exact' /\ HeaderMeansKept'
    <3>1. CASE ServerKeeps
      <4>1. <<h>> \in Seq(Frame) /\ Len(<<h>>) = 1 /\ <<h>>[1] = h
        BY <2>2
      <4>2. /\ wire' \in Seq(Frame) /\ Len(kept) \in Nat /\ Len(wire') = Len(kept) + 1
            /\ \A k \in 1 .. Len(kept) + 1 : wire'[k] = IF k = 1 THEN h ELSE kept[k - 1]
        BY <2>1, <3>1, <4>1, ConcatProperties DEF TypeOK
      <4>3. wire' # <<>> /\ Head(wire') = h
        BY <4>2, EmptySeq
      <4>4. Expected' = Len(wire')
        BY <2>2, <4>2, <4>3 DEF Expected
      <4>5. ASSUME NEW k \in 1 .. Len(wire') PROVE wire'[k].id <= joinedAt'
        <5>1. Len(said) \in Nat
          BY DEF TypeOK
        <5>2. CASE k = 1
          BY <2>1, <2>2, <4>2, <5>1, <5>2
        <5>3. CASE k # 1
          <6>1. k - 1 \in 1 .. Len(kept) /\ wire'[k] = kept[k - 1]
            BY <4>2, <5>3
          <6>2. kept[k - 1] \in Elements(kept)
            BY <6>1 DEF Elements
          <6> QED BY <2>1, <2>3, <5>1, <6>1, <6>2
        <5> QED BY <5>2, <5>3
      <4> QED BY <3>1, <4>2, <4>4, <4>5 DEF Exact, HeaderMeansKept
    <3>2. CASE ~ServerKeeps
      <4>1. wire' = <<>> /\ replayLeft' = 0 /\ Elements(wire') = {}
        BY <2>1, <3>2 DEF ExactInv, HeaderMeansKept, Elements
      <4> QED BY <3>2, <4>1 DEF Exact, Expected, HeaderMeansKept
    <3> QED BY <3>1, <3>2
  <2>6. joinedAt' <= Len(said')
    BY <2>1 DEF TypeOK
  <2> QED BY <2>1, <2>4, <2>5, <2>6 DEF ExactInv, Open, Elements
<1>3. CASE Drop \/ ServerRestart
  <2>1. /\ UNCHANGED <<said, joinedAt, replayLeft>> /\ conn' = FALSE
        /\ wire' = <<>> /\ (kept' = kept \/ kept' = <<>>)
    BY <1>3 DEF Drop, ServerRestart, server
  <2>2. Elements(wire') = {} /\ Elements(kept') \subseteq Elements(kept)
    BY <2>1 DEF Elements
  <2> QED BY <2>1, <2>2 DEF ExactInv, HeaderMeansKept, Open
<1>4. ASSUME NEW kinds, Incoming(kinds), Take, CountDown, "replay" \notin kinds,
             UNCHANGED <<said, kept, conn, joinedAt>>
      PROVE  ExactInv'
  BY <1>4, CountOne DEF Counts, Incoming
<1>5. CASE ReceiveReplay
  BY <1>5, CountOne DEF ReceiveReplay, Counts, Incoming, server
<1>6. CASE ReceiveCleared
  BY <1>6, CountOne DEF ReceiveCleared, Counts, Incoming, server
<1>7. CASE ReceiveSealed
  BY <1>7, AfterTake DEF ReceiveSealed, ExactInv, Open, WasSaid
<1>8. CASE ReceiveAside
  <2>1. Incoming({"aside"}) /\ Take /\ UNCHANGED <<said, kept, conn, joinedAt>>
    BY <1>8 DEF ReceiveAside, server
  <2>2. Counts(Head(wire))
    BY <1>8 DEF ReceiveAside, Incoming, Counts, Kept, Content, Quiet
  <2> QED BY <2>1, <2>2, CountOne
<1>9. CASE ReceiveNuke
  BY <1>4, <1>9 DEF ReceiveNuke, server
<1>10. CASE ReceiveEdit
  BY <1>4, <1>10 DEF ReceiveEdit, server
<1>11. CASE ReceiveDelete
  BY <1>4, <1>11 DEF ReceiveDelete, server
<1>12. CASE ReceiveVote
  BY <1>4, <1>12 DEF ReceiveVote, server
<1>13. CASE ReceiveRepeat
  BY <1>4, <1>13 DEF ReceiveRepeat, server
<1>14. CASE ReceiveText
  BY <1>4, <1>14 DEF ReceiveText, Show, server
<1>15. CASE ReceiveSpoiler
  BY <1>4, <1>15 DEF ReceiveSpoiler, Show, server
<1>16. CASE ReceivePoll
  BY <1>4, <1>16 DEF ReceivePoll, Show, server
<1>17. CASE ReceiveFile
  BY <1>4, <1>17 DEF ReceiveFile, Show, server
<1>18. CASE TakeDownload \/ (\E i \in Listed : Get(i)) \/ UNCHANGED vars
  <2>1. UNCHANGED <<said, kept, conn, wire, joinedAt, replayLeft>>
    BY <1>18 DEF TakeDownload, Get, vars, server, link
  <2> QED BY <2>1 DEF ExactInv, Exact, Expected, EarlierWasKept, HeaderMeansKept, Open, Elements
<1> QED
  BY <1>1, <1>2, <1>3, <1>5, <1>6, <1>7, <1>8, <1>9, <1>10, <1>11, <1>12, <1>13, <1>14,
     <1>15, <1>16, <1>17, <1>18
  DEF Next, Receive

\* In a room where everything decrypts, replayLeft counts exactly the frames on
\* the wire from before the subscription, whatever was lost before, so that live
\* messages and earlier ones are never taken for each other (App.receive).
THEOREM ReplayCounts ==
  ASSUME "sealed" \notin Kinds
  PROVE  Spec => []ReplayExact
<1>1. Init => ExactInv
  BY DEF Init, ExactInv, HeaderMeansKept, Open, Elements
<1>2. TypeOK /\ OrderInv /\ ExactInv /\ [Next]_vars => ExactInv'
  BY ExactStep
<1>3. ExactInv => ReplayExact
  BY DEF ExactInv, Exact, Expected, ReplayExact
<1> QED BY <1>1, <1>2, <1>3, TypeCorrect, OrderInvariant, PTL DEF Spec

\* Taking a frame is no other step of the wire.
LEMMA Shorter ==
  ASSUME NEW s \in Seq(Frame), Len(s) # 0
  PROVE  Tail(s) # s /\ \A f \in Frame : Tail(s) # Append(s, f)
<1>1. Len(Tail(s)) = Len(s) - 1 /\ Len(s) \in Nat
  BY HeadTailProperties, EmptySeq
<1>2. \A f \in Frame : Len(Append(s, f)) = Len(s) + 1
  BY AppendProperties
<1>3. Len(Tail(s)) # Len(s) /\ \A f \in Frame : Len(Tail(s)) # Len(Append(s, f))
  <2> DEFINE n == Len(s)
             m == Len(Tail(s))
             after(f) == Len(Append(s, f))
  <2>1. n \in Nat /\ m = n - 1 /\ \A f \in Frame : after(f) = n + 1
    BY <1>1, <1>2
  <2> HIDE DEF n, m, after
  <2>2. m # n /\ \A f \in Frame : m # after(f)
    BY <2>1
  <2> QED BY <2>2, Zenon DEF n, m, after
<1> QED BY <1>3, Zenon

\* With -autosave, a file somebody else shares while the reader is connected is
\* queued for download when it comes and the channel has room, in a room where
\* everything decrypts (App.receive, App.show): the countdown is over by then.
THEOREM LiveFilesQueued ==
  ASSUME "sealed" \notin Kinds
  PROVE  Spec => LiveFileQueued
<1>1. Init => ExactInv
  BY DEF Init, ExactInv, HeaderMeansKept, Open, Elements
<1>2. TypeOK /\ OrderInv /\ ExactInv /\ [Next]_vars => ExactInv'
  BY ExactStep
<1>3. TypeOK /\ OrderInv /\ ExactInv /\ [Next]_vars =>
        [\A i \in ContentIds :
           /\ Incoming({"file"}) /\ Head(wire).id = i
           /\ conn' /\ wire' = Tail(wire)
           /\ Autosave /\ said[i].sid # Me /\ i > joinedAt /\ i \notin seenMIDs
           /\ Len(downloads) < DownloadCap
           => downloads' = Append(downloads, i)]_vars
  <2> SUFFICES ASSUME TypeOK, OrderInv, ExactInv, [Next]_vars, NEW i \in ContentIds,
                      Incoming({"file"}), Head(wire).id = i, conn', wire' = Tail(wire),
                      Autosave, said[i].sid # Me, i > joinedAt, i \notin seenMIDs,
                      Len(downloads) < DownloadCap
               PROVE  downloads' = Append(downloads, i)
    OBVIOUS
  <2>1. /\ conn /\ Len(wire) \in Nat /\ Len(wire) # 0 /\ Len(wire') = Len(wire) - 1
        /\ Head(wire) = wire[1] /\ Head(wire) \in Frame /\ Head(wire).kind = "file"
    BY HeadTailProperties, EmptySeq DEF Incoming, TypeOK
  <2>2. WasSaid(Head(wire)) /\ said[i] = Head(wire)
    BY AfterTake DEF Take, WasSaid
  <2>3. ~Replayed
    <3>1. Expected = replayLeft /\ Exact
      BY <2>1 DEF Expected, ExactInv
    <3>2. ~(1 <= replayLeft)
      BY <2>1, <3>1 DEF Exact, TypeOK, ContentIds
    <3> QED BY <3>2 DEF Replayed, TypeOK
  <2>4. ~Room
    <3> SUFFICES ASSUME Room PROVE FALSE
      OBVIOUS
    <3>1. PICK f \in Frame : Taken(f)
      BY RoomStep
    <3>2. wire' = Append(wire, f)
      BY <2>1, <3>1, AfterTaken
    <3> HIDE DEF Room
    <3> QED BY <2>1, <3>2, Shorter DEF TypeOK
  <2>5. ~(TakeDownload \/ (\E j \in Listed : Get(j)) \/ UNCHANGED vars)
    <3>1. wire' # wire
      BY <2>1, Shorter DEF TypeOK
    <3> QED BY <3>1 DEF TakeDownload, Get, vars, link
  <2>6. ~(Connect \/ Drop \/ ServerRestart)
    BY <2>1 DEF Connect, Drop, ServerRestart
  <2>7. ReceiveFile
    BY <2>1, <2>4, <2>5, <2>6
    DEF Next, Receive, ReceiveReplay, ReceiveCleared, ReceiveSealed, ReceiveAside, ReceiveNuke,
        ReceiveEdit, ReceiveDelete, ReceiveVote, ReceiveRepeat, Repeated, ReceiveText,
        ReceiveSpoiler, ReceivePoll, Incoming
  <2>8. SavedByItself(Head(wire))
    BY <2>2, <2>3 DEF SavedByItself, IsOwn
  <2> QED BY <2>7, <2>8 DEF ReceiveFile
<1> QED BY <1>1, <1>2, <1>3, TypeCorrect, OrderInvariant, PTL DEF Spec, LiveFileQueued

-------------------------------------------------------------------------------
(* The window.                                                             *)

\* What pushHistory keeps of entries with different ids: never too many.
LEMMA NewestFew ==
  ASSUME NEW E, E \subseteq Entry, IsFiniteSet(E), \A d, e \in E : d.id = e.id => d = e
  PROVE  IsFiniteSet(NewestOf(E)) /\ Cardinality(NewestOf(E)) <= HistoryMax
<1> DEFINE X == NewestOf(E)
<1>1. X \subseteq E
  BY DEF NewestOf
<1>2. HistoryMax \in Nat \ {0}
  BY ConversationAssumption
<1>3. \A e \in X : Cardinality({d \in E : d.id > e.id}) < HistoryMax
  BY DEF NewestOf
<1>4. IsFiniteSet(X)
  BY <1>1, FS_Subset
<1> HIDE DEF X
<1>5. CASE X = {}
  BY <1>2, <1>4, <1>5, FS_EmptySet DEF X
<1>6. CASE X # {}
  <2> DEFINE S == {e.id : e \in X}
  <2>1. S \subseteq Nat /\ S # {}
    BY <1>1, <1>6 DEF Entry
  <2>2. PICK m \in S : \A n \in S : m <= n
    <3> HIDE DEF S
    <3> QED BY <2>1, Least
  <2>3. PICK x \in X : x.id = m
    OBVIOUS
  <2>4. \A e \in X : e = x \/ e.id > x.id
    <3> TAKE e \in X
    <3>1. e.id \in Nat /\ x.id \in Nat /\ x.id <= e.id
      BY <1>1, <2>2, <2>3 DEF Entry
    <3>2. e.id = x.id => e = x
      BY <1>1
    <3> QED BY <3>1, <3>2
  <2> DEFINE Y == {d \in E : d.id > x.id}
  <2>5. IsFiniteSet(Y) /\ Cardinality(Y) < HistoryMax /\ Cardinality(Y) \in Nat
    <3>1. Y \subseteq E
      OBVIOUS
    <3> QED BY <1>3, <3>1, FS_Subset, FS_CardinalityType
  <2>6. X \subseteq Y \cup {x}
    BY <1>1, <2>4
  <2> HIDE DEF Y
  <2>7. IsFiniteSet(Y \cup {x}) /\ Cardinality(Y \cup {x}) <= Cardinality(Y) + 1
        /\ Cardinality(Y \cup {x}) \in Nat
    <3>1. /\ IsFiniteSet(Y \cup {x})
          /\ Cardinality(Y \cup {x}) = IF x \in Y THEN Cardinality(Y) ELSE Cardinality(Y) + 1
      BY <2>5, FS_AddElement
    <3>2. Cardinality(Y \cup {x}) \in Nat
      BY <3>1, FS_CardinalityType
    <3> QED BY <2>5, <3>1, <3>2
  <2>8. Cardinality(X) <= Cardinality(Y \cup {x}) /\ Cardinality(X) \in Nat
    BY <2>6, <2>7, FS_Subset, FS_CardinalityType
  <2>9. Cardinality(X) <= HistoryMax
    BY <1>2, <2>5, <2>7, <2>8
  <2> QED BY <1>4, <2>9 DEF X
<1> QED BY <1>5, <1>6

\* The log with what it is a window on: everything remembered was shown, and
\* what was shown later than something remembered is remembered, too.
WindowInv == /\ IsFiniteSet(log)
             /\ ~SharesHistory => log = {}
             /\ LogIsWindow

LEMMA WindowShow ==
  ASSUME TypeOK, OrderInv, GoneInv, WindowInv, wire # <<>>, IsNew(Head(wire)), Show(Head(wire)),
         OrderInv'
  PROVE  WindowInv'
<1> DEFINE h == Head(wire)
           new == [id |-> h.id, data |-> 0]
           E == log \cup {new}
<1>1. /\ shown' = Append(shown, h.id) /\ seenMIDs' = seenMIDs \cup {h.id}
      /\ UNCHANGED <<said, deleted, wipedAt>> /\ h.id \notin seenMIDs
      /\ log' = IF SharesHistory /\ h.kind # "fleeting" THEN NewestOf(E) ELSE log
  BY DEF Show, Remember, Remembered, server, IsNew
<1>2. h \in Elements(wire) /\ h \in Frame /\ h.kind \in Content
  BY SortedTail, HeadTailProperties DEF TypeOK, OrderInv, QueuesInOrder, IsNew
<1>3. WasSaid(h)
  BY <1>2 DEF OrderInv, WireWasSaid, Content
<1>4. h.id \in Nat /\ said[h.id] = h /\ \A i \in seenMIDs : i < h.id
  BY <1>2, <1>3 DEF OrderInv, NewComesLater, IsNew, WasSaid, Frame
<1>5. ShownSet' = ShownSet \cup {h.id} /\ LogIds \subseteq ShownSet /\ ShownSet \subseteq Nat
  BY <1>1 DEF OrderInv, SeenIsShown, GoneInv, TypeOK
<1>6. log \subseteq Entry /\ IsFiniteSet(log)
  BY DEF WindowInv, TypeOK
<1>7. new \in Entry /\ new.id = h.id
  BY <1>4 DEF Entry
<1>8. \A e \in log : e.id \in ShownSet /\ e.id < h.id /\ e.id \in Nat
  BY <1>4, <1>5, <1>6 DEF LogIds, OrderInv, SeenIsShown
<1> HIDE DEF h, new
<1>9. /\ E \subseteq Entry /\ IsFiniteSet(E) /\ \A d, e \in E : d.id = e.id => d = e
  <2>1. IsFiniteSet(E)
    BY <1>6, FS_AddElement
  <2>2. \A d, e \in E : d.id = e.id => d = e
    BY <1>7, <1>8 DEF GoneInv
  <2> QED BY <1>6, <1>7, <2>1, <2>2
<1>10. CASE SharesHistory /\ h.kind # "fleeting"
  <2>1. log' = NewestOf(E) /\ log' \subseteq E
    BY <1>1, <1>10 DEF NewestOf
  <2>2. IsFiniteSet(log') /\ Cardinality(log') <= HistoryMax
    <3> HIDE DEF E
    <3> QED BY <1>9, <2>1, NewestFew
  <2>3. ASSUME NEW i \in ShownSet', NEW j \in LogIds', i > j, i > wipedAt', i \notin deleted',
               said'[i].kind # "fleeting"
        PROVE  i \in LogIds'
    <3>1. PICK e \in log' : e.id = j
      BY DEF LogIds
    <3>2. \E d \in E : d.id = i
      <4>1. CASE i = h.id
        BY <4>1, <1>7
      <4>2. CASE i # h.id
        <5>1. i \in ShownSet /\ i < h.id
          BY <4>2, <1>4, <1>5 DEF OrderInv, SeenIsShown
        <5>2. j \in LogIds
          <6>1. j # h.id
            BY <5>1, <2>3, <1>4, <1>5
          <6> QED BY <6>1, <3>1, <2>1, <1>7 DEF LogIds
        <5>3. i \in LogIds
          BY <5>1, <5>2, <2>3, <1>1 DEF WindowInv, LogIsWindow
        <5> QED BY <5>3 DEF LogIds
      <4> QED BY <4>1, <4>2
    <3>3. PICK d \in E : d.id = i
      BY <3>2
    <3> DEFINE A == {c \in E : c.id > e.id}
               B == {c \in E : c.id > d.id}
    <3>4. e \in E /\ Cardinality(A) < HistoryMax
      BY <2>1, <3>1 DEF NewestOf
    <3>5. B \subseteq A
      <4>1. \A c \in E : c.id \in Nat
        BY <1>9 DEF Entry
      <4> QED BY <4>1, <3>1, <3>3, <3>4, <2>3
    <3>6. IsFiniteSet(A) /\ Cardinality(B) <= Cardinality(A) /\ Cardinality(A) \in Nat
          /\ Cardinality(B) \in Nat
      <4>1. A \subseteq E
        OBVIOUS
      <4> HIDE DEF A, B, E
      <4>2. IsFiniteSet(A) /\ Cardinality(A) \in Nat
        BY <4>1, <1>9, FS_Subset, FS_CardinalityType
      <4> QED BY <4>2, <3>5, FS_Subset, FS_CardinalityType
    <3>7. Cardinality(B) < HistoryMax
      <4> HIDE DEF A, B
      <4> QED BY <3>4, <3>6, ConversationAssumption
    <3>8. d \in log'
      BY <2>1, <3>7 DEF NewestOf
    <3> QED BY <3>3, <3>8 DEF LogIds
  <2> QED BY <1>10, <2>2, <2>3 DEF WindowInv, LogIsWindow
<1>11. CASE ~ (SharesHistory /\ h.kind # "fleeting")
  <2>1. log' = log /\ LogIds' = LogIds
    BY <1>1, <1>11 DEF LogIds
  <2>2. ASSUME NEW i \in ShownSet', NEW j \in LogIds', i > j, i > wipedAt', i \notin deleted',
               said'[i].kind # "fleeting"
        PROVE  i \in LogIds'
    <3>1. SharesHistory
      BY <2>1 DEF WindowInv, LogIds
    <3>2. i # h.id
      BY <1>1, <1>4, <1>11, <2>2, <3>1
    <3> QED BY <1>1, <1>5, <2>1, <2>2, <3>2 DEF WindowInv, LogIsWindow
  <2> QED BY <2>1, <2>2 DEF WindowInv, LogIsWindow
<1> QED BY <1>10, <1>11

LEMMA WindowStep ==
  ASSUME TypeOK, OrderInv, GoneInv, WindowInv, OrderInv', [Next]_vars
  PROVE  WindowInv'
<1>1. ASSUME UNCHANGED <<log, shown, wipedAt, deleted>>, \A i \in ShownSet : said'[i] = said[i]
      PROVE  WindowInv'
  <2>1. LogIds' = LogIds /\ ShownSet' = ShownSet
    BY <1>1 DEF LogIds, ShownSet
  <2> QED BY <1>1, <2>1 DEF WindowInv, LogIsWindow
<1>2. CASE Room
  <2>1. PICK f \in Frame : Taken(f)
    BY <1>2, RoomStep
  <2>2. \A i \in ShownSet : said'[i] = said[i]
    BY <2>1, AfterTaken DEF OrderInv, SeenIsShown, ContentIds
  <2>3. UNCHANGED <<log, shown, wipedAt, deleted>>
    <3>1. ASSUME NEW p, NEW kind, NEW target, NEW arg, NEW sid, Post(p, kind, target, arg, sid)
          PROVE  UNCHANGED <<memory, shown>>
      BY <3>1 DEF Post
    <3>2. ASSUME NEW kind, ServerFrame(kind) PROVE UNCHANGED <<memory, shown>>
      BY <3>2 DEF ServerFrame
    <3> QED BY <1>2, <3>1, <3>2 DEF Room, memory
  <2> QED BY <1>1, <2>2, <2>3
<1>3. CASE ReceiveNuke
  <2>1. log' = {}
    BY <1>3 DEF ReceiveNuke
  <2> QED BY <2>1, FS_EmptySet, ConversationAssumption DEF WindowInv, LogIsWindow, LogIds
<1>4. CASE ReceiveEdit
  <2> DEFINE hit(e) == e.id = Head(wire).target /\ SameSender(e, Head(wire))
             new(e) == IF hit(e) THEN [e EXCEPT !.data = Head(wire).arg] ELSE e
  <2>1. log' = {new(e) : e \in log} /\ UNCHANGED <<shown, deleted, wipedAt, said>>
    BY <1>4 DEF ReceiveEdit, server
  <2>2. \A e \in log : new(e).id = e.id
    BY DEF TypeOK, Entry
  <2> HIDE DEF new
  <2>3. LogIds' = LogIds /\ ShownSet' = ShownSet
    BY <2>1, <2>2 DEF LogIds, ShownSet
  <2>4. IsFiniteSet(log) /\ Cardinality(log) <= HistoryMax /\ Cardinality(log) \in Nat
    BY FS_CardinalityType DEF WindowInv, LogIsWindow
  <2>5. IsFiniteSet(log') /\ Cardinality(log') <= Cardinality(log) /\ Cardinality(log') \in Nat
    <3> DEFINE fn == [e \in log |-> new(e)]
    <3>1. fn \in Surjection(log, log')
      BY <2>1 DEF Surjection
    <3> HIDE DEF fn
    <3> QED BY <2>4, <3>1, FS_Surjection, FS_CardinalityType
  <2>6. ~SharesHistory => log' = {}
    BY <2>1 DEF WindowInv
  <2> QED BY <2>1, <2>3, <2>4, <2>5, <2>6, ConversationAssumption DEF WindowInv, LogIsWindow
<1>5. CASE ReceiveDelete
  <2> DEFINE hit == {e \in log : e.id = Head(wire).target /\ SameSender(e, Head(wire))}
  <2>1. /\ log' = log \ hit /\ deleted' = deleted \cup {e.id : e \in hit}
        /\ UNCHANGED <<shown, wipedAt, said>>
    BY <1>5 DEF ReceiveDelete, server
  <2> HIDE DEF hit
  <2>2. log' \subseteq log /\ IsFiniteSet(log) /\ Cardinality(log) <= HistoryMax /\ ShownSet' = ShownSet
    BY <2>1 DEF WindowInv, LogIsWindow, ShownSet
  <2>3. IsFiniteSet(log') /\ Cardinality(log') <= HistoryMax
    <3>1. IsFiniteSet(log') /\ Cardinality(log') <= Cardinality(log)
      BY <2>2, FS_Subset
    <3>2. Cardinality(log) \in Nat /\ Cardinality(log') \in Nat
      BY <2>2, <3>1, FS_CardinalityType
    <3> QED BY <2>2, <3>1, <3>2, ConversationAssumption
  <2>4. LogIds' \subseteq LogIds /\ \A i \in LogIds : i \in LogIds' \/ i \in deleted'
    BY <2>1 DEF LogIds
  <2> QED BY <2>1, <2>2, <2>3, <2>4 DEF WindowInv, LogIsWindow
<1>6. ASSUME NEW kinds, Incoming(kinds), kinds \subseteq Content, ~Repeated(Head(wire)), Show(Head(wire))
      PROVE  WindowInv'
  <2>1. IsNew(Head(wire)) /\ wire # <<>>
    BY <1>6 DEF IsNew, Incoming, Repeated
  <2> QED BY <1>6, <2>1, WindowShow
<1>7. CASE ReceiveText
  BY <1>6, <1>7 DEF ReceiveText
<1>8. CASE ReceiveSpoiler
  BY <1>6, <1>8 DEF ReceiveSpoiler
<1>9. CASE ReceivePoll
  BY <1>6, <1>9 DEF ReceivePoll
<1>10. CASE ReceiveFile
  BY <1>6, <1>10 DEF ReceiveFile
<1>11. CASE ReceiveReplay \/ ReceiveSealed \/ ReceiveAside \/ ReceiveVote \/ ReceiveRepeat
  BY <1>1, <1>11 DEF ReceiveReplay, ReceiveSealed, ReceiveAside, ReceiveVote, ReceiveRepeat,
                     memory, server
<1>12. CASE ReceiveCleared
  BY <1>1, <1>12 DEF ReceiveCleared, server
<1>13. CASE Connect \/ Drop \/ ServerRestart
  BY <1>1, <1>13 DEF Connect, Drop, ServerRestart, server, memory
<1>14. CASE TakeDownload \/ (\E i \in Listed : Get(i)) \/ UNCHANGED vars
  BY <1>1, <1>14 DEF TakeDownload, Get, vars, memory, server
<1> QED
  BY <1>2, <1>3, <1>4, <1>5, <1>7, <1>8, <1>9, <1>10, <1>11, <1>12, <1>13, <1>14
  DEF Next, Receive

\* The log never holds more than HistoryMax messages, and none newer than its
\* oldest is missing but what was deleted, wiped or not meant to be remembered,
\* whatever is edited, replayed and lost (App.remember, App.editLog).
THEOREM LogIsAWindow == Spec => []LogIsWindow
<1>1. Init => WindowInv
  BY FS_EmptySet, ConversationAssumption DEF Init, WindowInv, LogIsWindow, LogIds, ShownSet
<1>2. TypeOK /\ OrderInv /\ GoneInv /\ WindowInv /\ OrderInv' /\ [Next]_vars => WindowInv'
  BY WindowStep
<1>3. WindowInv => LogIsWindow
  BY DEF WindowInv
<1> QED BY <1>1, <1>2, <1>3, TypeCorrect, OrderInvariant, GoneInvariance, PTL DEF Spec

-------------------------------------------------------------------------------
(* Catching up with a room that keeps everything.                          *)

\* The server and the log have room for all that is said, and nothing wipes them.
WholeRoom == /\ ServerKeeps /\ SharesHistory
             /\ KeepMax >= MaxPosts /\ HistoryMax >= MaxPosts
             /\ MaxRestarts = 0 /\ "nuke" \notin Kinds

OnWire(j) == said[j] \in Elements(wire)

\* The latest of the frames J has been handled, if there is one.
Settled(J) == conn /\ J # {} /\ ~OnWire(Newest(J))

SaidInv == /\ Len(said) <= MaxPosts
           /\ \A j \in 1 .. Len(said) :
                /\ said[j].by \in Vouched \cup {Nobody} /\ said[j].kind \in Kinds
                /\ said[j].kind \in Quiet => said[j].target < j

\* The server keeps all that it should, and while the reader is connected all
\* of it that is later than something on its way is on its way.
KeepInv == /\ Len(kept) <= Len(said)
           /\ \A i \in 1 .. Len(said) : said[i].kind \in Kept => said[i] \in Elements(kept)
           /\ conn => \A f \in Elements(wire), i \in 1 .. Len(said) :
                        f.id < i /\ said[i].kind \in Kept => OnWire(i)

\* The log is right about every message whose latest edit and whose deletes the
\* reader has handled, and about messages nobody changed.
LogWhole ==
  /\ \A e \in log :
       /\ said[e.id].kind # "fleeting"
       /\ Changes(e.id, "edit") = {} => e.data = 0
       /\ Settled(Changes(e.id, "edit")) => e.data = said[Newest(Changes(e.id, "edit"))].arg
       /\ conn /\ Changes(e.id, "delete") # {} => \E j \in Changes(e.id, "delete") : OnWire(j)
  /\ \A i \in seenMIDs : i \in Surviving => i \in LogIds

\* The same of the votes.
VotesWhole ==
  /\ polls = {i \in seenMIDs : said[i].kind = "poll"}
  /\ votes \subseteq [poll : polls, by : Vouched, choice : Choices]
  /\ lastPoll = IF polls = {} THEN 0 ELSE Newest(polls)
  /\ \A v \in votes : Ballots(v.poll, v.by) # {}
  /\ \A v \in [poll : polls, by : Vouched, choice : Choices] :
       Settled(Ballots(v.poll, v.by)) =>
         (v \in votes <=> said[Newest(Ballots(v.poll, v.by))].arg = v.choice)

\* The latest of some numbers.
LEMMA NewestIs ==
  ASSUME NEW n \in Nat, NEW S \in SUBSET (1 .. n), S # {}
  PROVE  Newest(S) \in S /\ \A y \in S : y <= Newest(S)
<1>1. S \subseteq Nat /\ \A y \in S : y <= n
  OBVIOUS
<1>2. \E x \in S : \A y \in S : y <= x
  BY <1>1, Greatest
<1> QED BY <1>2 DEF Newest

LEMMA NewestIsLast ==
  ASSUME NEW n \in Nat, NEW S \in SUBSET (1 .. n), NEW m \in S, \A y \in S : y <= m
  PROVE  Newest(S) = m
<1>1. Newest(S) \in S /\ \A y \in S : y <= Newest(S)
  BY NewestIs
<1>2. Newest(S) \in Nat /\ m \in Nat /\ m <= Newest(S) /\ Newest(S) <= m
  <2>1. \A y \in S : y \in Nat
    OBVIOUS
  <2>2. Newest(S) \in S /\ m \in S
    BY <1>1
  <2> HIDE DEF Newest
  <2> QED BY <1>1, <2>1, <2>2
<1> QED BY <1>2

\* A frame f taken by a room that keeps everything.
KeptWhole(f) ==
  /\ Taken(f) /\ Len(said) < MaxPosts
  /\ f.by \in Vouched \cup {Nobody}
  /\ f.kind \in Quiet => f.target < f.id
  /\ kept' = IF f.kind \in Kept THEN LastOf(Append(kept, f), KeepMax) ELSE kept
  /\ UNCHANGED <<polling, shown>>

LEMMA WholeRoomStep ==
  ASSUME WholeRoom, TypeOK, Room
  PROVE  \E f \in Frame : KeptWhole(f)
<1> USE ConversationAssumption
<1>1. ASSUME NEW p \in People, NEW kind \in Kinds \ {"nuke", "cleared"},
             NEW target \in Targets(kind), NEW arg \in Args(kind),
             NEW sid \in Sids(p, kind), Post(p, kind, target, arg, sid)
      PROVE  \E f \in Frame : KeptWhole(f)
  <2> DEFINE f == [id |-> Len(said) + 1, kind |-> kind, by |-> VouchedName(p),
                   sid |-> sid, target |-> target, arg |-> arg]
  <2>1. f \in Frame
    <3>1. target \in Nat
      BY <1>1 DEF Targets, ContentIds, PollIds, TypeOK
    <3>2. arg \in Nat
      BY <1>1 DEF Args, Choices, TypeOK
    <3>3. Len(said) + 1 \in Nat
      BY DEF TypeOK
    <3> QED BY <1>1, <3>1, <3>2, <3>3 DEF Frame, VouchedName, Sids
  <2>2. /\ f.id = Len(said) + 1 /\ f.kind = kind /\ f.arg = arg /\ f.target = target
        /\ f.by = VouchedName(p)
    OBVIOUS
  <2>3. /\ said' = Append(said, f) /\ Relay(f) /\ Len(said) < MaxPosts
        /\ kept' = IF ServerKeeps /\ kind \in Kept THEN LastOf(Append(kept, f), KeepMax) ELSE kept
        /\ UNCHANGED <<conn, joinedAt, replayLeft, seenMIDs, memory, files, polling, shown>>
    BY <1>1 DEF Post, listing
  <2>4. kind = "edit" => arg = Len(said) + 1
    BY <1>1 DEF Args
  <2>5. kind \in Kinds /\ kind # "replay" /\ kind # "nuke"
    BY <1>1
  <2>6. kind \in Quiet => target < Len(said) + 1
    BY <1>1 DEF Targets, ContentIds, PollIds, TypeOK
  <2>7. VouchedName(p) \in Vouched \cup {Nobody}
    BY DEF VouchedName
  <2> HIDE DEF f
  <2>8. kept' = IF f.kind \in Kept THEN LastOf(Append(kept, f), KeepMax) ELSE kept
    BY <2>2, <2>3 DEF WholeRoom
  <2>9. Taken(f)
    BY <2>2, <2>3, <2>4, <2>5, <2>8 DEF Taken
  <2>10. f.kind \in Quiet => f.target < f.id
    BY <2>2, <2>6
  <2> QED BY <2>1, <2>2, <2>3, <2>7, <2>8, <2>9, <2>10 DEF KeptWhole
<1>2. ASSUME NEW kind \in Kinds \cap {"nuke", "cleared"}, ServerFrame(kind)
      PROVE  \E f \in Frame : KeptWhole(f)
  <2> DEFINE f == [id |-> Len(said) + 1, kind |-> kind, by |-> Nobody, sid |-> Me,
                   target |-> 0, arg |-> Len(said)]
  <2>1. f \in Frame
    BY <1>2 DEF Frame, TypeOK
  <2>2. f.id = Len(said) + 1 /\ f.kind = kind /\ f.by = Nobody /\ kind = "cleared"
    BY <1>2 DEF WholeRoom
  <2>3. /\ said' = Append(said, f) /\ Relay(f) /\ Len(said) < MaxPosts
        /\ kept' = kept
        /\ UNCHANGED <<conn, joinedAt, replayLeft, seenMIDs, memory, files, polling, shown>>
    BY <1>2, <2>2 DEF ServerFrame, listing
  <2> HIDE DEF f
  <2>4. Taken(f)
    BY <1>2, <2>2, <2>3 DEF Taken
  <2> QED BY <2>1, <2>2, <2>3, <2>4 DEF KeptWhole
<1> QED BY <1>1, <1>2 DEF Room

\* What the room, what is kept and the wire have then.
LEMMA AfterKept ==
  ASSUME WholeRoom, TypeOK, OrderInv, SaidInv, KeepInv, NEW f \in Frame, KeptWhole(f)
  PROVE  /\ SaidInv' /\ KeepInv'
         /\ \A i \in 1 .. Len(said) : said[i] \in Elements(wire') <=> OnWire(i)
         /\ conn => f \in Elements(wire')
<1>1. /\ Len(said) \in Nat /\ Len(said') = Len(said) + 1 /\ said'[Len(said) + 1] = f
      /\ \A i \in 1 .. Len(said) : said'[i] = said[i]
      /\ f.id = Len(said) + 1
      /\ wire' = IF conn THEN Append(wire, f) ELSE wire
      /\ UNCHANGED conn
  BY AfterTaken DEF KeptWhole, Taken
<1>2. \A i \in 1 .. Len(said') : i \in 1 .. Len(said) \/ i = Len(said) + 1
  BY <1>1
<1>3. SaidInv'
  <2>1. Len(said') <= MaxPosts
    BY <1>1, ConversationAssumption DEF KeptWhole
  <2>2. \A i \in 1 .. Len(said') :
          /\ said'[i].by \in Vouched \cup {Nobody} /\ said'[i].kind \in Kinds
          /\ said'[i].kind \in Quiet => said'[i].target < i
    BY <1>1, <1>2 DEF SaidInv, KeptWhole, Taken
  <2> QED BY <2>1, <2>2 DEF SaidInv
<1>4. \A g \in Elements(kept) \cup Elements(wire) : g \in Frame /\ g.id < f.id
  <2>1. \A g \in Elements(kept) \cup Elements(wire) : g \in Frame
    BY DEF Elements, TypeOK
  <2> QED BY <1>1, <2>1 DEF OrderInv, KeptWasSaid, WireWasSaid, WasSaid
<1>5. Len(kept') <= Len(said') /\ Elements(kept') = Elements(kept) \cup (IF f.kind \in Kept THEN {f} ELSE {})
  <2>1. CASE f.kind \in Kept
    <3>1. Len(Append(kept, f)) = Len(kept) + 1 /\ Len(kept) \in Nat /\ Len(kept) <= Len(said)
      BY AppendProperties DEF TypeOK, KeepInv
    <3>2. Len(Append(kept, f)) <= KeepMax
      BY <1>1, <3>1, ConversationAssumption DEF WholeRoom, KeptWhole
    <3>3. kept' = Append(kept, f)
      BY <2>1, <3>2 DEF KeptWhole, LastOf
    <3>4. Elements(Append(kept, f)) = Elements(kept) \cup {f}
      BY <1>4, SortedAppend DEF TypeOK, OrderInv, QueuesInOrder
    <3> QED BY <1>1, <2>1, <3>1, <3>3, <3>4
  <2>2. CASE f.kind \notin Kept
    <3>1. kept' = kept
      BY <2>2 DEF KeptWhole
    <3>2. Len(kept) \in Nat /\ Len(kept) <= Len(said)
      BY DEF TypeOK, KeepInv
    <3> QED BY <1>1, <2>2, <3>1, <3>2 DEF Elements
  <2> QED BY <2>1, <2>2
<1>6. conn => Elements(wire') = Elements(wire) \cup {f}
  BY <1>1, <1>4, SortedAppend DEF TypeOK, OrderInv, QueuesInOrder
<1>7. ~conn => Elements(wire') = Elements(wire)
  BY <1>1
<1>8. \A i \in 1 .. Len(said) : said[i] # f
  BY <1>1 DEF OrderInv, Numbered
<1>9. \A i \in 1 .. Len(said) : said[i] \in Elements(wire') <=> OnWire(i)
  BY <1>6, <1>7, <1>8 DEF OnWire
<1>10. KeepInv'
  <2>1. \A i \in 1 .. Len(said') : said'[i].kind \in Kept => said'[i] \in Elements(kept')
    BY <1>1, <1>2, <1>5 DEF KeepInv
  <2>2. ASSUME conn, NEW g \in Elements(wire'), NEW i \in 1 .. Len(said'), g.id < i,
               said'[i].kind \in Kept
        PROVE  said'[i] \in Elements(wire')
    <3>1. CASE i = Len(said) + 1
      BY <1>1, <1>6, <2>2, <3>1
    <3>2. CASE i \in 1 .. Len(said)
      <4>1. g \in Elements(wire)
        BY <1>1, <1>6, <2>2, <3>2
      <4>2. OnWire(i)
        BY <1>1, <2>2, <3>2, <4>1 DEF KeepInv
      <4> QED BY <1>1, <1>9, <3>2, <4>2
    <3> QED BY <1>2, <3>1, <3>2
  <2>3. (\A i : OnWire(i)' <=> said'[i] \in Elements(wire')) /\ Elements(wire)' = Elements(wire')
        /\ Elements(kept)' = Elements(kept')
    BY DEF OnWire, Elements
  <2> QED BY <1>1, <1>5, <2>1, <2>2, <2>3 DEF KeepInv
<1> QED BY <1>3, <1>6, <1>9, <1>10

\* The reader takes a frame: all kept later than it stays on its way.
LEMMA KeepTake ==
  ASSUME TypeOK, OrderInv, KeepInv, conn, wire # <<>>, Take, UNCHANGED <<said, kept, conn>>
  PROVE  /\ KeepInv'
         /\ \A i \in 1 .. Len(said) : said[i] \in Elements(wire') => OnWire(i)
         /\ \A i \in 1 .. Len(said) :
              Head(wire).id < i /\ said[i].kind \in Kept => said[i] \in Elements(wire')
         /\ \A i \in 1 .. Len(said) : OnWire(i) => i = Head(wire).id \/ said[i] \in Elements(wire')
<1> DEFINE h == Head(wire)
<1>1. /\ h \in Elements(wire)
      /\ Elements(wire) = {h} \cup Elements(wire')
  BY SortedTail DEF Take, TypeOK, OrderInv, QueuesInOrder
<1>2. Elements(wire)' = Elements(wire') /\ Elements(kept)' = Elements(kept)
      /\ \A i : OnWire(i)' <=> said[i] \in Elements(wire')
  BY DEF Elements, OnWire
<1>3. \A i \in 1 .. Len(said) : said[i] = h => i = h.id
  BY DEF OrderInv, Numbered
<1>4. \A i \in 1 .. Len(said) : OnWire(i) => i = h.id \/ said[i] \in Elements(wire')
  BY <1>1, <1>3 DEF OnWire
<1>5. h \in Frame /\ \A f \in Elements(wire') : f \in Frame /\ h.id < f.id
  <2>1. \A f \in Elements(wire) : f \in Frame
    BY DEF TypeOK, Elements
  <2>2. \A f \in Elements(wire') : h.id < f.id
    BY SortedTail DEF Take, TypeOK, OrderInv, QueuesInOrder
  <2> QED BY <1>1, <2>1, <2>2
<1>n. h.id \in Nat /\ \A f \in Elements(wire') : f.id \in Nat
  BY <1>5 DEF Frame
<1> HIDE DEF h
<1>6. \A i \in 1 .. Len(said) : h.id < i /\ said[i].kind \in Kept => said[i] \in Elements(wire')
  <2> SUFFICES ASSUME NEW i \in 1 .. Len(said), h.id < i, said[i].kind \in Kept
               PROVE  said[i] \in Elements(wire')
    OBVIOUS
  <2>1. OnWire(i)
    BY <1>1 DEF KeepInv
  <2>2. i # h.id
    BY <1>n
  <2> QED BY <1>4, <2>1, <2>2
<1>7. KeepInv'
  <2>1. \A f \in Elements(wire'), i \in 1 .. Len(said) :
          f.id < i /\ said[i].kind \in Kept => said[i] \in Elements(wire')
    <3> SUFFICES ASSUME NEW f \in Elements(wire'), NEW i \in 1 .. Len(said), f.id < i,
                        said[i].kind \in Kept
                 PROVE  said[i] \in Elements(wire')
      OBVIOUS
    <3>1. h.id < i
      BY <1>5, <1>n
    <3> QED BY <1>6, <3>1
  <2> QED BY <1>2, <2>1 DEF KeepInv
<1> QED BY <1>1, <1>4, <1>6, <1>7 DEF h, OnWire

\* A new subscription has everything kept on its way.
LEMMA KeepConnect ==
  ASSUME WholeRoom, TypeOK, OrderInv, KeepInv, Connect
  PROVE  /\ KeepInv'
         /\ \A i \in 1 .. Len(said) : said[i].kind \in Kept => said[i] \in Elements(wire')
<1> DEFINE h == [id |-> 0, kind |-> "replay", by |-> Nobody, sid |-> Me, target |-> 0,
                 arg |-> Len(kept)]
<1>1. h \in Frame /\ h.id = 0 /\ h.kind = "replay"
  BY ConversationAssumption DEF Frame, TypeOK
<1>2. \A f \in Elements(kept) : f.id > 0
  BY DEF OrderInv, KeptWasSaid, WasSaid, TypeOK
<1>3. wire' = <<h>> \o kept /\ UNCHANGED <<said, kept>>
  BY DEF Connect, WholeRoom, server
<1> HIDE DEF h
<1>4. Elements(wire') = {h} \cup Elements(kept)
  BY <1>1, <1>2, <1>3, SortedReplay DEF TypeOK, OrderInv, QueuesInOrder
<1>5. \A i \in 1 .. Len(said) : said[i].kind \in Kept => said[i] \in Elements(wire')
  BY <1>4 DEF KeepInv
<1>6. Elements(wire)' = Elements(wire') /\ Elements(kept)' = Elements(kept)
      /\ \A i : OnWire(i)' <=> said[i] \in Elements(wire')
  BY <1>3 DEF Elements, OnWire
<1> QED BY <1>3, <1>5, <1>6 DEF KeepInv

\* Of some kept frames the latest counts as handled after a step of the reader if
\* it did before, or was just taken.
LEMMA SettledTake ==
  ASSUME TypeOK, OrderInv, KeepInv, conn, wire # <<>>, Take, UNCHANGED <<said, kept, conn>>,
         NEW J \in SUBSET (1 .. Len(said)), J # {}, \A j \in J : said[j].kind \in Kept,
         said[Newest(J)] \notin Elements(wire')
  PROVE  IF Head(wire).id \in J THEN Newest(J) = Head(wire).id ELSE ~OnWire(Newest(J))
<1> DEFINE m == Newest(J)
<1>1. m \in J /\ \A y \in J : y <= m
  <2>1. Len(said) \in Nat
    BY DEF TypeOK
  <2> QED BY <2>1, NewestIs
<1> HIDE DEF m
<1>2. m \in 1 .. Len(said) /\ said[m].kind \in Kept
  BY <1>1
<1>3. CASE Head(wire).id \in J
  <2>1. Head(wire).id <= m /\ Head(wire).id \in 1 .. Len(said)
    BY <1>1, <1>3
  <2>2. ~(Head(wire).id < m)
    BY <1>2, KeepTake DEF m
  <2> QED BY <1>2, <1>3, <2>1, <2>2 DEF m
<1>4. CASE Head(wire).id \notin J
  <2>1. m # Head(wire).id
    BY <1>1, <1>4
  <2> QED BY <1>2, <1>4, <2>1, KeepTake DEF m
<1> QED BY <1>3, <1>4

\* How the changes of a message grow.
LEMMA ChangesGrow ==
  ASSUME TypeOK, NEW f \in Frame, f.id = Len(said) + 1, said' = Append(said, f),
         NEW i \in 1 .. Len(said), NEW kind \in {"edit", "delete"}
  PROVE  /\ Changes(i, kind) \subseteq 1 .. Len(said)
         /\ Changes(i, kind)' = Changes(i, kind) \cup
              (IF f.kind = kind /\ f.target = i /\ SentBy(i, f) THEN {f.id} ELSE {})
<1>1. /\ Len(said) \in Nat /\ Len(said') = Len(said) + 1 /\ said'[Len(said) + 1] = f
      /\ \A k \in 1 .. Len(said) : said'[k] = said[k]
  BY AppendProperties DEF TypeOK
<1>2. 1 .. Len(said') = 1 .. Len(said) \cup {Len(said) + 1}
  BY <1>1
<1>3. \A g : SentBy(i, g)' <=> IF said[i].by # Nobody THEN g.by = said[i].by ELSE g.sid = said[i].sid
  BY <1>1 DEF SentBy
<1>4. Changes(i, kind) \subseteq 1 .. Len(said)
  BY DEF Changes
<1>5. Changes(i, kind)' = {j \in 1 .. Len(said') : said'[j].kind = kind /\ said'[j].target = i
                             /\ IF said[i].by # Nobody THEN said'[j].by = said[i].by
                                                       ELSE said'[j].sid = said[i].sid}
  BY <1>1 DEF Changes, SentBy
<1>6. Changes(i, kind) = {j \in 1 .. Len(said) : said[j].kind = kind /\ said[j].target = i
                             /\ IF said[i].by # Nobody THEN said[j].by = said[i].by
                                                       ELSE said[j].sid = said[i].sid}
  BY DEF Changes, SentBy
<1> QED BY <1>1, <1>2, <1>4, <1>5, <1>6 DEF SentBy

\* What LogWhole says in the next state.
LEMMA LogWholeNext ==
  ASSUME \A e \in log' :
           /\ said'[e.id].kind # "fleeting"
           /\ Changes(e.id, "edit")' = {} => e.data = 0
           /\ conn' /\ Changes(e.id, "edit")' # {}
                  /\ said'[Newest(Changes(e.id, "edit")')] \notin Elements(wire') =>
                e.data = said'[Newest(Changes(e.id, "edit")')].arg
           /\ conn' /\ Changes(e.id, "delete")' # {} =>
                \E j \in Changes(e.id, "delete")' : said'[j] \in Elements(wire'),
         \A i \in seenMIDs' : i \in Surviving' => i \in LogIds'
  PROVE  LogWhole'
BY DEF LogWhole, Settled, OnWire, Newest, Elements

LEMMA LogWholeTaken ==
  ASSUME WholeRoom, TypeOK, OrderInv, GoneInv, SaidInv, KeepInv, LogWhole, Room
  PROVE  LogWhole'
<1>1. PICK f \in Frame : KeptWhole(f)
  BY WholeRoomStep
<1>2. /\ Len(said) \in Nat /\ Len(said') = Len(said) + 1 /\ said'[Len(said) + 1] = f
      /\ \A i \in 1 .. Len(said) : said'[i] = said[i]
      /\ f.id = Len(said) + 1 /\ said' = Append(said, f)
      /\ UNCHANGED <<conn, log, seenMIDs>>
  BY <1>1, AfterTaken DEF KeptWhole, Taken, memory
<1>3. /\ \A i \in 1 .. Len(said) : said[i] \in Elements(wire') <=> OnWire(i)
      /\ conn => f \in Elements(wire')
  BY <1>1, AfterKept
<1>4. seenMIDs \subseteq ContentIds /\ ContentIds \subseteq 1 .. Len(said)
  BY DEF OrderInv, SeenIsShown, ContentIds
<1>5. \A e \in log : e.id \in 1 .. Len(said)
  BY <1>4 DEF GoneInv, LogIds
<1>6. ASSUME NEW e \in log
      PROVE  /\ said'[e.id].kind # "fleeting"
             /\ Changes(e.id, "edit")' = {} => e.data = 0
             /\ conn' /\ Changes(e.id, "edit")' # {}
                    /\ said'[Newest(Changes(e.id, "edit")')] \notin Elements(wire') =>
                  e.data = said'[Newest(Changes(e.id, "edit")')].arg
             /\ conn' /\ Changes(e.id, "delete")' # {} =>
                  \E j \in Changes(e.id, "delete")' : said'[j] \in Elements(wire')
  <2> DEFINE J == Changes(e.id, "edit")
             K == Changes(e.id, "delete")
             J1 == Changes(e.id, "edit")'
             K1 == Changes(e.id, "delete")'
  <2>1. e.id \in 1 .. Len(said)
    BY <1>5
  <2>2. J \subseteq 1 .. Len(said) /\ (J1 = J \/ J1 = J \cup {f.id})
    BY <1>2, <2>1, ChangesGrow
  <2>3. K \subseteq 1 .. Len(said) /\ (K1 = K \/ K1 = K \cup {f.id})
    BY <1>2, <2>1, ChangesGrow
  <2>4. /\ said[e.id].kind # "fleeting"
        /\ J = {} => e.data = 0
        /\ conn /\ J # {} /\ ~OnWire(Newest(J)) => e.data = said[Newest(J)].arg
        /\ conn /\ K # {} => \E j \in K : OnWire(j)
    BY DEF LogWhole, Settled
  <2> HIDE DEF J, K, J1, K1
  <2>5. said'[e.id].kind # "fleeting"
    BY <1>2, <2>1, <2>4
  <2>6. J1 = {} => e.data = 0
    BY <2>2, <2>4
  <2>7. conn /\ J1 # {} /\ said'[Newest(J1)] \notin Elements(wire') => e.data = said'[Newest(J1)].arg
    <3> SUFFICES ASSUME conn, J1 # {}, said'[Newest(J1)] \notin Elements(wire')
                 PROVE  e.data = said'[Newest(J1)].arg
      OBVIOUS
    <3>1. CASE J1 = J
      <4>1. Newest(J) \in 1 .. Len(said)
        BY <1>2, <2>2, <3>1, NewestIs
      <4> QED BY <1>2, <1>3, <2>4, <3>1, <4>1
    <3>2. CASE J1 = J \cup {f.id}
      <4>1. J1 \in SUBSET (1 .. Len(said')) /\ f.id \in J1 /\ \A y \in J1 : y <= f.id
        <5>1. /\ 1 .. Len(said) \subseteq 1 .. Len(said') /\ f.id \in 1 .. Len(said')
              /\ f.id <= f.id /\ \A y \in 1 .. Len(said) : y <= f.id
          BY <1>2
        <5> QED BY <2>2, <3>2, <5>1
      <4>2. Newest(J1) = f.id
        <5>1. Len(said') \in Nat
          BY <1>2
        <5> QED BY <4>1, <5>1, NewestIsLast
      <4> QED BY <1>2, <1>3, <4>2
    <3> QED BY <2>2, <3>1, <3>2
  <2>8. conn /\ K1 # {} => \E j \in K1 : said'[j] \in Elements(wire')
    <3> SUFFICES ASSUME conn, K1 # {} PROVE \E j \in K1 : said'[j] \in Elements(wire')
      OBVIOUS
    <3>1. CASE K1 = K
      <4>1. PICK j \in K : OnWire(j)
        BY <2>4, <3>1
      <4>2. j \in 1 .. Len(said)
        BY <2>3
      <4> QED BY <1>2, <1>3, <3>1, <4>1, <4>2
    <3>2. CASE K1 = K \cup {f.id}
      BY <1>2, <1>3, <3>2
    <3> QED BY <2>3, <3>1, <3>2
  <2> QED BY <1>2, <2>5, <2>6, <2>7, <2>8 DEF J1, K1
<1>7. \A i \in seenMIDs' : i \in Surviving' => i \in LogIds'
  <2> SUFFICES ASSUME NEW i \in seenMIDs, i \in Surviving' PROVE i \in LogIds
    BY <1>2 DEF LogIds
  <2>1. i \in ContentIds /\ i \in 1 .. Len(said)
    BY <1>4
  <2>2. Changes(i, "delete") \subseteq Changes(i, "delete")'
    BY <1>2, <2>1, ChangesGrow
  <2>3. i \in Surviving
    BY <1>2, <2>1, <2>2 DEF Surviving
  <2> QED BY <2>3 DEF LogWhole
<1> QED BY <1>2, <1>6, <1>7, LogWholeNext

\* Steps that change neither the log nor what was seen and said.
LEMMA LogWholeStays ==
  ASSUME TypeOK, OrderInv, GoneInv, KeepInv, LogWhole, UNCHANGED <<said, log, seenMIDs>>,
         \/ ~conn'
         \/ conn /\ conn' /\ wire' = wire
         \/ \A i \in 1 .. Len(said) : said[i].kind \in Kept => said[i] \in Elements(wire')
         \/ /\ conn /\ conn' /\ wire # <<>> /\ Take /\ UNCHANGED kept
            /\ Head(wire).kind \notin {"edit", "delete"}
  PROVE  LogWhole'
<1>1. \A i, k : Changes(i, k)' = Changes(i, k)
  BY DEF Changes, SentBy
<1>2. Surviving' = Surviving /\ LogIds' = LogIds
  BY <1>1 DEF Surviving, ContentIds, LogIds
<1>3. Len(said) \in Nat
  BY DEF TypeOK
<1>4. ASSUME NEW e \in log
      PROVE  /\ said[e.id].kind # "fleeting"
             /\ Changes(e.id, "edit") = {} => e.data = 0
             /\ conn' /\ Changes(e.id, "edit") # {}
                    /\ said[Newest(Changes(e.id, "edit"))] \notin Elements(wire') =>
                  e.data = said[Newest(Changes(e.id, "edit"))].arg
             /\ conn' /\ Changes(e.id, "delete") # {} =>
                  \E j \in Changes(e.id, "delete") : said[j] \in Elements(wire')
  <2> DEFINE J == Changes(e.id, "edit")
             K == Changes(e.id, "delete")
  <2>1. /\ said[e.id].kind # "fleeting"
        /\ J = {} => e.data = 0
        /\ conn /\ J # {} /\ ~OnWire(Newest(J)) => e.data = said[Newest(J)].arg
        /\ conn /\ K # {} => \E j \in K : OnWire(j)
    BY DEF LogWhole, Settled
  <2>2. /\ J \in SUBSET (1 .. Len(said)) /\ \A j \in J : said[j].kind = "edit"
        /\ K \in SUBSET (1 .. Len(said)) /\ \A j \in K : said[j].kind = "delete"
    BY DEF Changes
  <2> HIDE DEF J, K
  <2>3. CASE ~conn'
    BY <2>1, <2>3 DEF J, K
  <2>4. CASE conn /\ conn' /\ wire' = wire
    BY <2>1, <2>4 DEF OnWire, J, K
  <2>5. CASE \A i \in 1 .. Len(said) : said[i].kind \in Kept => said[i] \in Elements(wire')
    <3>1. J # {} => said[Newest(J)] \in Elements(wire')
      BY <1>3, <2>2, <2>5, NewestIs
    <3>2. K # {} => \E j \in K : said[j] \in Elements(wire')
      BY <2>2, <2>5
    <3> QED BY <2>1, <3>1, <3>2 DEF J, K
  <2>6. CASE /\ conn /\ conn' /\ wire # <<>> /\ Take /\ UNCHANGED kept
             /\ Head(wire).kind \notin {"edit", "delete"}
    <3>1. ASSUME Head(wire).id \in 1 .. Len(said)
          PROVE  Head(wire).id \notin J \cup K
      <4>1. Head(wire) \in Elements(wire)
        BY <2>6, SortedTail DEF TypeOK, OrderInv, QueuesInOrder
      <4>2. said[Head(wire).id] = Head(wire)
        BY <3>1, <4>1 DEF OrderInv, WireWasSaid, WasSaid
      <4> QED BY <2>2, <2>6, <4>2
    <3>2. Head(wire).id \notin J \cup K
      BY <2>2, <3>1
    <3>3. J # {} /\ said[Newest(J)] \notin Elements(wire') => ~OnWire(Newest(J))
      BY <2>2, <2>6, <3>2, SettledTake
    <3>4. \A j \in K : OnWire(j) => said[j] \in Elements(wire')
      BY <2>2, <2>6, <3>2, KeepTake
    <3> QED BY <2>1, <2>6, <3>3, <3>4 DEF J, K
  <2> QED BY <2>3, <2>4, <2>5, <2>6
<1>5. \A i \in seenMIDs' : i \in Surviving' => i \in LogIds'
  BY <1>2 DEF LogWhole
<1> QED BY <1>1, <1>4, <1>5, LogWholeNext

\* The reader takes an edit: the message it changes has the text of its latest
\* edit, unless a later one is on its way.
LEMMA LogWholeEdit ==
  ASSUME TypeOK, OrderInv, GoneInv, KeepInv, AuthorInv, LogWhole, ReceiveEdit
  PROVE  LogWhole'
<1> DEFINE h == Head(wire)
           hit(e) == e.id = h.target /\ SameSender(e, h)
           new(e) == IF hit(e) THEN [e EXCEPT !.data = h.arg] ELSE e
<1>1. /\ conn /\ wire # <<>> /\ h.kind = "edit" /\ Take /\ log' = {new(e) : e \in log}
      /\ UNCHANGED <<said, kept, conn, seenMIDs>>
  BY DEF ReceiveEdit, Incoming, server
<1>2. WasSaid(h) /\ h.id \in 1 .. Len(said) /\ said[h.id] = h
  BY <1>1, AfterTake DEF ReceiveEdit, WasSaid
<1>3. \A i, k : Changes(i, k)' = Changes(i, k)
  BY <1>1 DEF Changes, SentBy
<1>4. \A e \in log : new(e).id = e.id /\ (hit(e) => new(e).data = h.arg) /\ (~hit(e) => new(e) = e)
  BY DEF TypeOK, Entry
<1> HIDE DEF new
<1>5. LogIds' = LogIds /\ Surviving' = Surviving
  BY <1>1, <1>3, <1>4 DEF LogIds, Surviving, ContentIds
<1>6. ASSUME NEW d \in log
      PROVE  LET e == new(d)
             IN  /\ said[e.id].kind # "fleeting"
                 /\ Changes(e.id, "edit") = {} => e.data = 0
                 /\ conn' /\ Changes(e.id, "edit") # {}
                        /\ said[Newest(Changes(e.id, "edit"))] \notin Elements(wire') =>
                      e.data = said[Newest(Changes(e.id, "edit"))].arg
                 /\ conn' /\ Changes(e.id, "delete") # {} =>
                      \E j \in Changes(e.id, "delete") : said[j] \in Elements(wire')
  <2> DEFINE J == Changes(d.id, "edit")
             K == Changes(d.id, "delete")
  <2>1. /\ said[d.id].kind # "fleeting"
        /\ J = {} => d.data = 0
        /\ conn /\ J # {} /\ ~OnWire(Newest(J)) => d.data = said[Newest(J)].arg
        /\ conn /\ K # {} => \E j \in K : OnWire(j)
    BY DEF LogWhole, Settled
  <2>2. /\ J \in SUBSET (1 .. Len(said)) /\ \A j \in J : said[j].kind = "edit"
        /\ K \in SUBSET (1 .. Len(said)) /\ \A j \in K : said[j].kind = "delete"
    BY DEF Changes
  <2>3. h.id \in J <=> hit(d)
    BY <1>1, <1>2 DEF Changes, SentBy, SameSender
  <2>4. h.id \notin K
    BY <1>1, <1>2, <2>2
  <2> HIDE DEF J, K, h, hit
  <2>5. J # {} /\ said[Newest(J)] \notin Elements(wire') =>
          IF h.id \in J THEN Newest(J) = h.id ELSE ~OnWire(Newest(J))
    BY <1>1, <2>2, SettledTake DEF h
  <2>6. \A j \in K : OnWire(j) => said[j] \in Elements(wire')
    BY <1>1, <2>2, <2>4, KeepTake DEF h
  <2>7. new(d).id = d.id /\ (hit(d) => new(d).data = h.arg) /\ (~hit(d) => new(d) = d)
    BY <1>4
  <2>8. J # {} /\ said[Newest(J)] \notin Elements(wire') => new(d).data = said[Newest(J)].arg
    BY <1>1, <1>2, <2>1, <2>3, <2>5, <2>7
  <2>9. J = {} => new(d).data = 0
    BY <2>1, <2>3, <2>7
  <2> QED BY <1>1, <2>1, <2>6, <2>7, <2>8, <2>9 DEF J, K
<1>7. \A e \in log' : \E d \in log : e = new(d)
  BY <1>1
<1>8. \A i \in seenMIDs' : i \in Surviving' => i \in LogIds'
  BY <1>1, <1>5 DEF LogWhole
<1>9. \A e \in log' :
         /\ said[e.id].kind # "fleeting"
         /\ Changes(e.id, "edit") = {} => e.data = 0
         /\ conn' /\ Changes(e.id, "edit") # {}
                /\ said[Newest(Changes(e.id, "edit"))] \notin Elements(wire') =>
              e.data = said[Newest(Changes(e.id, "edit"))].arg
         /\ conn' /\ Changes(e.id, "delete") # {} =>
              \E j \in Changes(e.id, "delete") : said[j] \in Elements(wire')
  BY <1>6, <1>7
<1> QED BY <1>1, <1>3, <1>8, <1>9, LogWholeNext

\* The reader takes a delete: what it removes does not survive.
LEMMA LogWholeDelete ==
  ASSUME TypeOK, OrderInv, GoneInv, KeepInv, LogWhole, ReceiveDelete
  PROVE  LogWhole'
<1> DEFINE h == Head(wire)
           hit(e) == e.id = h.target /\ SameSender(e, h)
<1>1. /\ conn /\ wire # <<>> /\ h.kind = "delete" /\ Take /\ log' = log \ {e \in log : hit(e)}
      /\ UNCHANGED <<said, kept, conn, seenMIDs>>
  BY DEF ReceiveDelete, Incoming, server
<1>2. WasSaid(h) /\ h.id \in 1 .. Len(said) /\ said[h.id] = h
  BY <1>1, AfterTake DEF ReceiveDelete, WasSaid
<1>3. \A i, k : Changes(i, k)' = Changes(i, k)
  BY <1>1 DEF Changes, SentBy
<1>4. Surviving' = Surviving
  BY <1>1, <1>3 DEF Surviving, ContentIds
<1>5. \A e \in log : h.id \in Changes(e.id, "delete") <=> hit(e)
  BY <1>1, <1>2 DEF Changes, SentBy, SameSender
<1>6. ASSUME NEW e \in log, ~hit(e)
      PROVE  /\ said[e.id].kind # "fleeting"
             /\ Changes(e.id, "edit") = {} => e.data = 0
             /\ conn' /\ Changes(e.id, "edit") # {}
                    /\ said[Newest(Changes(e.id, "edit"))] \notin Elements(wire') =>
                  e.data = said[Newest(Changes(e.id, "edit"))].arg
             /\ conn' /\ Changes(e.id, "delete") # {} =>
                  \E j \in Changes(e.id, "delete") : said[j] \in Elements(wire')
  <2> DEFINE J == Changes(e.id, "edit")
             K == Changes(e.id, "delete")
  <2>1. /\ said[e.id].kind # "fleeting"
        /\ J = {} => e.data = 0
        /\ conn /\ J # {} /\ ~OnWire(Newest(J)) => e.data = said[Newest(J)].arg
        /\ conn /\ K # {} => \E j \in K : OnWire(j)
    BY DEF LogWhole, Settled
  <2>2. /\ J \in SUBSET (1 .. Len(said)) /\ \A j \in J : said[j].kind = "edit"
        /\ K \in SUBSET (1 .. Len(said)) /\ \A j \in K : said[j].kind = "delete"
    BY DEF Changes
  <2>3. h.id \notin J /\ h.id \notin K
    BY <1>1, <1>2, <1>5, <1>6, <2>2
  <2> HIDE DEF J, K, h, hit
  <2>4. J # {} /\ said[Newest(J)] \notin Elements(wire') => ~OnWire(Newest(J))
    BY <1>1, <2>2, <2>3, SettledTake DEF h
  <2>5. \A j \in K : OnWire(j) => said[j] \in Elements(wire')
    BY <1>1, <2>2, <2>3, KeepTake DEF h
  <2> QED BY <1>1, <2>1, <2>4, <2>5 DEF J, K
<1>7. \A e \in log' : e \in log /\ ~hit(e)
  BY <1>1
<1>8. \A i \in seenMIDs' : i \in Surviving' => i \in LogIds'
  <2> SUFFICES ASSUME NEW i \in seenMIDs, i \in Surviving PROVE i \in LogIds'
    BY <1>1, <1>4
  <2>1. PICK e \in log : e.id = i
    BY DEF LogWhole, LogIds
  <2>2. Changes(e.id, "delete") = {}
    BY <2>1 DEF Surviving
  <2>3. e \in log'
    BY <1>1, <1>5, <2>2
  <2> QED BY <2>1, <2>3 DEF LogIds
<1>9. \A e \in log' :
         /\ said[e.id].kind # "fleeting"
         /\ Changes(e.id, "edit") = {} => e.data = 0
         /\ conn' /\ Changes(e.id, "edit") # {}
                /\ said[Newest(Changes(e.id, "edit"))] \notin Elements(wire') =>
              e.data = said[Newest(Changes(e.id, "edit"))].arg
         /\ conn' /\ Changes(e.id, "delete") # {} =>
              \E j \in Changes(e.id, "delete") : said[j] \in Elements(wire')
  BY <1>6, <1>7
<1> QED BY <1>1, <1>3, <1>8, <1>9, LogWholeNext

\* A log that need not forget keeps every entry.
LEMMA NewestAll ==
  ASSUME NEW E, NEW n \in Nat, n <= HistoryMax, \A e \in E : e.id \in 1 .. n,
         \A d, e \in E : d.id = e.id => d = e
  PROVE  NewestOf(E) = E
<1> DEFINE F == [e \in E |-> e.id]
<1>1. IsFiniteSet(1 .. n) /\ Cardinality(1 .. n) = n
  <2>1. 1 \in Int /\ n \in Int /\ (IF 1 > n THEN 0 ELSE n - 1 + 1) = n
    OBVIOUS
  <2> QED BY <2>1, FS_Interval
<1>2. F \in Injection(E, 1 .. n)
  BY DEF Injection, IsInjective
<1> HIDE DEF F
<1>3. IsFiniteSet(E) /\ Cardinality(E) <= n
  BY <1>1, <1>2, FS_Injection
<1>4. ASSUME NEW e \in E
      PROVE  Cardinality({d \in E : d.id > e.id}) < HistoryMax
  <2> DEFINE A == {d \in E : d.id > e.id}
             B == E \ {e}
  <2>1. A \in SUBSET B
    BY <1>4
  <2> HIDE DEF A, B
  <2>2. IsFiniteSet(B) /\ Cardinality(B) = Cardinality(E) - 1
    BY <1>3, <1>4, FS_RemoveElement DEF B
  <2>3. IsFiniteSet(A) /\ Cardinality(A) <= Cardinality(B)
    BY <2>1, <2>2, FS_Subset
  <2>4. Cardinality(A) \in Nat /\ Cardinality(B) \in Nat /\ Cardinality(E) \in Nat
    BY <1>3, <2>2, <2>3, FS_CardinalityType
  <2>5. Cardinality(A) < HistoryMax
    BY <1>3, <2>2, <2>3, <2>4, ConversationAssumption
  <2> QED BY <2>5 DEF A
<1> QED BY <1>4 DEF NewestOf

\* The reader is shown a message: all that changes it is still on its way.
LEMMA LogWholeShow ==
  ASSUME WholeRoom, TypeOK, OrderInv, GoneInv, SaidInv, KeepInv, LogWhole,
         conn, wire # <<>>, IsNew(Head(wire)), Show(Head(wire))
  PROVE  LogWhole'
<1> DEFINE h == Head(wire)
           new == [id |-> h.id, data |-> 0]
           E == log \cup {new}
<1>1. /\ seenMIDs' = seenMIDs \cup {h.id} /\ h.id \notin seenMIDs /\ Take
      /\ UNCHANGED <<said, kept, conn>>
      /\ log' = IF h.kind # "fleeting" THEN NewestOf(E) ELSE log
  BY DEF Show, Remember, Remembered, server, IsNew, WholeRoom
<1>2. h \in Elements(wire) /\ h.kind \in Content
  BY SortedTail DEF TypeOK, OrderInv, QueuesInOrder, IsNew
<1>3. h.id \in 1 .. Len(said) /\ said[h.id] = h
  BY <1>2 DEF OrderInv, WireWasSaid, WasSaid, Content
<1>4. Len(said) \in Nat /\ Len(said) <= HistoryMax
  BY ConversationAssumption DEF TypeOK, SaidInv, WholeRoom
<1>5. LogIds \subseteq seenMIDs /\ seenMIDs \subseteq 1 .. Len(said)
  BY DEF GoneInv, OrderInv, SeenIsShown, ContentIds
<1>6. \A e \in log : e.id \in seenMIDs /\ e.id \in 1 .. Len(said)
  BY <1>5 DEF LogIds
<1>7. new.id = h.id /\ new.data = 0
  OBVIOUS
<1> HIDE DEF new
<1>8. NewestOf(E) = E
  <2>1. \A e \in E : e.id \in 1 .. Len(said)
    BY <1>3, <1>6, <1>7
  <2>2. \A d, e \in E : d.id = e.id => d = e
    BY <1>1, <1>6, <1>7 DEF GoneInv
  <2> HIDE DEF E
  <2> QED BY <1>4, <2>1, <2>2, NewestAll
<1>9. \A i, k : Changes(i, k)' = Changes(i, k)
  BY <1>1 DEF Changes, SentBy
<1>10. Surviving' = Surviving
  BY <1>1, <1>9 DEF Surviving, ContentIds
<1>11. ASSUME NEW e \in log
       PROVE  /\ said[e.id].kind # "fleeting"
              /\ Changes(e.id, "edit") = {} => e.data = 0
              /\ conn' /\ Changes(e.id, "edit") # {}
                     /\ said[Newest(Changes(e.id, "edit"))] \notin Elements(wire') =>
                   e.data = said[Newest(Changes(e.id, "edit"))].arg
              /\ conn' /\ Changes(e.id, "delete") # {} =>
                   \E j \in Changes(e.id, "delete") : said[j] \in Elements(wire')
  <2> DEFINE J == Changes(e.id, "edit")
             K == Changes(e.id, "delete")
  <2>1. /\ said[e.id].kind # "fleeting"
        /\ J = {} => e.data = 0
        /\ conn /\ J # {} /\ ~OnWire(Newest(J)) => e.data = said[Newest(J)].arg
        /\ conn /\ K # {} => \E j \in K : OnWire(j)
    BY DEF LogWhole, Settled
  <2>2. /\ J \in SUBSET (1 .. Len(said)) /\ \A j \in J : said[j].kind = "edit"
        /\ K \in SUBSET (1 .. Len(said)) /\ \A j \in K : said[j].kind = "delete"
    BY DEF Changes
  <2>3. h.id \notin J /\ h.id \notin K
    BY <1>2, <1>3, <2>2 DEF Content
  <2> HIDE DEF J, K, h
  <2>4. J # {} /\ said[Newest(J)] \notin Elements(wire') => ~OnWire(Newest(J))
    BY <1>1, <2>2, <2>3, SettledTake DEF h
  <2>5. \A j \in K : OnWire(j) => said[j] \in Elements(wire')
    BY <1>1, <2>2, <2>3, KeepTake DEF h
  <2> QED BY <1>1, <2>1, <2>4, <2>5 DEF J, K
<1>12. ASSUME NEW kind \in {"edit", "delete"}, NEW j \in Changes(h.id, kind)
       PROVE  said[j] \in Elements(wire')
  <2>1. j \in 1 .. Len(said) /\ said[j].kind = kind /\ said[j].target = h.id
    BY <1>12 DEF Changes
  <2>2. h.id < j
    BY <2>1 DEF SaidInv, Quiet
  <2>3. said[j].kind \in Kept
    BY <2>1 DEF Kept, Quiet
  <2> QED BY <1>1, <2>1, <2>2, <2>3, KeepTake
<1>13. ASSUME h.kind # "fleeting"
       PROVE  /\ said[h.id].kind # "fleeting"
              /\ conn' /\ Changes(h.id, "edit") # {}
                     /\ said[Newest(Changes(h.id, "edit"))] \notin Elements(wire') => FALSE
              /\ conn' /\ Changes(h.id, "delete") # {} =>
                   \E j \in Changes(h.id, "delete") : said[j] \in Elements(wire')
  <2>1. Changes(h.id, "edit") \in SUBSET (1 .. Len(said))
    BY DEF Changes
  <2>2. Changes(h.id, "edit") # {} => Newest(Changes(h.id, "edit")) \in Changes(h.id, "edit")
    BY <1>4, <2>1, NewestIs
  <2> QED BY <1>3, <1>12, <1>13, <2>2
<1>14. \A e \in log' : e \in log \/ (h.kind # "fleeting" /\ e = new)
  BY <1>1, <1>8
<1>15. \A e \in log' :
         /\ said'[e.id].kind # "fleeting"
         /\ Changes(e.id, "edit") = {} => e.data = 0
         /\ conn' /\ Changes(e.id, "edit") # {}
                /\ said[Newest(Changes(e.id, "edit"))] \notin Elements(wire') =>
              e.data = said[Newest(Changes(e.id, "edit"))].arg
         /\ conn' /\ Changes(e.id, "delete") # {} =>
              \E j \in Changes(e.id, "delete") : said[j] \in Elements(wire')
  <2> TAKE e \in log'
  <2>1. CASE e \in log
    BY <1>1, <1>11, <2>1
  <2>2. CASE h.kind # "fleeting" /\ e = new
    <3>1. e.id = h.id /\ e.data = 0
      BY <1>7, <2>2
    <3> HIDE DEF h, new
    <3> QED BY <1>1, <1>13, <2>2, <3>1
  <2> QED BY <1>14, <2>1, <2>2
<1>16. \A i \in seenMIDs' : i \in Surviving' => i \in LogIds'
  <2> SUFFICES ASSUME NEW i \in seenMIDs', i \in Surviving PROVE i \in LogIds'
    BY <1>10
  <2>1. CASE i \in seenMIDs
    BY <1>1, <1>8, <2>1 DEF LogWhole, LogIds
  <2>2. CASE i = h.id
    <3>1. log' = E
      BY <1>1, <1>3, <1>8, <2>2 DEF Surviving
    <3> QED BY <1>7, <2>2, <3>1 DEF LogIds
  <2> QED BY <1>1, <2>1, <2>2
<1> QED BY <1>1, <1>9, <1>15, <1>16, LogWholeNext

LEMMA WholeStep ==
  ASSUME WholeRoom, TypeOK, OrderInv, GoneInv, AuthorInv, SaidInv, KeepInv, LogWhole,
         [Next]_vars
  PROVE  SaidInv' /\ KeepInv' /\ LogWhole'
<1>1. ASSUME UNCHANGED said PROVE SaidInv'
  BY <1>1 DEF SaidInv
<1>2. ASSUME UNCHANGED <<said, kept, wire, conn, log, seenMIDs>>
      PROVE  SaidInv' /\ KeepInv' /\ LogWhole'
  <2>1. KeepInv'
    BY <1>2 DEF KeepInv, Elements, OnWire
  <2>2. LogWhole'
    <3>1. ~conn' \/ (conn /\ conn' /\ wire' = wire)
      BY <1>2
    <3> QED BY <1>2, <3>1, LogWholeStays
  <2> QED BY <1>1, <1>2, <2>1, <2>2
<1>3. CASE Room
  <2>1. PICK f \in Frame : KeptWhole(f)
    BY <1>3, WholeRoomStep
  <2>2. SaidInv' /\ KeepInv'
    BY <2>1, AfterKept
  <2> QED BY <1>3, <2>2, LogWholeTaken
<1>4. CASE Connect
  <2>1. UNCHANGED <<said, log, seenMIDs>>
    BY <1>4 DEF Connect, server, memory
  <2>2. KeepInv' /\ \A i \in 1 .. Len(said) : said[i].kind \in Kept => said[i] \in Elements(wire')
    BY <1>4, KeepConnect
  <2> QED BY <1>1, <2>1, <2>2, LogWholeStays
<1>5. CASE Drop
  <2>1. conn' = FALSE /\ UNCHANGED <<said, kept, log, seenMIDs>>
    BY <1>5 DEF Drop, server, memory
  <2>2. KeepInv'
    BY <2>1 DEF KeepInv, Elements
  <2> QED BY <1>1, <2>1, <2>2, LogWholeStays
<1>6. ~ServerRestart
  BY DEF ServerRestart, TypeOK, WholeRoom
<1>7. ASSUME NEW kinds, Incoming(kinds), Take, UNCHANGED <<said, kept, conn>>
      PROVE  SaidInv' /\ KeepInv'
  <2>1. conn /\ wire # <<>>
    BY <1>7 DEF Incoming
  <2> QED BY <1>1, <1>7, <2>1, KeepTake
<1>8. ASSUME NEW kinds, Incoming(kinds), Take, UNCHANGED <<said, kept, conn, log, seenMIDs>>,
             kinds \cap {"edit", "delete"} = {}
      PROVE  SaidInv' /\ KeepInv' /\ LogWhole'
  <2>1. conn /\ conn' /\ wire # <<>> /\ Head(wire).kind \notin {"edit", "delete"}
    BY <1>8 DEF Incoming
  <2>2. LogWhole'
    BY <1>8, <2>1, LogWholeStays
  <2> QED BY <1>7, <1>8, <2>2
<1>9. CASE ReceiveReplay
  BY <1>8, <1>9 DEF ReceiveReplay, server, memory
<1>10. CASE ReceiveCleared
  BY <1>8, <1>10 DEF ReceiveCleared, server
<1>11. CASE ReceiveSealed
  BY <1>8, <1>11 DEF ReceiveSealed, server, memory
<1>12. CASE ReceiveAside
  BY <1>8, <1>12 DEF ReceiveAside, server, memory
<1>13. CASE ReceiveVote
  BY <1>8, <1>13 DEF ReceiveVote, server, memory
<1>14. CASE ReceiveRepeat
  BY <1>8, <1>14 DEF ReceiveRepeat, server, memory, Content
<1>15. ~ReceiveNuke
  <2> SUFFICES ASSUME ReceiveNuke PROVE FALSE
    OBVIOUS
  <2>1. Head(wire).kind = "nuke" /\ WasSaid(Head(wire))
    BY AfterTake DEF ReceiveNuke
  <2> QED BY <2>1 DEF WasSaid, SaidInv, WholeRoom
<1>16. CASE ReceiveEdit
  BY <1>7, <1>16, LogWholeEdit DEF ReceiveEdit, server
<1>17. CASE ReceiveDelete
  BY <1>7, <1>17, LogWholeDelete DEF ReceiveDelete, server
<1>18. ASSUME NEW kinds, Incoming(kinds), kinds \subseteq Content, ~Repeated(Head(wire)),
              Show(Head(wire))
       PROVE  SaidInv' /\ KeepInv' /\ LogWhole'
  <2>1. IsNew(Head(wire)) /\ wire # <<>> /\ conn
    BY <1>18 DEF IsNew, Incoming, Repeated
  <2>2. Take /\ UNCHANGED <<said, kept, conn>>
    BY <1>18 DEF Show, server
  <2> QED BY <1>7, <1>18, <2>1, <2>2, LogWholeShow
<1>19. CASE ReceiveText
  BY <1>18, <1>19 DEF ReceiveText, Content
<1>20. CASE ReceiveSpoiler
  BY <1>18, <1>20 DEF ReceiveSpoiler, Content
<1>21. CASE ReceivePoll
  BY <1>18, <1>21 DEF ReceivePoll, Content
<1>22. CASE ReceiveFile
  BY <1>18, <1>22 DEF ReceiveFile, Content
<1>23. CASE TakeDownload \/ (\E i \in Listed : Get(i)) \/ UNCHANGED vars
  BY <1>2, <1>23 DEF TakeDownload, Get, vars, memory, server, link
<1> QED
  BY <1>3, <1>4, <1>5, <1>6, <1>9, <1>10, <1>11, <1>12, <1>13, <1>14, <1>15, <1>16, <1>17,
     <1>19, <1>20, <1>21, <1>22, <1>23
  DEF Next, Receive

LEMMA WholeInit == Init => SaidInv /\ KeepInv /\ LogWhole
<1> SUFFICES ASSUME Init PROVE SaidInv /\ KeepInv /\ LogWhole
  OBVIOUS
<1>1. said = <<>> /\ kept = <<>> /\ conn = FALSE /\ log = {} /\ seenMIDs = {}
      /\ Len(said) = 0 /\ Len(kept) = 0
  BY DEF Init
<1>2. 1 .. Len(said) = {}
  BY <1>1
<1>3. SaidInv
  BY <1>1, <1>2, ConversationAssumption DEF SaidInv
<1> QED BY <1>1, <1>2, <1>3 DEF KeepInv, LogWhole

\* With nothing left on the wire all that is said has been seen.
LEMMA AllSeen ==
  ASSUME TypeOK, OrderInv, KeepInv, CaughtUp
  PROVE  seenMIDs = ContentIds /\ \A J : ~OnWire(J)
<1>1. Elements(wire) = {} /\ conn
  BY DEF CaughtUp, Elements
<1>2. ASSUME NEW i \in ContentIds PROVE i \in seenMIDs
  <2>1. i \in 1 .. Len(said) /\ said[i].kind \in Content /\ said[i].id = i
    BY <1>2 DEF ContentIds, OrderInv, Numbered
  <2>2. said[i] \in Elements(kept)
    BY <2>1 DEF KeepInv, Kept
  <2>3. ~IsNew(said[i])
    BY <1>1, <2>2 DEF OrderInv, NewIsOnItsWay
  <2> QED BY <2>1, <2>3 DEF IsNew
<1> QED BY <1>1, <1>2 DEF OnWire, OrderInv, SeenIsShown

\* However often the connection is lost and what is kept is replayed, a reader
\* that has caught up with a room that keeps everything remembers what is left of
\* the conversation in its latest wording (receive, remember, editLog).
THEOREM WholeLogConverges ==
  ASSUME WholeRoom
  PROVE  Spec => []LogConverges
<1>1. TypeOK /\ OrderInv /\ GoneInv /\ AuthorInv /\ (SaidInv /\ KeepInv /\ LogWhole)
        /\ [Next]_vars => (SaidInv /\ KeepInv /\ LogWhole)'
  BY WholeStep
<1>2. ASSUME TypeOK, OrderInv, GoneInv, KeepInv, LogWhole, CaughtUp
      PROVE  log = {[id |-> i, data |-> IF Changes(i, "edit") = {} THEN 0
                                        ELSE said[Newest(Changes(i, "edit"))].arg]
                      : i \in Surviving}
  <2> DEFINE left(i) == [id |-> i, data |-> IF Changes(i, "edit") = {} THEN 0
                                            ELSE said[Newest(Changes(i, "edit"))].arg]
  <2>1. conn /\ seenMIDs = ContentIds /\ \A J : ~OnWire(J)
    BY <1>2, AllSeen DEF CaughtUp
  <2>2. ASSUME NEW e \in log
        PROVE  e.id \in Surviving /\ e = left(e.id)
    <3>1. e.id \in ContentIds /\ said[e.id].kind # "fleeting"
      BY <1>2, <2>1 DEF GoneInv, LogIds, LogWhole
    <3>2. Changes(e.id, "delete") = {}
      BY <1>2, <2>1 DEF LogWhole
    <3>3. e.data = left(e.id).data
      BY <1>2, <2>1 DEF LogWhole, Settled
    <3>4. e = [id |-> e.id, data |-> e.data]
      BY <1>2 DEF TypeOK, Entry
    <3> QED BY <3>1, <3>2, <3>3, <3>4 DEF Surviving
  <2>3. ASSUME NEW i \in Surviving
        PROVE  left(i) \in log
    <3>1. i \in seenMIDs
      BY <2>1 DEF Surviving
    <3>2. PICK e \in log : e.id = i
      BY <1>2, <3>1 DEF LogWhole, LogIds
    <3> QED BY <2>2, <3>2
  <2> HIDE DEF left
  <2>4. log = {left(i) : i \in Surviving}
    BY <2>2, <2>3
  <2> QED BY <2>4 DEF left
<1>3. TypeOK /\ OrderInv /\ GoneInv /\ (SaidInv /\ KeepInv /\ LogWhole) => LogConverges
  BY <1>2 DEF LogConverges
<1> QED
  BY <1>1, <1>3, WholeInit, TypeCorrect, OrderInvariant, GoneInvariance, AuthorInvariance, PTL
  DEF Spec

-------------------------------------------------------------------------------
(* The polls of a room that keeps everything.                              *)

\* How the ballots of a poll grow.
LEMMA BallotsGrow ==
  ASSUME TypeOK, NEW f \in Frame, f.id = Len(said) + 1, said' = Append(said, f),
         NEW i \in Nat, NEW p \in Vouched
  PROVE  /\ Ballots(i, p) \subseteq 1 .. Len(said)
         /\ Ballots(i, p)' = Ballots(i, p) \/ Ballots(i, p)' = Ballots(i, p) \cup {f.id}
<1>1. /\ Len(said) \in Nat /\ Len(said') = Len(said) + 1 /\ said'[Len(said) + 1] = f
      /\ \A k \in 1 .. Len(said) : said'[k] = said[k]
  BY AppendProperties DEF TypeOK
<1>2. 1 .. Len(said') = 1 .. Len(said) \cup {f.id}
  BY <1>1
<1>3. CASE f.kind = "vote" /\ f.by = p /\ f.target = i
  <2>1. Ballots(i, p)' = Ballots(i, p) \cup {f.id}
    BY <1>1, <1>2, <1>3 DEF Ballots
  <2> QED BY <2>1 DEF Ballots
<1>4. CASE ~(f.kind = "vote" /\ f.by = p /\ f.target = i)
  <2>1. Ballots(i, p)' = Ballots(i, p)
    BY <1>1, <1>2, <1>4 DEF Ballots
  <2> QED BY <2>1 DEF Ballots
<1> QED BY <1>3, <1>4

\* What VotesWhole says in the next state.
LEMMA VotesWholeNext ==
  ASSUME polls' = {i \in seenMIDs' : said'[i].kind = "poll"},
         votes' \subseteq [poll : polls', by : Vouched, choice : Choices],
         lastPoll' = IF polls' = {} THEN 0 ELSE Newest(polls'),
         \A v \in votes' : Ballots(v.poll, v.by)' # {},
         \A v \in [poll : polls', by : Vouched, choice : Choices] :
           conn' /\ Ballots(v.poll, v.by)' # {}
               /\ said'[Newest(Ballots(v.poll, v.by)')] \notin Elements(wire') =>
             (v \in votes' <=> said'[Newest(Ballots(v.poll, v.by)')].arg = v.choice)
  PROVE  VotesWhole'
BY DEF VotesWhole, Settled, OnWire, Newest, Elements

\* What the room takes is on its way to a connected reader.
LEMMA VotesWholeTaken ==
  ASSUME WholeRoom, TypeOK, OrderInv, SaidInv, KeepInv, VotesWhole, Room
  PROVE  VotesWhole'
<1>1. PICK f \in Frame : KeptWhole(f)
  BY WholeRoomStep
<1>2. /\ Len(said) \in Nat /\ Len(said') = Len(said) + 1 /\ said'[Len(said) + 1] = f
      /\ \A i \in 1 .. Len(said) : said'[i] = said[i]
      /\ f.id = Len(said) + 1 /\ said' = Append(said, f)
      /\ UNCHANGED <<conn, polls, votes, lastPoll, seenMIDs>>
  BY <1>1, AfterTaken DEF KeptWhole, Taken, polling
<1>3. /\ \A i \in 1 .. Len(said) : said[i] \in Elements(wire') <=> OnWire(i)
      /\ conn => f \in Elements(wire')
  BY <1>1, AfterKept
<1>4. seenMIDs \subseteq 1 .. Len(said)
  BY DEF OrderInv, SeenIsShown, ContentIds
<1>5. polls' = {i \in seenMIDs' : said'[i].kind = "poll"}
  BY <1>2, <1>4 DEF VotesWhole
<1>6. ASSUME NEW v \in [poll : polls, by : Vouched, choice : Choices]
      PROVE  /\ v \in votes => Ballots(v.poll, v.by)' # {}
             /\ conn' /\ Ballots(v.poll, v.by)' # {}
                    /\ said'[Newest(Ballots(v.poll, v.by)')] \notin Elements(wire') =>
                  (v \in votes <=> said'[Newest(Ballots(v.poll, v.by)')].arg = v.choice)
  <2> DEFINE B == Ballots(v.poll, v.by)
             B1 == Ballots(v.poll, v.by)'
  <2>1. B \subseteq 1 .. Len(said) /\ (B1 = B \/ B1 = B \cup {f.id})
    <3>1. v.poll \in Nat /\ v.by \in Vouched
      BY <1>4 DEF TypeOK
    <3> QED BY <1>2, <3>1, BallotsGrow
  <2>2. /\ v \in votes => B # {}
        /\ conn /\ B # {} /\ ~OnWire(Newest(B)) => (v \in votes <=> said[Newest(B)].arg = v.choice)
    BY DEF VotesWhole, Settled
  <2> HIDE DEF B, B1
  <2>3. v \in votes => B1 # {}
    BY <2>1, <2>2
  <2>4. ASSUME conn, B1 # {}, said'[Newest(B1)] \notin Elements(wire')
        PROVE  v \in votes <=> said'[Newest(B1)].arg = v.choice
    <3>1. CASE B1 = B
      <4>1. Newest(B) \in 1 .. Len(said)
        BY <1>2, <2>1, <2>4, <3>1, NewestIs
      <4> QED BY <1>2, <1>3, <2>2, <2>4, <3>1, <4>1
    <3>2. CASE B1 = B \cup {f.id}
      <4>1. B1 \in SUBSET (1 .. Len(said')) /\ f.id \in B1 /\ \A y \in B1 : y <= f.id
        <5>1. /\ 1 .. Len(said) \subseteq 1 .. Len(said') /\ f.id \in 1 .. Len(said')
              /\ f.id <= f.id /\ \A y \in 1 .. Len(said) : y <= f.id
          BY <1>2
        <5> QED BY <2>1, <3>2, <5>1
      <4>2. Newest(B1) = f.id
        <5>1. Len(said') \in Nat
          BY <1>2
        <5> QED BY <4>1, <5>1, NewestIsLast
      <4> QED BY <1>2, <1>3, <2>4, <4>2
    <3> QED BY <2>1, <3>1, <3>2
  <2> QED BY <1>2, <2>3, <2>4 DEF B1
<1> QED BY <1>2, <1>5, <1>6, VotesWholeNext DEF VotesWhole

\* Steps that leave the polls alone and take no vote.
LEMMA VotesWholeStays ==
  ASSUME TypeOK, OrderInv, KeepInv, VotesWhole, UNCHANGED <<said, polls, votes, lastPoll>>,
         polls = {i \in seenMIDs' : said[i].kind = "poll"},
         \/ ~conn'
         \/ conn /\ conn' /\ wire' = wire
         \/ \A i \in 1 .. Len(said) : said[i].kind \in Kept => said[i] \in Elements(wire')
         \/ /\ conn /\ conn' /\ wire # <<>> /\ Take /\ UNCHANGED kept
            /\ Head(wire).kind # "vote"
  PROVE  VotesWhole'
<1>1. \A i, p : Ballots(i, p)' = Ballots(i, p)
  BY DEF Ballots
<1>2. Len(said) \in Nat
  BY DEF TypeOK
<1>3. ASSUME NEW v \in [poll : polls, by : Vouched, choice : Choices]
      PROVE  conn' /\ Ballots(v.poll, v.by) # {}
                 /\ said[Newest(Ballots(v.poll, v.by))] \notin Elements(wire') =>
               (v \in votes <=> said[Newest(Ballots(v.poll, v.by))].arg = v.choice)
  <2> DEFINE B == Ballots(v.poll, v.by)
  <2>1. conn /\ B # {} /\ ~OnWire(Newest(B)) => (v \in votes <=> said[Newest(B)].arg = v.choice)
    BY DEF VotesWhole, Settled
  <2>2. B \in SUBSET (1 .. Len(said)) /\ \A j \in B : said[j].kind = "vote"
    BY DEF Ballots
  <2>k. \A j \in B : said[j].kind \in Kept
    BY <2>2 DEF Kept, Quiet
  <2> HIDE DEF B
  <2>3. CASE ~conn'
    BY <2>3
  <2>4. CASE conn /\ conn' /\ wire' = wire
    BY <2>1, <2>4 DEF OnWire, B
  <2>5. CASE \A i \in 1 .. Len(said) : said[i].kind \in Kept => said[i] \in Elements(wire')
    <3>1. B # {} => said[Newest(B)] \in Elements(wire')
      BY <1>2, <2>2, <2>k, <2>5, NewestIs
    <3> QED BY <3>1 DEF B
  <2>6. CASE /\ conn /\ conn' /\ wire # <<>> /\ Take /\ UNCHANGED kept
             /\ Head(wire).kind # "vote"
    <3>1. ASSUME Head(wire).id \in 1 .. Len(said)
          PROVE  Head(wire).id \notin B
      <4>1. Head(wire) \in Elements(wire)
        BY <2>6, SortedTail DEF TypeOK, OrderInv, QueuesInOrder
      <4>2. said[Head(wire).id] = Head(wire)
        BY <3>1, <4>1 DEF OrderInv, WireWasSaid, WasSaid
      <4> QED BY <2>2, <2>6, <4>2
    <3>2. Head(wire).id \notin B
      BY <2>2, <3>1
    <3>3. B # {} /\ said[Newest(B)] \notin Elements(wire') => ~OnWire(Newest(B))
      BY <2>2, <2>k, <2>6, <3>2, SettledTake
    <3> QED BY <2>1, <2>6, <3>3 DEF B
  <2> QED BY <2>3, <2>4, <2>5, <2>6
<1> QED BY <1>1, <1>3, VotesWholeNext DEF VotesWhole

\* The reader takes a vote: it counts unless a later one is on its way.
LEMMA VotesWholeVote ==
  ASSUME TypeOK, OrderInv, SaidInv, KeepInv, VotesWhole, ReceiveVote
  PROVE  VotesWhole'
<1> DEFINE h == Head(wire)
<1>1. /\ conn /\ wire # <<>> /\ h.kind = "vote" /\ Take
      /\ UNCHANGED <<said, kept, conn, seenMIDs, polls, lastPoll>> /\ votes' = Voted(h)
  BY DEF ReceiveVote, Incoming, server
<1>2. WasSaid(h) /\ h.id \in 1 .. Len(said) /\ said[h.id] = h
  BY <1>1, AfterTake DEF ReceiveVote, WasSaid
<1>3. \A i, p : Ballots(i, p)' = Ballots(i, p)
  BY <1>1 DEF Ballots
<1>4. h.by \in Vouched \cup {Nobody} /\ Nobody \notin Vouched
  BY <1>2, ConversationAssumption DEF SaidInv
<1>5. \A i, p : h.id \in Ballots(i, p) <=> h.by = p /\ h.target = i
  BY <1>1, <1>2 DEF Ballots
<1>6. votes' \subseteq [poll : polls, by : Vouched, choice : Choices]
  BY <1>1, <1>4 DEF Voted, VotesWhole
<1>7. ASSUME NEW v \in [poll : polls, by : Vouched, choice : Choices]
      PROVE  v \in votes' <=> IF h.by = v.by /\ h.target = v.poll THEN v.choice = h.arg
                                                                ELSE v \in votes
  <2>1. v = [poll |-> v.poll, by |-> v.by, choice |-> v.choice] /\ v.poll \in polls
        /\ v.by \in Vouched /\ v.choice \in Choices
    OBVIOUS
  <2>2. CASE h.by = v.by /\ h.target = v.poll
    <3>1. votes' = {u \in votes : ~(u.poll = h.target /\ u.by = h.by)} \cup
                   {u \in [poll : {h.target}, by : {h.by}, choice : Choices] : u.choice = h.arg}
      BY <1>1, <1>4, <2>1, <2>2 DEF Voted
    <3>2. v \in [poll : {h.target}, by : {h.by}, choice : Choices]
      BY <2>1, <2>2
    <3> QED BY <2>2, <3>1, <3>2
  <2>3. CASE ~(h.by = v.by /\ h.target = v.poll)
    <3>1. v \notin [poll : {h.target}, by : {h.by}, choice : Choices]
      BY <2>3
    <3> QED BY <1>1, <2>3, <3>1 DEF Voted
  <2> QED BY <2>2, <2>3
<1>8. ASSUME NEW v \in [poll : polls, by : Vouched, choice : Choices]
      PROVE  /\ v \in votes' => Ballots(v.poll, v.by) # {}
             /\ conn' /\ Ballots(v.poll, v.by) # {}
                    /\ said[Newest(Ballots(v.poll, v.by))] \notin Elements(wire') =>
                  (v \in votes' <=> said[Newest(Ballots(v.poll, v.by))].arg = v.choice)
  <2> DEFINE B == Ballots(v.poll, v.by)
  <2>1. /\ v \in votes => B # {}
        /\ conn /\ B # {} /\ ~OnWire(Newest(B)) => (v \in votes <=> said[Newest(B)].arg = v.choice)
    BY DEF VotesWhole, Settled
  <2>2. B \in SUBSET (1 .. Len(said)) /\ \A j \in B : said[j].kind \in Kept
    BY DEF Ballots, Kept, Quiet
  <2>3. h.id \in B <=> h.by = v.by /\ h.target = v.poll
    BY <1>5
  <2>4. v \in votes' <=> IF h.id \in B THEN v.choice = h.arg ELSE v \in votes
    BY <1>7, <2>3
  <2> HIDE DEF B, h
  <2>5. B # {} /\ said[Newest(B)] \notin Elements(wire') =>
          IF h.id \in B THEN Newest(B) = h.id ELSE ~OnWire(Newest(B))
    BY <1>1, <2>2, SettledTake DEF h
  <2>6. B # {} /\ said[Newest(B)] \notin Elements(wire') =>
          (v \in votes' <=> said[Newest(B)].arg = v.choice)
    BY <1>1, <1>2, <2>1, <2>4, <2>5
  <2> QED BY <2>1, <2>4, <2>6 DEF B
<1>9. polls' = {i \in seenMIDs' : said'[i].kind = "poll"} /\ UNCHANGED lastPoll
      /\ lastPoll = IF polls = {} THEN 0 ELSE Newest(polls)
  BY <1>1 DEF VotesWhole
<1> QED BY <1>1, <1>3, <1>6, <1>8, <1>9, VotesWholeNext

\* The reader is shown a poll: it is the latest, and its ballots are on their way.
LEMMA VotesWholePoll ==
  ASSUME TypeOK, OrderInv, SaidInv, KeepInv, VotesWhole, ReceivePoll
  PROVE  VotesWhole'
<1> DEFINE h == Head(wire)
<1>1. /\ conn /\ wire # <<>> /\ h.kind = "poll" /\ Take
      /\ UNCHANGED <<said, kept, conn>> /\ seenMIDs' = seenMIDs \cup {h.id}
      /\ polls' = polls \cup {h.id} /\ lastPoll' = h.id
      /\ votes' = {v \in votes : v.poll # h.id} /\ h.id \notin seenMIDs
  BY DEF ReceivePoll, Show, Repeated, Incoming, server
<1>2. WasSaid(h) /\ h.id \in 1 .. Len(said) /\ said[h.id] = h /\ h \in Elements(wire)
  BY <1>1, AfterTake DEF ReceivePoll, WasSaid, Show
<1>3. \A i, p : Ballots(i, p)' = Ballots(i, p)
  BY <1>1 DEF Ballots
<1>4. polls \subseteq seenMIDs /\ seenMIDs \subseteq 1 .. Len(said) /\ \A i \in polls : i < h.id
  BY <1>1, <1>2 DEF VotesWhole, OrderInv, SeenIsShown, NewComesLater, IsNew, Content, ContentIds
<1>5. votes' = votes /\ votes \subseteq [poll : polls', by : Vouched, choice : Choices]
  BY <1>1, <1>4 DEF VotesWhole
<1>6. Len(said) \in Nat
  BY DEF TypeOK
<1> HIDE DEF h
<1>7. Newest(polls') = h.id
  <2>1. polls' \in SUBSET (1 .. Len(said)) /\ h.id \in polls'
    BY <1>1, <1>2, <1>4
  <2>2. \A y \in polls' : y <= h.id
    <3>1. \A y \in polls : y <= h.id
      BY <1>2, <1>4
    <3>2. h.id <= h.id
      BY <1>2
    <3> QED BY <1>1, <3>1, <3>2
  <2> QED BY <1>6, <2>1, <2>2, NewestIsLast
<1>8. ASSUME NEW v \in [poll : polls', by : Vouched, choice : Choices]
      PROVE  conn' /\ Ballots(v.poll, v.by) # {}
                 /\ said[Newest(Ballots(v.poll, v.by))] \notin Elements(wire') =>
               (v \in votes' <=> said[Newest(Ballots(v.poll, v.by))].arg = v.choice)
  <2> DEFINE B == Ballots(v.poll, v.by)
  <2>1. B \in SUBSET (1 .. Len(said)) /\ \A j \in B : said[j].kind = "vote" /\ said[j].kind \in Kept
                                                  /\ said[j].target = v.poll
    BY DEF Ballots, Kept, Quiet
  <2>2. h.id \notin B
    BY <1>1, <1>2, <2>1
  <2>3. v.poll \in polls =>
          (conn /\ B # {} /\ ~OnWire(Newest(B)) => (v \in votes <=> said[Newest(B)].arg = v.choice))
    BY DEF VotesWhole, Settled
  <2> HIDE DEF B
  <2>4. B # {} /\ said[Newest(B)] \notin Elements(wire') => ~OnWire(Newest(B))
    BY <1>1, <2>1, <2>2, SettledTake DEF h
  <2>5. CASE v.poll \in polls
    BY <1>1, <1>5, <2>3, <2>4, <2>5 DEF B
  <2>6. CASE v.poll = h.id
    <3>1. \A j \in B : said[j] \in Elements(wire')
      <4> SUFFICES ASSUME NEW j \in B PROVE said[j] \in Elements(wire')
        OBVIOUS
      <4>1. h.id < j /\ j \in 1 .. Len(said) /\ said[j].kind \in Kept
        BY <2>1, <2>6 DEF SaidInv, Quiet
      <4> QED BY <1>1, <4>1, KeepTake DEF h
    <3>2. B # {} => Newest(B) \in B
      BY <1>6, <2>1, NewestIs
    <3> QED BY <3>1, <3>2 DEF B
  <2> QED BY <1>1, <2>5, <2>6
<1>9. \A v \in votes' : Ballots(v.poll, v.by)' # {}
  BY <1>3, <1>5 DEF VotesWhole
<1>10. polls' = {i \in seenMIDs' : said'[i].kind = "poll"}
  BY <1>1, <1>2 DEF VotesWhole
<1>11. lastPoll' = IF polls' = {} THEN 0 ELSE Newest(polls')
  BY <1>1, <1>7
<1> QED BY <1>1, <1>3, <1>5, <1>8, <1>9, <1>10, <1>11, VotesWholeNext

LEMMA VotesStep ==
  ASSUME WholeRoom, TypeOK, OrderInv, SaidInv, KeepInv, VotesWhole, [Next]_vars
  PROVE  VotesWhole'
<1>1. polls = {i \in seenMIDs : said[i].kind = "poll"}
  BY DEF VotesWhole
<1>2. CASE Connect
  <2>1. UNCHANGED <<said, seenMIDs, polls, votes, lastPoll>>
    BY <1>2 DEF Connect, server, polling
  <2>2. \A i \in 1 .. Len(said) : said[i].kind \in Kept => said[i] \in Elements(wire')
    BY <1>2, KeepConnect
  <2> QED BY <1>1, <2>1, <2>2, VotesWholeStays
<1>3. CASE Drop
  <2>1. conn' = FALSE /\ UNCHANGED <<said, seenMIDs, polls, votes, lastPoll>>
    BY <1>3 DEF Drop, server, polling
  <2> QED BY <1>1, <2>1, VotesWholeStays
<1>4. ~ServerRestart
  BY DEF ServerRestart, TypeOK, WholeRoom
<1>5. ASSUME NEW kinds, Incoming(kinds), Take, "vote" \notin kinds, UNCHANGED <<said, kept, conn>>,
             UNCHANGED <<polls, votes, lastPoll>>,
             \/ UNCHANGED seenMIDs
             \/ "poll" \notin kinds /\ seenMIDs' = seenMIDs \cup {Head(wire).id}
      PROVE  VotesWhole'
  <2>1. conn /\ conn' /\ wire # <<>> /\ Head(wire).kind \in kinds
    BY <1>5 DEF Incoming
  <2>2. polls = {i \in seenMIDs' : said[i].kind = "poll"}
    <3>1. CASE UNCHANGED seenMIDs
      BY <1>1, <3>1
    <3>2. CASE "poll" \notin kinds /\ seenMIDs' = seenMIDs \cup {Head(wire).id}
      <4>1. Head(wire) \in Elements(wire)
        BY <2>1, SortedTail DEF TypeOK, OrderInv, QueuesInOrder
      <4>2. Head(wire).kind # "poll"
        BY <2>1, <3>2
      <4>3. CASE WasSaid(Head(wire))
        <5>1. said[Head(wire).id].kind # "poll"
          BY <4>2, <4>3 DEF WasSaid
        <5> QED BY <1>1, <3>2, <5>1
      <4>4. CASE Head(wire).kind = "replay"
        <5>1. Head(wire).id = 0 \/ WasSaid(Head(wire))
          BY <4>1, <4>4 DEF OrderInv, WireWasSaid
        <5>2. CASE Head(wire).id = 0
          <6>1. OrderInv' => Head(wire).id # 0
            BY <3>2, <5>2 DEF OrderInv, SeenIsShown, ContentIds
          <6> QED BY <6>1, <5>2, OrderStep
        <5> QED BY <4>3, <5>1, <5>2
      <4> QED BY <4>1, <4>3, <4>4 DEF OrderInv, WireWasSaid
    <3> QED BY <1>5, <3>1, <3>2
  <2>3. Head(wire).kind # "vote"
    BY <1>5, <2>1
  <2> QED BY <1>5, <2>1, <2>2, <2>3, VotesWholeStays
<1>6. CASE ReceiveReplay
  BY <1>5, <1>6 DEF ReceiveReplay, server, polling
<1>7. CASE ReceiveCleared
  BY <1>5, <1>7 DEF ReceiveCleared, server, polling
<1>8. CASE ReceiveSealed
  BY <1>5, <1>8 DEF ReceiveSealed, server, polling
<1>9. CASE ReceiveAside
  BY <1>5, <1>9 DEF ReceiveAside, server, polling
<1>10. CASE ReceiveNuke
  BY <1>5, <1>10 DEF ReceiveNuke, server, polling
<1>11. CASE ReceiveEdit
  BY <1>5, <1>11 DEF ReceiveEdit, server, polling
<1>12. CASE ReceiveDelete
  BY <1>5, <1>12 DEF ReceiveDelete, server, polling
<1>13. CASE ReceiveRepeat
  BY <1>5, <1>13 DEF ReceiveRepeat, server, polling, Content
<1>14. ASSUME NEW kinds, Incoming(kinds), "vote" \notin kinds, "poll" \notin kinds,
              Show(Head(wire)), UNCHANGED polling
       PROVE  VotesWhole'
  BY <1>5, <1>14 DEF Show, server, polling
<1>15. CASE ReceiveText
  BY <1>14, <1>15 DEF ReceiveText
<1>16. CASE ReceiveSpoiler
  BY <1>14, <1>16 DEF ReceiveSpoiler
<1>17. CASE ReceiveFile
  BY <1>14, <1>17 DEF ReceiveFile
<1>18. CASE TakeDownload \/ (\E i \in Listed : Get(i)) \/ UNCHANGED vars
  <2>1. UNCHANGED <<said, conn, wire, seenMIDs, polls, votes, lastPoll>>
    BY <1>18 DEF TakeDownload, Get, vars, server, link, polling
  <2>2. ~conn' \/ (conn /\ conn' /\ wire' = wire)
    BY <2>1 DEF TypeOK
  <2> QED BY <1>1, <2>1, <2>2, VotesWholeStays
<1> QED
  BY <1>2, <1>3, <1>4, <1>6, <1>7, <1>8, <1>9, <1>10, <1>11, <1>12, <1>13, <1>15, <1>16,
     <1>17, <1>18, VotesWholeTaken, VotesWholeVote, VotesWholePoll
  DEF Next, Receive

\* However often the connection is lost and what is kept is replayed, a reader
\* that has caught up with a room that keeps everything has counted, for each
\* poll and each vouched voter, the last vote and no other, and /vote answers
\* the latest poll (receive, trackPoll, applyVote).
THEOREM WholeVotesConverge ==
  ASSUME WholeRoom
  PROVE  Spec => []VotesConverge
<1>1. Init => VotesWhole
  BY DEF Init, VotesWhole
<1>2. TypeOK /\ OrderInv /\ GoneInv /\ AuthorInv /\ (SaidInv /\ KeepInv /\ LogWhole)
        /\ [Next]_vars => (SaidInv /\ KeepInv /\ LogWhole)'
  BY WholeStep
<1>3. TypeOK /\ OrderInv /\ (SaidInv /\ KeepInv /\ LogWhole) /\ VotesWhole /\ [Next]_vars
        => VotesWhole'
  BY VotesStep
<1>4. ASSUME TypeOK, OrderInv, KeepInv, VotesWhole, CaughtUp
      PROVE  /\ votes = {v \in [poll : PollIds, by : Vouched, choice : Choices] :
                            LET B == Ballots(v.poll, v.by)
                            IN B # {} /\ said[Newest(B)].arg = v.choice}
             /\ lastPoll = IF PollIds = {} THEN 0 ELSE Newest(PollIds)
  <2>1. conn /\ seenMIDs = ContentIds /\ \A J : ~OnWire(J)
    BY <1>4, AllSeen DEF CaughtUp
  <2>2. polls = PollIds
    BY <1>4, <2>1 DEF VotesWhole, PollIds, ContentIds, Content
  <2>3. ASSUME NEW v \in [poll : PollIds, by : Vouched, choice : Choices]
        PROVE  v \in votes <=> LET B == Ballots(v.poll, v.by)
                               IN B # {} /\ said[Newest(B)].arg = v.choice
    BY <1>4, <2>1, <2>2 DEF VotesWhole, Settled
  <2>4. votes \subseteq [poll : PollIds, by : Vouched, choice : Choices]
    BY <1>4, <2>2 DEF VotesWhole
  <2> QED BY <1>4, <2>2, <2>3, <2>4 DEF VotesWhole
<1>5. TypeOK /\ OrderInv /\ (SaidInv /\ KeepInv /\ LogWhole) /\ VotesWhole => VotesConverge
  BY <1>4 DEF VotesConverge
<1> QED
  BY <1>1, <1>2, <1>3, <1>5, WholeInit, TypeCorrect, OrderInvariant, GoneInvariance,
     AuthorInvariance, PTL DEF Spec

===============================================================================
