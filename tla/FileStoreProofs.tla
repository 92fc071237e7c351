---------------------------- MODULE FileStoreProofs ----------------------------
(***************************************************************************)
(* Theorems about FileStore, for any number of readers, files, names and   *)
(* tries, whatever name leads to whatever candidates: what is saved is     *)
(* whole, nothing is overwritten, an idle reader leaves no temporary file  *)
(* and the whole implements SavedFiles.                                    *)
(***************************************************************************)
EXTENDS FileStore, TLAPS

\* The path a reader tries or has is one of the directory's.
LEMMA DestType ==
  ASSUME TypeOK, NEW r \in Readers, item[r] \in Items
  PROVE  Dest(r) \in Paths
<1>1. NameOf[item[r]] \in Names
  BY StoreAssumption
<1>2. try[r] \in 0 .. MaxTries - 1
  BY DEF TypeOK
<1> QED BY <1>1, <1>2, StoreAssumption DEF Dest

LEMMA TypeStart == Init => TypeOK
<1>1. 0 \in 0 .. MaxTries - 1 /\ 0 \in 0 .. MaxTouches /\ 0 \in 0 .. MaxFailures
  BY StoreAssumption
<1> QED BY <1>1 DEF Init, TypeOK, Kept, Phases

\* What Return and GiveUp leave is well typed.
LEMMA ReturnTypes ==
  ASSUME TypeOK, NEW r \in Readers, Return(r)
  PROVE  /\ phase' \in [Readers -> Phases] /\ item' \in [Readers -> Items \cup {NoFile}]
         /\ body' \in [Readers -> Nat] /\ got' \in [Readers -> Nat]
         /\ try' \in [Readers -> 0 .. MaxTries - 1]
<1>1. 0 \in 0 .. MaxTries - 1
  BY StoreAssumption
<1> QED BY <1>1 DEF TypeOK, Return, Enter, Phases

LEMMA TypeStep == TypeOK /\ InDownload /\ [Next]_vars => TypeOK'
<1> SUFFICES ASSUME TypeOK, InDownload, [Next]_vars PROVE TypeOK'
  OBVIOUS
<1>1. ASSUME NEW r \in Readers, Start(r) PROVE TypeOK'
  <2>1. PICK i \in Items : /\ item' = [item EXCEPT ![r] = i]
                           /\ \E n \in 0 .. Records[i] : body' = [body EXCEPT ![r] = n]
    BY <1>1 DEF Start
  <2>2. Records[i] \in Nat
    BY StoreAssumption
  <2>3. body' \in [Readers -> Nat] /\ item' \in [Readers -> Items \cup {NoFile}]
    BY <2>1, <2>2 DEF TypeOK
  <2> QED BY <1>1, <2>3 DEF TypeOK, Start, Enter, Phases
<1>2. ASSUME NEW r \in Readers, MakeTemp(r) PROVE TypeOK'
  BY <1>2 DEF TypeOK, MakeTemp, Enter, Phases, Temp
<1>3. ASSUME NEW r \in Readers, GiveUp(r), failures' \in 0 .. MaxFailures PROVE TypeOK'
  BY <1>3, ReturnTypes DEF TypeOK, GiveUp, Temp
<1>4. ASSUME NEW r \in Readers, Decrypt(r) PROVE TypeOK'
  <2>1. CASE GiveUp(r) /\ UNCHANGED failures
    BY <2>1, <1>3 DEF TypeOK
  <2>2. CASE ~(GiveUp(r) /\ UNCHANGED failures)
    <3>1. /\ got' = [got EXCEPT ![r] = @ + 1]
          /\ UNCHANGED <<dir, item, body, try, temps, life, touches, failures>>
          /\ Enter(r, "closed") \/ UNCHANGED phase
      BY <1>4, <2>2, Zenon DEF Decrypt
    <3> QED BY <3>1 DEF TypeOK, Enter, Phases
  <2> QED BY <2>1, <2>2
<1>5. ASSUME NEW r \in Readers, EmptyBody(r) PROVE TypeOK'
  BY <1>5, <1>3 DEF TypeOK, EmptyBody
<1>6. ASSUME NEW r \in Readers, StartReserving(r) PROVE TypeOK'
  <2>1. 0 \in 0 .. MaxTries - 1
    BY StoreAssumption
  <2> QED BY <1>6, <2>1 DEF TypeOK, StartReserving, Enter, Phases
<1>7. ASSUME NEW r \in Readers, TryName(r) PROVE TypeOK'
  <2>1. CASE CanCreate(Dest(r)) /\ Enter(r, "reserved")
    BY <1>7, <2>1 DEF TypeOK, TryName, CanCreate, Enter, Phases
  <2>2. CASE ~CanCreate(Dest(r)) /\ ~LastTry(r) /\ NextName(r)
    <3>1. try[r] \in 0 .. MaxTries - 1 /\ try[r] # MaxTries - 1
      BY <2>2 DEF LastTry, TypeOK
    <3>2. try[r] + 1 \in 0 .. MaxTries - 1
      BY <3>1, StoreAssumption
    <3> QED BY <1>7, <2>2, <3>2 DEF TypeOK, TryName, NextName, LastTry
  <2>3. CASE GiveUp(r) /\ UNCHANGED failures
    BY <2>3, <1>3 DEF TypeOK
  <2> QED BY <1>7, <2>1, <2>2, <2>3 DEF TryName
<1>8. ASSUME NEW r \in Readers, Rename(r) PROVE TypeOK'
  <2>1. [of |-> item[r], records |-> got[r]] \in Stored
    BY <1>8 DEF Rename, TypeOK, InDownload, Stored
  <2>2. dir' \in [Paths -> Kept \cup {NoFile, Placeholder}]
    BY <1>8, <2>1 DEF Rename, TypeOK, Kept
  <2> QED BY <1>8, <2>2, ReturnTypes DEF Rename, TypeOK
<1>9. ASSUME NEW r \in Readers, CallFails(r) PROVE TypeOK'
  <2>1. failures' \in 0 .. MaxFailures
    BY <1>9, StoreAssumption DEF CallFails, TypeOK
  <2> QED BY <1>9, <2>1, <1>3 DEF CallFails
<1>10. ASSUME NEW r \in Readers, Crash(r) PROVE TypeOK'
  BY <1>10, ReturnTypes DEF Crash, TypeOK
<1>11. ASSUME NEW p \in Paths, Touch(p) PROVE TypeOK'
  <2>1. touches' \in 0 .. MaxTouches
    BY <1>11, StoreAssumption DEF Touch, TypeOK
  <2>2. dir' \in [Paths -> Kept \cup {NoFile, Placeholder}]
    BY <1>11 DEF Touch, TypeOK, Kept
  <2> QED BY <1>11, <2>1, <2>2 DEF Touch, TypeOK, download
<1>12. CASE UNCHANGED vars
  BY <1>12 DEF vars, download, TypeOK
<1> QED BY <1>1, <1>2, <1>4, <1>5, <1>6, <1>7, <1>8, <1>9, <1>10, <1>11, <1>12 DEF Next

-------------------------------------------------------------------------------
\* The invariant: what a step of one reader's Download leaves alone.
Others(r) ==
  \A s \in Readers \ {r} : /\ phase'[s] = phase[s] /\ item'[s] = item[s] /\ body'[s] = body[s]
                           /\ got'[s] = got[s] /\ try'[s] = try[s] /\ life'[s] = life[s]

\* What the invariant says of one reader's own variables.
Mine(r) ==
  /\ phase[r] # "idle" => item[r] \in Items
  /\ phase[r] \in {"closed", "reserving", "reserved"} => got[r] = Records[item[r]]
  /\ phase[r] = "decrypting" => got[r] < Records[item[r]] /\ body[r] <= Records[item[r]]
  /\ phase[r] = "fetching" => body[r] <= Records[item[r]]

LEMMA MineMeans ==
  (\A r \in Readers : Mine(r)) <=> InDownload /\ TempIsWhole
  BY DEF Mine, InDownload, TempIsWhole

LEMMA MineMeansNext ==
  (\A r \in Readers : Mine(r)') <=> InDownload' /\ TempIsWhole'
  BY DEF Mine, InDownload, TempIsWhole

LEMMA OthersKeepMine ==
  ASSUME NEW r \in Readers, Others(r), Mine(r)', \A s \in Readers : Mine(s)
  PROVE  InDownload' /\ TempIsWhole'
<1>1. \A s \in Readers : Mine(s)'
  <2> TAKE s \in Readers
  <2>1. CASE s = r
    BY <2>1
  <2>2. CASE s # r
    BY <2>2 DEF Mine, Others
  <2> QED BY <2>1, <2>2
<1> QED BY <1>1, MineMeansNext

\* A step of a reader that leaves the directory alone and reserves nothing.
LEMMA OthersKeepReserved ==
  ASSUME NEW r \in Readers, Others(r), Reservation, SavedIsWhole, dir' = dir,
         phase'[r] # "reserved"
  PROVE  Reservation' /\ SavedIsWhole'
<1>1. \A s \in Readers : phase'[s] = "reserved" =>
         s # r /\ phase[s] = "reserved" /\ Dest(s)' = Dest(s)
  BY DEF Others, Dest
<1>2. Reservation'
  BY <1>1 DEF Reservation
<1> QED BY <1>2 DEF SavedIsWhole

\* Temporary files stay accounted for when only this reader's may be new, and
\* then only if the reader is in the part of Download that holds it.
LEMMA OthersKeepTemps ==
  ASSUME NEW r \in Readers, TypeOK, Others(r), TempsAreOurs,
         temps' \subseteq temps \cup {Temp(r)'}, life'[r] \in Nat, life'[r] >= life[r],
         Temp(r)' \in temps' => phase'[r] \in Holding
  PROVE  TempsAreOurs'
<1> SUFFICES ASSUME NEW t \in temps'
             PROVE  /\ t[2] <= life'[t[1]]
                    /\ t[2] = life'[t[1]] => phase'[t[1]] \in Holding
  BY DEF TempsAreOurs
<1>1. CASE t = Temp(r)'
  BY <1>1 DEF Temp
<1>2. CASE t # Temp(r)'
  <2>1. t \in temps
    BY <1>2
  <2>2. t \in Readers \X Nat /\ t = <<t[1], t[2]>>
    BY <2>1 DEF TypeOK
  <2>3. t[2] <= life[t[1]] /\ (t[2] = life[t[1]] => phase[t[1]] \in Holding)
    BY <2>1 DEF TempsAreOurs
  <2>4. CASE t[1] = r
    <3>1. t[2] # life'[r]
      BY <1>2, <2>2, <2>4 DEF Temp
    <3>2. life[r] \in Nat
      BY DEF TypeOK
    <3> QED BY <2>2, <2>3, <2>4, <3>1, <3>2
  <2>5. CASE t[1] # r
    BY <2>2, <2>3, <2>5 DEF Others
  <2> QED BY <2>4, <2>5
<1> QED BY <1>1, <1>2

LEMMA StoreStart == Init => StoreInv
<1> SUFFICES ASSUME Init PROVE StoreInv
  OBVIOUS
<1>1. InDownload /\ Reservation /\ TempIsWhole /\ TempsAreOurs
  BY DEF Init, InDownload, Reservation, TempIsWhole, TempsAreOurs
<1>2. \A p \in Paths : dir[p] \notin Stored
  BY StoreAssumption DEF Init
<1> QED BY <1>1, <1>2 DEF StoreInv, SavedIsWhole

\* A step that changes one reader's own variables and reserves nothing.
LEMMA LocalKeeps ==
  ASSUME TypeOK, StoreInv, NEW r \in Readers, Others(r), Mine(r)', dir' = dir,
         phase'[r] # "reserved", temps' \subseteq temps \cup {Temp(r)'},
         life'[r] \in Nat, life'[r] >= life[r], Temp(r)' \in temps' => phase'[r] \in Holding
  PROVE  StoreInv'
<1>1. InDownload' /\ TempIsWhole'
  BY OthersKeepMine, MineMeans DEF StoreInv
<1>2. Reservation' /\ SavedIsWhole'
  BY OthersKeepReserved DEF StoreInv
<1>3. TempsAreOurs'
  BY OthersKeepTemps DEF StoreInv
<1> QED BY <1>1, <1>2, <1>3 DEF StoreInv

\* Giving up keeps the invariant wherever Download was.
LEMMA GiveUpKeeps ==
  ASSUME TypeOK, StoreInv, NEW r \in Readers, GiveUp(r)
  PROVE  StoreInv'
<1>1. /\ phase' = [phase EXCEPT ![r] = "idle"] /\ item' = [item EXCEPT ![r] = NoFile]
      /\ body' = [body EXCEPT ![r] = 0] /\ got' = [got EXCEPT ![r] = 0]
      /\ try' = [try EXCEPT ![r] = 0] /\ life' = [life EXCEPT ![r] = life[r]]
      /\ dir' = dir /\ temps' = temps \ {Temp(r)}
  BY DEF GiveUp, Return, Enter, TypeOK
<1>2. Others(r) /\ phase'[r] = "idle" /\ life'[r] = life[r] /\ Temp(r)' = Temp(r)
  BY <1>1 DEF Others, TypeOK, Temp
<1>3. Mine(r)'
  BY <1>2 DEF Mine
<1>4. life[r] \in Nat
  BY DEF TypeOK
<1> QED BY <1>1, <1>2, <1>3, <1>4, LocalKeeps

LEMMA StoreStep == TypeOK /\ StoreInv /\ [Next]_vars => StoreInv'
<1> SUFFICES ASSUME TypeOK, StoreInv, [Next]_vars PROVE StoreInv'
  OBVIOUS
<1>a. \A r \in Readers : /\ Mine(r) /\ life[r] \in Nat
                         /\ phase[r] = "idle" => Temp(r) \notin temps
  <2>1. \A r \in Readers : Mine(r) /\ life[r] \in Nat
    BY MineMeans DEF StoreInv, TypeOK
  <2>2. ASSUME NEW r \in Readers, Temp(r) \in temps PROVE phase[r] # "idle"
    BY <2>2 DEF StoreInv, TempsAreOurs, Temp, Holding
  <2> QED BY <2>1, <2>2
<1>1. ASSUME NEW r \in Readers, Start(r) PROVE StoreInv'
  <2>0. PICK i \in Items : /\ item' = [item EXCEPT ![r] = i]
                           /\ \E m \in 0 .. Records[i] : body' = [body EXCEPT ![r] = m]
    BY <1>1 DEF Start
  <2>1. PICK n \in 0 .. Records[i] :
           item' = [item EXCEPT ![r] = i] /\ body' = [body EXCEPT ![r] = n]
    BY <2>0
  <2>2. /\ phase' = [phase EXCEPT ![r] = "fetching"] /\ got' = [got EXCEPT ![r] = got[r]]
        /\ try' = [try EXCEPT ![r] = try[r]] /\ life' = [life EXCEPT ![r] = life[r]]
        /\ dir' = dir /\ temps' = temps
    BY <1>1 DEF Start, Enter, TypeOK
  <2>3. Others(r) /\ phase'[r] = "fetching" /\ item'[r] = i /\ body'[r] = n /\ life'[r] = life[r]
    BY <2>1, <2>2 DEF Others, TypeOK
  <2>4. Mine(r)'
    BY <2>3, StoreAssumption DEF Mine
  <2>5. Temp(r)' \notin temps'
    BY <1>1, <1>a, <2>2, <2>3 DEF Start, Temp
  <2> QED BY <1>a, <2>2, <2>3, <2>4, <2>5, LocalKeeps
<1>2. ASSUME NEW r \in Readers, MakeTemp(r) PROVE StoreInv'
  <2>1. /\ phase' = [phase EXCEPT ![r] = "decrypting"] /\ item' = [item EXCEPT ![r] = item[r]]
        /\ body' = [body EXCEPT ![r] = body[r]] /\ got' = [got EXCEPT ![r] = 0]
        /\ try' = [try EXCEPT ![r] = try[r]] /\ life' = [life EXCEPT ![r] = life[r]]
        /\ dir' = dir /\ temps' = temps \cup {Temp(r)} /\ phase[r] = "fetching"
    BY <1>2 DEF MakeTemp, Enter, TypeOK
  <2>2. /\ Others(r) /\ phase'[r] = "decrypting" /\ item'[r] = item[r] /\ body'[r] = body[r]
        /\ got'[r] = 0 /\ life'[r] = life[r]
    BY <2>1 DEF Others, TypeOK
  <2>3. Mine(r)'
    <3>1. item[r] \in Items /\ body[r] <= Records[item[r]] /\ Records[item[r]] \in Nat \ {0}
      BY <1>a, <2>1, StoreAssumption DEF Mine
    <3> QED BY <2>2, <3>1 DEF Mine
  <2>4. Temp(r)' = Temp(r)
    BY <2>2 DEF Temp
  <2> QED BY <1>a, <2>1, <2>2, <2>3, <2>4, LocalKeeps DEF Holding
<1>3. ASSUME NEW r \in Readers, Decrypt(r) PROVE StoreInv'
  <2>1. CASE GiveUp(r)
    BY <2>1, GiveUpKeeps
  <2>2. CASE ~GiveUp(r)
    <3> DEFINE last == got[r] = body[r] - 1
               q == IF last THEN "closed" ELSE "decrypting"
    <3>1. /\ phase[r] = "decrypting" /\ got[r] < body[r] /\ Opens(item[r], got[r], last)
          /\ phase' = [phase EXCEPT ![r] = q] /\ item' = [item EXCEPT ![r] = item[r]]
          /\ body' = [body EXCEPT ![r] = body[r]] /\ got' = [got EXCEPT ![r] = got[r] + 1]
          /\ try' = [try EXCEPT ![r] = try[r]] /\ life' = [life EXCEPT ![r] = life[r]]
          /\ dir' = dir /\ temps' = temps
      BY <1>3, <2>2 DEF Decrypt, Enter, TypeOK
    <3>2. /\ Others(r) /\ phase'[r] = q /\ item'[r] = item[r] /\ body'[r] = body[r]
          /\ got'[r] = got[r] + 1 /\ life'[r] = life[r]
      BY <3>1 DEF Others, TypeOK
    <3>3. Mine(r)'
      <4>1. /\ item[r] \in Items /\ body[r] <= Records[item[r]] /\ Records[item[r]] \in Nat
            /\ got[r] \in Nat /\ body[r] \in Nat
        BY <1>a, <3>1, StoreAssumption DEF Mine, TypeOK
      <4>2. last <=> got[r] = Records[item[r]] - 1
        BY <3>1 DEF Opens
      <4> QED BY <3>1, <3>2, <4>1, <4>2 DEF Mine
    <3>4. Temp(r)' = Temp(r) /\ phase'[r] \in Holding /\ phase'[r] # "reserved"
      BY <3>2 DEF Temp, Holding
    <3> QED BY <1>a, <3>1, <3>2, <3>3, <3>4, LocalKeeps
  <2> QED BY <2>1, <2>2
<1>4. ASSUME NEW r \in Readers, EmptyBody(r) \/ CallFails(r) PROVE StoreInv'
  BY <1>4, GiveUpKeeps DEF EmptyBody, CallFails
<1>5. ASSUME NEW r \in Readers, StartReserving(r) PROVE StoreInv'
  <2>1. /\ phase' = [phase EXCEPT ![r] = "reserving"] /\ item' = [item EXCEPT ![r] = item[r]]
        /\ body' = [body EXCEPT ![r] = body[r]] /\ got' = [got EXCEPT ![r] = got[r]]
        /\ try' = [try EXCEPT ![r] = 0] /\ life' = [life EXCEPT ![r] = life[r]]
        /\ dir' = dir /\ temps' = temps /\ phase[r] = "closed"
    BY <1>5 DEF StartReserving, Enter, TypeOK
  <2>2. /\ Others(r) /\ phase'[r] = "reserving" /\ item'[r] = item[r] /\ got'[r] = got[r]
        /\ life'[r] = life[r]
    BY <2>1 DEF Others, TypeOK
  <2>3. Mine(r)'
    BY <1>a, <2>1, <2>2 DEF Mine
  <2>4. Temp(r)' = Temp(r) /\ phase'[r] \in Holding
    BY <2>2 DEF Temp, Holding
  <2> QED BY <1>a, <2>1, <2>2, <2>3, <2>4, LocalKeeps
<1>6. ASSUME NEW r \in Readers, TryName(r) PROVE StoreInv'
  <2>1. CASE GiveUp(r)
    BY <2>1, GiveUpKeeps
  <2>2. CASE ~CanCreate(Dest(r)) /\ NextName(r) /\ ~GiveUp(r)
    <3>1. /\ phase' = [phase EXCEPT ![r] = "reserving"] /\ item' = [item EXCEPT ![r] = item[r]]
          /\ body' = [body EXCEPT ![r] = body[r]] /\ got' = [got EXCEPT ![r] = got[r]]
          /\ try' = [try EXCEPT ![r] = try[r] + 1] /\ life' = [life EXCEPT ![r] = life[r]]
          /\ dir' = dir /\ temps' = temps /\ phase[r] = "reserving"
      BY <1>6, <2>2 DEF TryName, NextName, TypeOK
    <3>2. /\ Others(r) /\ phase'[r] = "reserving" /\ item'[r] = item[r] /\ got'[r] = got[r]
          /\ life'[r] = life[r]
      BY <3>1 DEF Others, TypeOK
    <3>3. Mine(r)'
      BY <1>a, <3>1, <3>2 DEF Mine
    <3>4. Temp(r)' = Temp(r) /\ phase'[r] \in Holding
      BY <3>2 DEF Temp, Holding
    <3> QED BY <1>a, <3>1, <3>2, <3>3, <3>4, LocalKeeps
  <2>3. CASE CanCreate(Dest(r)) /\ ~GiveUp(r)
    <3>1. /\ phase' = [phase EXCEPT ![r] = "reserved"] /\ item' = [item EXCEPT ![r] = item[r]]
          /\ body' = [body EXCEPT ![r] = body[r]] /\ got' = [got EXCEPT ![r] = got[r]]
          /\ try' = [try EXCEPT ![r] = try[r]] /\ life' = [life EXCEPT ![r] = life[r]]
          /\ dir' = [dir EXCEPT ![Dest(r)] = Placeholder] /\ temps' = temps
          /\ phase[r] = "reserving" /\ dir[Dest(r)] = NoFile
      BY <1>6, <2>3 DEF TryName, CanCreate, Enter, TypeOK
    <3>2. /\ Others(r) /\ phase'[r] = "reserved" /\ item'[r] = item[r] /\ got'[r] = got[r]
          /\ life'[r] = life[r]
      BY <3>1 DEF Others, TypeOK
    <3>3. Mine(r)'
      BY <1>a, <3>1, <3>2 DEF Mine
    <3>a. Temp(r)' = Temp(r) /\ phase'[r] \in Holding
      BY <3>2 DEF Temp, Holding
    <3>4. InDownload' /\ TempIsWhole' /\ TempsAreOurs'
      BY <1>a, <3>1, <3>2, <3>3, <3>a, OthersKeepMine, OthersKeepTemps DEF StoreInv
    <3>5. Dest(r) \in Paths
      BY <1>a, <3>1, DestType DEF Mine
    <3>6. /\ \A p \in Paths : dir'[p] = IF p = Dest(r) THEN Placeholder ELSE dir[p]
          /\ \A s \in Readers : Dest(s)' = Dest(s)
      BY <3>1, <3>5 DEF TypeOK, Dest
    <3>7. \A s \in Readers \ {r} : phase'[s] = phase[s]
      BY <3>2 DEF Others
    <3>8. \A s \in Readers \ {r} : phase[s] = "reserved" => Dest(s) # Dest(r) /\ Dest(s) \in Paths
      <4> TAKE s \in Readers \ {r}
      <4> HAVE phase[s] = "reserved"
      <4>1. dir[Dest(s)] = Placeholder
        BY DEF StoreInv, Reservation
      <4>2. Dest(s) \in Paths
        BY <1>a, DestType DEF Mine
      <4> QED BY <3>1, <4>1, <4>2, StoreAssumption
    <3>9. Reservation'
      BY <3>2, <3>5, <3>6, <3>7, <3>8 DEF StoreInv, Reservation
    <3>10. SavedIsWhole'
      BY <3>6, StoreAssumption DEF StoreInv, SavedIsWhole
    <3> QED BY <3>4, <3>9, <3>10 DEF StoreInv
  <2> QED BY <1>6, <2>1, <2>2, <2>3 DEF TryName
<1>7. ASSUME NEW r \in Readers, Rename(r) PROVE StoreInv'
  <2>1. /\ phase' = [phase EXCEPT ![r] = "idle"] /\ item' = [item EXCEPT ![r] = NoFile]
        /\ body' = [body EXCEPT ![r] = 0] /\ got' = [got EXCEPT ![r] = 0]
        /\ try' = [try EXCEPT ![r] = 0] /\ life' = [life EXCEPT ![r] = life[r]]
        /\ dir' = [dir EXCEPT ![Dest(r)] = [of |-> item[r], records |-> got[r]]]
        /\ temps' = temps \ {Temp(r)} /\ phase[r] = "reserved"
    BY <1>7 DEF Rename, Return, Enter, TypeOK
  <2>2. Others(r) /\ phase'[r] = "idle" /\ life'[r] = life[r] /\ Temp(r)' = Temp(r)
    BY <2>1 DEF Others, TypeOK, Temp
  <2>3. Mine(r)'
    BY <2>2 DEF Mine
  <2>4. InDownload' /\ TempIsWhole' /\ TempsAreOurs'
    BY <1>a, <2>1, <2>2, <2>3, OthersKeepMine, OthersKeepTemps DEF StoreInv
  <2>5. item[r] \in Items /\ got[r] = Records[item[r]] /\ Dest(r) \in Paths
    BY <1>a, <2>1, DestType DEF Mine
  <2>6. \A p \in Paths : dir'[p] = IF p = Dest(r) THEN [of |-> item[r], records |-> got[r]]
                                                  ELSE dir[p]
    BY <2>1, <2>5 DEF TypeOK
  <2>7. \A s \in Readers : phase'[s] = "reserved" =>
          s # r /\ phase[s] = "reserved" /\ Dest(s)' = Dest(s)
    BY <2>2 DEF Others, Dest
  <2>8. \A s \in Readers : phase'[s] = "reserved" => Dest(s) # Dest(r) /\ Dest(s) \in Paths
    BY <1>a, <2>1, <2>7, DestType DEF StoreInv, Reservation, Mine
  <2>9. Reservation'
    BY <2>6, <2>7, <2>8 DEF StoreInv, Reservation
  <2>10. SavedIsWhole'
    BY <2>5, <2>6 DEF StoreInv, SavedIsWhole
  <2> QED BY <2>4, <2>9, <2>10 DEF StoreInv
<1>8. ASSUME NEW r \in Readers, Crash(r) PROVE StoreInv'
  <2>1. /\ phase' = [phase EXCEPT ![r] = "idle"] /\ item' = [item EXCEPT ![r] = NoFile]
        /\ body' = [body EXCEPT ![r] = 0] /\ got' = [got EXCEPT ![r] = 0]
        /\ try' = [try EXCEPT ![r] = 0] /\ life' = [life EXCEPT ![r] = life[r] + 1]
        /\ dir' = dir /\ temps' = temps
    BY <1>8 DEF Crash, Return, Enter, TypeOK
  <2>2. Others(r) /\ phase'[r] = "idle" /\ life'[r] = life[r] + 1
    BY <2>1 DEF Others, TypeOK
  <2>3. Mine(r)'
    BY <2>2 DEF Mine
  <2>4. Temp(r)' \notin temps'
    <3>1. \A t \in temps : t[2] <= life[t[1]]
      BY DEF StoreInv, TempsAreOurs
    <3>2. Temp(r)' = <<r, life[r] + 1>> /\ life[r] \in Nat
      BY <1>a, <2>2 DEF Temp
    <3>3. <<r, life[r] + 1>> \notin temps
      <4>1. ~(life[r] + 1 <= life[r])
        BY <3>2
      <4>2. \A a, b : <<a, b>> \in temps => b <= life[a]
        BY <3>1
      <4> QED BY <4>1, <4>2
    <3> QED BY <2>1, <3>2, <3>3
  <2> QED BY <1>a, <2>1, <2>2, <2>3, <2>4, LocalKeeps
<1>9. ASSUME NEW p \in Paths, Touch(p) PROVE StoreInv'
  <2>1. /\ UNCHANGED <<phase, item, body, got, try, temps, life>>
        /\ \A q \in Paths : q # p => dir'[q] = dir[q]
        /\ dir[p] \in Kept \cup {NoFile} /\ dir'[p] \in {Theirs, NoFile}
    BY <1>9 DEF Touch, TypeOK, download
  <2>2. InDownload' /\ TempIsWhole' /\ TempsAreOurs'
    BY <2>1 DEF StoreInv, InDownload, TempIsWhole, TempsAreOurs
  <2>3. \A s \in Readers : phase[s] = "reserved" => Dest(s) \in Paths
    BY <1>a, DestType DEF Mine
  <2>4. \A s \in Readers : phase[s] = "reserved" => Dest(s) # p
    BY <2>1, StoreAssumption DEF StoreInv, Reservation, Kept
  <2>5. Reservation'
    BY <2>1, <2>3, <2>4 DEF StoreInv, Reservation, Dest
  <2>6. SavedIsWhole'
    BY <2>1, StoreAssumption DEF StoreInv, SavedIsWhole
  <2> QED BY <2>2, <2>5, <2>6 DEF StoreInv
<1>10. CASE UNCHANGED vars
  BY <1>10 DEF vars, download, StoreInv, InDownload, Reservation, Dest, TempIsWhole, TempsAreOurs,
               SavedIsWhole
<1> QED BY <1>1, <1>2, <1>3, <1>4, <1>5, <1>6, <1>7, <1>8, <1>9, <1>10 DEF Next

-------------------------------------------------------------------------------
\* The four ways a path of the directory changes.
Whole(i)     == [of |-> i, records |-> Records[i]]
Reserves(p)  == dir[p] = NoFile /\ dir' = [dir EXCEPT ![p] = Placeholder]
Fills(p)     == dir[p] = Placeholder /\ \E i \in Items : dir' = [dir EXCEPT ![p] = Whole(i)]
UserPuts(p)  == dir[p] = NoFile /\ dir' = [dir EXCEPT ![p] = Theirs]
UserTakes(p) == dir[p] \in Kept /\ dir' = [dir EXCEPT ![p] = NoFile]

LEMMA DirectorySteps ==
  ASSUME TypeOK, StoreInv, [Next]_vars
  PROVE  \/ dir' = dir
         \/ \E p \in Paths : Reserves(p) \/ Fills(p) \/ UserPuts(p) \/ UserTakes(p)
<1>1. ASSUME NEW r \in Readers, TryName(r), dir' # dir
      PROVE  Dest(r) \in Paths /\ Reserves(Dest(r))
  <2>1. phase[r] = "reserving" /\ Reserves(Dest(r))
    BY <1>1 DEF TryName, GiveUp, CanCreate, Reserves
  <2> QED BY <2>1, DestType DEF StoreInv, InDownload
<1>2. ASSUME NEW r \in Readers, Rename(r)
      PROVE  Dest(r) \in Paths /\ Fills(Dest(r))
  <2>1. /\ item[r] \in Items /\ got[r] = Records[item[r]] /\ dir[Dest(r)] = Placeholder
        /\ dir' = [dir EXCEPT ![Dest(r)] = [of |-> item[r], records |-> got[r]]]
    BY <1>2 DEF Rename, StoreInv, InDownload, TempIsWhole, Reservation
  <2> QED BY <2>1, DestType DEF Fills, Whole
<1>3. ASSUME NEW r \in Readers,
             \/ Start(r) \/ MakeTemp(r) \/ Decrypt(r) \/ EmptyBody(r) \/ StartReserving(r)
             \/ CallFails(r) \/ Crash(r)
      PROVE  dir' = dir
  BY <1>3 DEF Start, MakeTemp, Decrypt, EmptyBody, StartReserving, CallFails, Crash, GiveUp
<1>4. ASSUME NEW p \in Paths, Touch(p) PROVE UserPuts(p) \/ UserTakes(p)
  BY <1>4 DEF Touch, UserPuts, UserTakes
<1>5. CASE UNCHANGED vars
  BY <1>5 DEF vars
<1> QED BY <1>1, <1>2, <1>3, <1>4, <1>5 DEF Next

\* The state of a reader's downloads and of the directory has its types.
THEOREM TypeCorrect == Spec => []TypeOK
<1>1. Init => TypeOK /\ StoreInv
  BY TypeStart, StoreStart
<1>2. TypeOK /\ StoreInv /\ [Next]_vars => (TypeOK /\ StoreInv)'
  BY TypeStep, StoreStep DEF StoreInv
<1> QED BY <1>1, <1>2, PTL DEF Spec

LEMMA Invariance == Spec => [](TypeOK /\ StoreInv)
<1>1. Init => TypeOK /\ StoreInv
  BY TypeStart, StoreStart
<1>2. TypeOK /\ StoreInv /\ [Next]_vars => (TypeOK /\ StoreInv)'
  BY TypeStep, StoreStep DEF StoreInv
<1> QED BY <1>1, <1>2, PTL DEF Spec

\* Whatever the server sends and whenever a reader ends, a saved file is whole and
\* a reader outside a download has no temporary file (Download, decryptFile).
THEOREM SavedWhole == Spec => [](SavedIsWhole /\ Tidy)
<1>1. TypeOK /\ StoreInv => SavedIsWhole /\ Tidy
  <2> SUFFICES ASSUME TypeOK, StoreInv PROVE Tidy
    BY DEF StoreInv
  <2> QED BY DEF StoreInv, TempsAreOurs, Tidy, Temp, Holding, TypeOK
<1> QED BY <1>1, Invariance, PTL

\* README:50: saving a file never replaces a file that is there (reserveName).
THEOREM NothingOverwritten == Spec => NeverOverwritten
<1>1. TypeOK /\ StoreInv /\ [Next]_vars
        => [\A p \in Paths : dir[p] \in Kept => dir'[p] \in {dir[p], NoFile}]_vars
  <2> SUFFICES ASSUME TypeOK, StoreInv, [Next]_vars, NEW p \in Paths, dir[p] \in Kept
               PROVE  dir'[p] \in {dir[p], NoFile}
    OBVIOUS
  <2>1. CASE dir' = dir
    BY <2>1
  <2>2. ASSUME NEW q \in Paths, Reserves(q) \/ Fills(q) \/ UserPuts(q) \/ UserTakes(q)
        PROVE  dir'[p] \in {dir[p], NoFile}
    <3>1. NoFile \notin Kept /\ Placeholder \notin Kept
      BY StoreAssumption DEF Kept
    <3>2. CASE p = q
      BY <2>2, <3>1, <3>2 DEF Reserves, Fills, UserPuts, UserTakes, TypeOK
    <3>3. CASE p # q
      BY <2>2, <3>3 DEF Reserves, Fills, UserPuts, UserTakes, TypeOK
    <3> QED BY <3>2, <3>3
  <2> QED BY <2>1, <2>2, DirectorySteps
<1> QED BY <1>1, Invariance, PTL DEF Spec, NeverOverwritten

\* Downloads implement the abstract store: a file appears whole, in one step, under
\* a name that was free, and a placeholder is not seen.
THEOREM Implements == Spec => ImplementsSavedFiles
<1>1. Init => Abstract!Init
  BY StoreAssumption DEF Init, Abstract!Init, Seen
<1>2. TypeOK /\ StoreInv /\ [Next]_vars => [Abstract!Next]_Seen
  <2> SUFFICES ASSUME TypeOK, StoreInv, [Next]_vars PROVE Abstract!Next \/ Seen' = Seen
    OBVIOUS
  <2>1. CASE dir' = dir
    BY <2>1 DEF Seen
  <2>2. ASSUME NEW p \in Paths, Reserves(p) PROVE Seen' = Seen
    BY <2>2, StoreAssumption DEF Reserves, Seen, TypeOK
  <2>3. ASSUME NEW p \in Paths, Fills(p) PROVE Abstract!Next
    <3>1. PICK i \in Items : dir[p] = Placeholder /\ dir' = [dir EXCEPT ![p] = Whole(i)]
      BY <2>3 DEF Fills
    <3>2. Whole(i) \in WholeFiles /\ Whole(i) \in Stored
      BY StoreAssumption DEF Whole, WholeFiles, Stored
    <3>3. Whole(i) # Placeholder
      BY <3>2, StoreAssumption
    <3>4. Seen[p] = NoFile
      BY <3>1 DEF Seen
    <3>5. Seen' = [Seen EXCEPT ![p] = Whole(i)]
      BY <3>1, <3>3 DEF Seen, TypeOK
    <3>6. Abstract!Save(p, Whole(i))
      BY <3>4, <3>5 DEF Abstract!Save
    <3> QED BY <3>2, <3>6 DEF Abstract!Next
  <2>4. ASSUME NEW p \in Paths, UserPuts(p) PROVE Abstract!Next
    <3>1. Seen[p] = NoFile
      BY <2>4, StoreAssumption DEF UserPuts, Seen
    <3>2. Seen' = [Seen EXCEPT ![p] = Theirs]
      BY <2>4, StoreAssumption DEF UserPuts, Seen, TypeOK
    <3>3. Abstract!Put(p)
      BY <3>1, <3>2 DEF Abstract!Put
    <3> QED BY <3>3 DEF Abstract!Next
  <2>5. ASSUME NEW p \in Paths, UserTakes(p) PROVE Abstract!Next
    <3>1. dir[p] # Placeholder /\ dir[p] # NoFile
      BY <2>5, StoreAssumption DEF UserTakes, Kept
    <3>2. Seen[p] # NoFile
      BY <3>1 DEF Seen
    <3>3. Seen' = [Seen EXCEPT ![p] = NoFile]
      BY <2>5, StoreAssumption DEF UserTakes, Seen, TypeOK
    <3>4. Abstract!Remove(p)
      BY <3>2, <3>3 DEF Abstract!Remove
    <3> QED BY <3>4 DEF Abstract!Next
  <2> QED BY <2>1, <2>2, <2>3, <2>4, <2>5, DirectorySteps
<1> QED BY <1>1, <1>2, Invariance, PTL DEF Spec, ImplementsSavedFiles, Abstract!Spec
================================================================================
