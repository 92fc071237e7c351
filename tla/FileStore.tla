------------------------------- MODULE FileStore -------------------------------
(***************************************************************************)
(* Saving shared files: Room.Download (with decryptFile and reserveName)   *)
(* as App.downloadLoop runs it, one download at a time in every reader,    *)
(* several readers sharing one directory with each other and with a user.  *)
(* The server may send less than the whole file or something else, every   *)
(* call may fail, and a reader may end at any moment: shutdown calls       *)
(* os.Exit, which runs no deferred call, so quitting is a crash here.      *)
(* Temporary files have names of their own (CreateTemp, safeFilename), so  *)
(* they are kept apart from the paths files are saved under.  Nobody else  *)
(* touches a placeholder or a temporary file.                              *)
(***************************************************************************)
EXTENDS Integers, FiniteSets

CONSTANTS
  Readers,     \* reader processes that share the directory
  Items,       \* shared files
  Names,       \* what safeFilename leaves of the names they are shared under
  NameOf,      \* Items -> Names
  Records,     \* Items -> number of encrypted records, at least 1 (Upload)
  Paths,       \* paths in the directory
  Candidate,   \* <<name, i>> |-> the path reserveName tries after i others
  MaxTries,    \* how many it tries (1000 in the code)
  NoFile, Theirs, Placeholder,   \* a path that is free, a user's file, an empty file
  MaxTouches,  \* bound: what the user does in the directory
  MaxCrashes,  \* bound: how often a reader ends in the middle of something
  MaxFailures  \* bound: how many calls fail

Stored == [of : Items, records : Nat]     \* what was decrypted: some of an item's records
Kept   == Stored \cup {Theirs}            \* files that must not be lost

ASSUME StoreAssumption ==
  /\ NameOf \in [Items -> Names] /\ Records \in [Items -> Nat \ {0}]
  /\ MaxTries \in Nat \ {0} /\ Candidate \in [Names \X (0 .. MaxTries - 1) -> Paths]
  /\ NoFile # Theirs /\ NoFile # Placeholder /\ Theirs # Placeholder
  /\ {NoFile, Theirs, Placeholder} \cap (Stored \cup Items) = {}
  /\ MaxTouches \in Nat /\ MaxCrashes \in Nat /\ MaxFailures \in Nat

Phases == {"idle", "fetching", "decrypting", "closed", "reserving", "reserved"}

VARIABLES
  dir,       \* the directory: Paths -> what is there
  phase,     \* where each reader's Download is
  item,      \* what it downloads
  body,      \* how many records the response has before it ends
  got,       \* the index of the next record (decryptFile's i)
  try,       \* reserveName's i
  temps,     \* temporary files in the directory: <<reader, its life>>
  life,      \* which run of the reader this is
  touches, failures

download == <<phase, item, body, got, try>>
vars == <<dir, download, temps, life, touches, failures>>

Temp(r) == <<r, life[r]>>                      \* the reader's own temporary file
Dest(r) == Candidate[<<NameOf[item[r]], try[r]>>]  \* the path it tries, and then has
Holding == {"decrypting", "closed", "reserving", "reserved"}

TypeOK ==
  /\ dir \in [Paths -> Kept \cup {NoFile, Placeholder}]
  /\ phase \in [Readers -> Phases] /\ item \in [Readers -> Items \cup {NoFile}]
  /\ body \in [Readers -> Nat] /\ got \in [Readers -> Nat]
  /\ try \in [Readers -> 0 .. MaxTries - 1]
  /\ life \in [Readers -> Nat] /\ temps \subseteq Readers \X Nat
  /\ touches \in 0 .. MaxTouches /\ failures \in 0 .. MaxFailures

Init ==
  /\ dir \in [Paths -> {NoFile, Theirs}]
  /\ phase = [r \in Readers |-> "idle"]
  /\ item = [r \in Readers |-> NoFile]
  /\ body = [r \in Readers |-> 0] /\ got = [r \in Readers |-> 0] /\ try = [r \in Readers |-> 0]
  /\ temps = {} /\ life = [r \in Readers |-> 0]
  /\ touches = 0 /\ failures = 0

-------------------------------------------------------------------------------
Enter(r, p) == phase' = [phase EXCEPT ![r] = p]

\* Download returns, and its variables with it.
Return(r) ==
  /\ Enter(r, "idle") /\ item' = [item EXCEPT ![r] = NoFile]
  /\ body' = [body EXCEPT ![r] = 0] /\ got' = [got EXCEPT ![r] = 0] /\ try' = [try EXCEPT ![r] = 0]

\* downloadLoop takes a shared file from its channel and asks for it; the answer
\* holds some number of the file's records.
Start(r) ==
  /\ phase[r] = "idle" /\ Enter(r, "fetching")
  /\ \E i \in Items :
       /\ item' = [item EXCEPT ![r] = i]
       /\ \E n \in 0 .. Records[i] : body' = [body EXCEPT ![r] = n]
  /\ UNCHANGED <<dir, got, try, temps, life, touches, failures>>

\* The answer is there: MkdirAll and CreateTemp.
MakeTemp(r) ==
  /\ phase[r] = "fetching" /\ Enter(r, "decrypting")
  /\ temps' = temps \cup {Temp(r)} /\ got' = [got EXCEPT ![r] = 0]
  /\ UNCHANGED <<dir, item, body, try, life, touches, failures>>

BugKeepsTemp(r) == Return(r) /\ UNCHANGED <<dir, temps, life, touches>>

\* Download returns an error; the deferred Remove takes the temporary file away.
GiveUp(r) == Return(r) /\ temps' = temps \ {Temp(r)} /\ UNCHANGED <<dir, life, touches>>

BugNoLastMark(i, n, last) == TRUE
\* Record n of item i opens under chunkAAD(n, last) only if it was sealed so.
Opens(i, n, last) == last <=> n = Records[i] - 1

\* One record of decryptFile.  It is the last when nothing follows it; a response
\* without a record at all, or one that does not open, is an error.
Decrypt(r) ==
  /\ phase[r] = "decrypting" /\ got[r] < body[r]
  /\ LET last == got[r] = body[r] - 1 IN
     IF Opens(item[r], got[r], last)
     THEN /\ got' = [got EXCEPT ![r] = @ + 1]
          /\ IF last THEN Enter(r, "closed") ELSE UNCHANGED phase
          /\ UNCHANGED <<dir, item, body, try, temps, life, touches, failures>>
     ELSE GiveUp(r) /\ UNCHANGED failures

EmptyBody(r) == phase[r] = "decrypting" /\ body[r] = 0 /\ GiveUp(r) /\ UNCHANGED failures

StartReserving(r) ==
  /\ phase[r] = "closed" /\ Enter(r, "reserving") /\ try' = [try EXCEPT ![r] = 0]
  /\ UNCHANGED <<dir, item, body, got, temps, life, touches, failures>>

BugNoExcl(p) == TRUE
\* OpenFile with O_CREATE|O_EXCL succeeds only where nothing is.
CanCreate(p) == dir[p] = NoFile

LastTry(r)    == try[r] = MaxTries - 1

BugSameName(r) == UNCHANGED try
NextName(r)    == try' = [try EXCEPT ![r] = @ + 1]

\* One round of reserveName: the first free candidate, or an error after MaxTries.
TryName(r) ==
  /\ phase[r] = "reserving"
  /\ \/ /\ CanCreate(Dest(r)) /\ Enter(r, "reserved")
        /\ dir' = [dir EXCEPT ![Dest(r)] = Placeholder]
        /\ UNCHANGED <<item, body, got, try, temps, life, touches, failures>>
     \/ /\ ~CanCreate(Dest(r)) /\ ~LastTry(r) /\ NextName(r)
        /\ UNCHANGED <<dir, phase, item, body, got, temps, life, touches, failures>>
     \/ ~CanCreate(Dest(r)) /\ LastTry(r) /\ GiveUp(r) /\ UNCHANGED failures

\* os.Rename puts the temporary file in the placeholder's place.
Rename(r) ==
  /\ phase[r] = "reserved" /\ Return(r)
  /\ dir' = [dir EXCEPT ![Dest(r)] = [of |-> item[r], records |-> got[r]]]
  /\ temps' = temps \ {Temp(r)}
  /\ UNCHANGED <<life, touches, failures>>

\* Any call of Download may fail instead: the request, MkdirAll, a read that breaks
\* off or does not decrypt, a write, OpenFile for another reason, Rename.
CallFails(r) ==
  /\ phase[r] # "idle" /\ failures < MaxFailures /\ failures' = failures + 1
  /\ GiveUp(r)

\* The reader ends (or is ended) in the middle and is started again.
Crash(r) ==
  /\ phase[r] # "idle" /\ life[r] < MaxCrashes
  /\ Return(r) /\ life' = [life EXCEPT ![r] = @ + 1]
  /\ UNCHANGED <<dir, temps, touches, failures>>

\* The user puts a file where none is, or removes a saved or an own one.
Touch(p) ==
  /\ touches < MaxTouches /\ touches' = touches + 1
  /\ \/ dir[p] = NoFile /\ dir' = [dir EXCEPT ![p] = Theirs]
     \/ dir[p] \in Kept /\ dir' = [dir EXCEPT ![p] = NoFile]
  /\ UNCHANGED <<download, temps, life, failures>>

Next ==
  \/ \E r \in Readers :
       \/ Start(r) \/ MakeTemp(r) \/ Decrypt(r) \/ EmptyBody(r) \/ StartReserving(r)
       \/ TryName(r) \/ Rename(r) \/ CallFails(r) \/ Crash(r)
  \/ \E p \in Paths : Touch(p)

Spec == Init /\ [][Next]_vars

\* Only the steps that wait for nobody are fair: the request has no timeout, so
\* a silent server can hold a download for ever before its file is whole.
Places(r) == StartReserving(r) \/ TryName(r) \/ Rename(r)
FairSpec == Spec /\ \A r \in Readers : WF_vars(Places(r))

-------------------------------------------------------------------------------
(* Properties.                                                             *)

\* Whole files only, whatever the server sends and whenever a reader ends: what
\* is saved under a name has all its records (the last one says that it is last).
SavedIsWhole == \A p \in Paths : dir[p] \in Stored => dir[p].records = Records[dir[p].of]

\* README:50 "Existing files are never overwritten": a user's file or a saved one
\* changes only by being removed, whoever else is saving under the same name.
NeverOverwritten == [][\A p \in Paths : dir[p] \in Kept => dir'[p] \in {dir[p], NoFile}]_vars

\* A reader that is not in a download has no temporary file (the deferred Remove).
Tidy == \A r \in Readers : phase[r] = "idle" => Temp(r) \notin temps

\* Why nothing is overwritten: a reader that is about to rename owns the
\* placeholder at its destination, and its temporary file is whole.
Reservation ==
  /\ \A r \in Readers : phase[r] = "reserved" => dir[Dest(r)] = Placeholder
  /\ \A r, s \in Readers :
       phase[r] = "reserved" /\ phase[s] = "reserved" /\ Dest(r) = Dest(s) => r = s
TempIsWhole ==
  \A r \in Readers : /\ phase[r] \in {"closed", "reserving", "reserved"} => got[r] = Records[item[r]]
                     /\ phase[r] = "decrypting" => got[r] < Records[item[r]] /\ body[r] <= Records[item[r]]
                     /\ phase[r] = "fetching" => body[r] <= Records[item[r]]
InDownload == \A r \in Readers : phase[r] # "idle" => item[r] \in Items
TempsAreOurs ==
  \A t \in temps : /\ t[2] <= life[t[1]]
                   /\ t[2] = life[t[1]] => phase[t[1]] \in Holding
StoreInv == InDownload /\ Reservation /\ TempIsWhole /\ TempsAreOurs /\ SavedIsWhole

\* Whole files reach a name, or the user is told: the search for one ends, though
\* others keep taking names.
Placed == \A r \in Readers : phase[r] = "closed" ~> phase[r] = "idle"

\* The directory as its user sees it: placeholders are names not given yet.
Seen == [p \in Paths |-> IF dir[p] = Placeholder THEN NoFile ELSE dir[p]]
WholeFiles == {[of |-> i, records |-> Records[i]] : i \in Items}

\* Downloading implements saving files at once and whole (SavedFiles).
Abstract == INSTANCE SavedFiles WITH files <- Seen, Items <- WholeFiles
ImplementsSavedFiles == Abstract!Spec

\* room.go:828 "defer os.Remove(tmp.Name()) // no-op after the rename": a download
\* that does not come to the rename leaves nothing in the directory.
NoLitter == \A t \in temps : phase[t[1]] \in Holding /\ t[2] = life[t[1]]
================================================================================
