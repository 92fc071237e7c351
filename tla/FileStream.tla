------------------------------ MODULE FileStream ------------------------------
(***************************************************************************)
(* A shared file on the wire: the records Room.encryptFile writes while    *)
(* Room.Upload streams a file, and what Room.decryptFile makes of a stream.*)
(* A record is an iv, at most Chunk bytes of the file and a tag, sealed    *)
(* together with its number and whether it is the last one.  Sizes are in  *)
(* bytes of a small scale; the sealing is ideal: a stretch of the stream   *)
(* opens exactly when it is a whole record under its own number and mark.  *)
(***************************************************************************)
EXTENDS Integers, Sequences, SequencesExt, FiniteSetsExt

CONSTANTS Chunk,     \* fileChunkBytes
          Seal,      \* ivBytes + tagBytes
          MaxBytes   \* maxFileBytes

ASSUME FileStreamAssumption ==
  Chunk \in Nat \ {0} /\ Seal \in Nat \ {0} /\ MaxBytes \in Nat

RecordBytes == Chunk + Seal

CeilDiv(n, d) == (n + d - 1) \div d

\* How many records a file of a size takes: an empty file takes one.
BugNoEmptyRecord(size) == CeilDiv(size, Chunk)
Records(size) == Max({1, CeilDiv(size, Chunk)})

\* The Content-Length that Upload announces before it has read the file.
Total(size) == size + Records(size) * Seal

\* The bytes encryptFile gets for each record when the file has length now[i]
\* at the i-th read: io.ReadFull goes on where the last read stopped, and takes
\* the end of the file for a short or an empty record.
BytesRead(now) ==
  LET offset[i \in 0 .. Len(now)] ==
        IF i = 0 THEN 0
        ELSE Max({offset[i - 1], Min({now[i], offset[i - 1] + Chunk})})
  IN [i \in 1 .. Len(now) |-> offset[i] - offset[i - 1]]

\* One byte of a record on the wire: whose, which and of how many.
Record(i, last, bytes) ==
  [k \in 1 .. bytes + Seal |-> [record |-> i, last |-> last, at |-> k, of |-> bytes + Seal]]

\* What encryptFile writes.
Encrypted(read) == FlattenSeq([i \in 1 .. Len(read) |-> Record(i, i = Len(read), read[i])])

\* decryptFile reads RecordBytes at a time; the block that ends the stream is
\* the last one, be it short or followed by nothing (the byte it peeks at).
Blocks(stream) == CeilDiv(Len(stream), RecordBytes)
Block(stream, i) ==
  SubSeq(stream, (i - 1) * RecordBytes + 1, Min({Len(stream), i * RecordBytes}))

BugIgnoresMark(block, i, last) ==
  Len(block) >= Seal /\ \E mark \in BOOLEAN : block = Record(i, mark, Len(block) - Seal)
OpensAs(block, i, last) ==
  Len(block) >= Seal /\ block = Record(i, last, Len(block) - Seal)

Decrypts(stream) ==
  /\ stream # <<>>
  /\ \A i \in 1 .. Blocks(stream) : OpensAs(Block(stream, i), i, i = Blocks(stream))

\* The size of the file that decryptFile writes.
PlainBytes(stream) == Len(stream) - Blocks(stream) * Seal
================================================================================
