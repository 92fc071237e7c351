\* Channels of one; files of no, one and two records, and one too large.
CONSTANTS
  Chunk = 2
  Seal = 1
  MaxBytes = 4
  Modes = {"room", "send"}
  OutboxCap = 1
  UploadsCap = 1
  DownloadsCap = 1
  FileSizes <- MCSizes
  MaxLines = 2
  MaxPaths = 2
SPECIFICATION FairSpec
CHECK_DEADLOCK FALSE
INVARIANTS QueuesInv AnnouncedDecrypts DamageShows SendTellsTruth
PROPERTIES QuitAsksFirst ImplementsPostbox EverythingSettles
