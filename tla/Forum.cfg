\* Four events in pages of two, the reader's own among them.
CONSTANTS
  PageLimit = 2
  MaxEvents = 4
  MaxOwn = 1
  MaxDrops = 1
SPECIFICATION FairSpec
CHECK_DEADLOCK FALSE
INVARIANT ForumInv
PROPERTIES ImplementsTranscript KeepsUp
