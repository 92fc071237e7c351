CONSTANTS
  me = me
  ann = ann
  bob = bob
  nobody = nobody
  Me = me
  Nobody = nobody
  People <- TheTwo
  Vouched <- AnnVouched
  Kinds <- HistoryKinds
  SharesHistory = TRUE
  ServerKeeps = TRUE
  KeepMax = 2
  Autosave = TRUE
  HistoryMax = 2
  DownloadCap = 1
  MaxPosts = 4
  MaxDrops = 1
  MaxRestarts = 1
SPECIFICATION Spec
CHECK_DEADLOCK FALSE
INVARIANTS ReplayExact LogIsWindow WipedIsGone
PROPERTIES ShowsTranscript LiveFileQueued
