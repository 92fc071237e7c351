CONSTANTS
  me = me
  ann = ann
  bob = bob
  nobody = nobody
  Me = me
  Nobody = nobody
  People <- TheTwo
  Vouched <- AnnVouched
  Kinds <- SealedKinds
  SharesHistory = TRUE
  ServerKeeps = TRUE
  KeepMax = 3
  Autosave = TRUE
  HistoryMax = 9
  DownloadCap = 1
  MaxPosts = 3
  MaxDrops = 1
  MaxRestarts = 0
SPECIFICATION Spec
CHECK_DEADLOCK FALSE
PROPERTY LiveFileQueued
