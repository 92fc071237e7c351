CONSTANTS
  me = me
  ann = ann
  bob = bob
  nobody = nobody
  Me = me
  Nobody = nobody
  People <- TheThree
  Vouched <- AnnVouched
  Kinds <- WholeKinds
  SharesHistory = TRUE
  ServerKeeps = TRUE
  KeepMax = 9
  Autosave = FALSE
  HistoryMax = 9
  DownloadCap = 1
  MaxPosts = 3
  MaxDrops = 2
  MaxRestarts = 0
SPECIFICATION FairSpec
CHECK_DEADLOCK FALSE
INVARIANTS DeletedStaysDeleted LogConverges VotesConverge OnlyAuthorsChange
PROPERTY ShowsWholeTranscript
