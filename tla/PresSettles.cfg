CONSTANTS
  ann = ann
  ben = ben
  hid = hid
  nobody = nobody
  NoName = nobody
  Sessions <- Two
  Sid <- Own
  By <- Named
  Invisible <- None
  Unlisted <- None
  HeartbeatEvery = 1
  PeerTimeout = 2
  Delay = 0
  LossRun = 0
  MaxCuts = 1
  MaxTurns = 1
  MaxPosts = 0
SPECIFICATION FairSpec
PROPERTY Settles
