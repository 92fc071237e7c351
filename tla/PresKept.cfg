CONSTANTS
  ann = ann
  ben = ben
  hid = hid
  nobody = nobody
  NoName = nobody
  Sessions <- Two
  Sid <- Own
  By <- Guest
  Invisible <- None
  Unlisted <- None
  HeartbeatEvery = 2
  PeerTimeout = 5
  Delay = 1
  LossRun = 1
  MaxCuts = 0
  MaxTurns = 0
  MaxPosts = 1
SPECIFICATION Spec
INVARIANT GoneForgotten
PROPERTY Kept
