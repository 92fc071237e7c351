CONSTANTS
  ann = ann
  ben = ben
  hid = hid
  nobody = nobody
  NoName = nobody
  Sessions <- Three
  Sid <- SharedSid
  By <- Named
  Invisible <- JustAnn
  Unlisted <- JustHid
  HeartbeatEvery = 1
  PeerTimeout = 1
  Delay = 0
  LossRun = 0
  MaxCuts = 0
  MaxTurns = 0
  MaxPosts = 1
SPECIFICATION Spec
INVARIANT InvisibleUnlisted
PROPERTY OwnerOnly
