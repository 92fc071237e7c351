\* Two readers, two names tried, one crash each, one failure, one touch by the user.
CONSTANTS
  Readers = {r1, r2}
  Items <- MCItems
  Names <- MCNames
  NameOf <- MCNameOf
  Records <- MCRecords
  Paths <- MCPaths
  Candidate <- MCCandidate
  MaxTries = 2
  NoFile = NoFile
  Theirs = Theirs
  Placeholder = Placeholder
  MaxTouches = 1
  MaxCrashes = 1
  MaxFailures = 1
SPECIFICATION FairSpec
INVARIANT Tidy
PROPERTIES NeverOverwritten ImplementsSavedFiles Placed
