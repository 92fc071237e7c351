\* A command's name, two more keys and an Enter, files with awkward names, and a terminal so narrow
\* that a prompt with two statuses and a mark leaves no room for the line.
CONSTANTS
  Width = 26
  StatusCells = 4
  Presses <- Keys
  Names <- Awkward
  MaxPresses = 2
  MaxBlocks = 1
SPECIFICATION FairSpec
CHECK_DEADLOCK FALSE
INVARIANTS LineIsMeant ArgsArrive ScreenInv
PROPERTY PrintsGoOn
