CONSTANTS
  Sources <- Illegibles
  Rules <- MCRules
  Starts <- MCStarts
  Start = "file"
SPECIFICATION FrontSpec
INVARIANT NeverNeeded
