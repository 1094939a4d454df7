CONSTANTS
  Sources <- AllTexts
  Rules <- MCRules
  Starts <- MCStarts
  Start = "file"
SPECIFICATION FrontSpec
INVARIANTS RoundTrip Bound KeepsWords Inlines
PROPERTIES NoTrace FrontEnds
