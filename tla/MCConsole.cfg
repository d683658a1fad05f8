SPECIFICATION FairSpec
CONSTANTS
  Height = 5
  GlyphHeight = 2
  Cols = 3
  TabWidth = 2
  Font <- MCFont
  Chars <- MCChars
  Colors <- MCColors
  Scancodes <- MCScancodes
  Events <- MCEvents
  Name <- MCName
  Cpus = {1, 2}
  Output <- MCOutput
  MaxEvents = 3
INVARIANTS
  KeysInOrder
  ScreenShows
PROPERTY KeysPrinted
