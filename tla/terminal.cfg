SPECIFICATION Spec
CONSTANTS
  Code <- MCCode
  Word = 4
  IntBits = 8
  LongBits = 12
  error_string <- MCErrors
  Rows = 3
  Cols = 4
  BufLen = 7
  MaxArgs = 3
  PrintBuf = 4
  Prints <- MCPrints
  Welcome <- MCWelcome
  Prompt <- MCPrompt
  TooMany <- MCTooMany
  Unknown <- MCUnknown
  Commands <- MCCommands
  Keys <- MCKeys
  MaxPrints = 2
  MaxKeys = 11
  Bytes <- MCBytes
  Texts <- MCTexts
  MaxNum = 300
  Widths <- MCWidths
INVARIANTS
  ScreenShowsLine
  SaidIsShown
  ArgvIsWords
  MemoryRight
  FormatsRight
CHECK_DEADLOCK FALSE
