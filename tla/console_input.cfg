SPECIFICATION ConsoleSpec
CONSTANTS
  CONSBUFSIZE = 3
  Keys <- MCKeys
  SerialChars = {0, 1}
  MaxWire = 2
INVARIANTS
  ConsoleTypeOK
  DriverCaughtUp
PROPERTY
  ImplementsInputQueue
\* Ctrl-Alt-Del ends everything
CHECK_DEADLOCK FALSE
