SPECIFICATION ConnectionSpec
CONSTANTS
  Bytes <- MCBytes
  Inputs <- MCInputs
  Commands <- MCCommands
  Eof = Eof
  BufferSize = 4
  Screens <- MCScreens
  ScreenInputs <- MCScreenInputs
INVARIANTS
  CommandsInvisible
  ArrowsResynchronise
  ScreensInOrder
  WithinBuffer
PROPERTIES
  AnswersWhole
CHECK_DEADLOCK FALSE
