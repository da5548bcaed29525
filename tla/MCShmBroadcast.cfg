CONSTANTS
  NumReaders = 2
  MaxChunks = 2
  MaxMessages = 4
  Environments <- MCEnvironments
SPECIFICATION Spec
INVARIANTS
  ReadersAndWriterApart
PROPERTIES
  BroadcastSpec
  MessagesArrive
  WriterProceeds
  ReadersStop
CHECK_DEADLOCK FALSE
