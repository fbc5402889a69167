SPECIFICATION FairPathSpec
CONSTANTS
  TotalSize = 4
  HeadLen = 1
  MaxLen = 5
  SendLimit = 2
  MaxBytes = 8
  RecvSize = 3
INVARIANTS PathTypeOK Capacity InOrder EmptyMeansDrained Prompt NeverFull
PROPERTIES StreamImplemented OversizeBlocksForever ChannelImplemented MessagesArrive BadEndsConnection
