CONSTANTS
  AtQueueLen = 2
  MaxEvents = 1
  EventQueueSize = 1
  PowerTicks = 1
  RetryTicks = 1
  ResetTicks = 1
  ReadyTicks = 5
  TickModulus = 3
  Faults = {"wifi"}
  MaxFaults = 1
  MaxMessages = 0
SPECIFICATION FairSpec
PROPERTY Reconnects
