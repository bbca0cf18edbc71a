CONSTANTS
  AtQueueLen = 2
  MaxEvents = 2
  EventQueueSize = 1
  PowerTicks = 1
  RetryTicks = 1
  ResetTicks = 1
  ReadyTicks = 5
  TickModulus = 3
  Faults = {"late", "lost", "error", "wifi", "broker"}
  MaxFaults = 2
  MaxMessages = 1
SPECIFICATION FairSpec
INVARIANT TypeOK
INVARIANT OneCommand
INVARIANT DriverInStep
INVARIANT SubscribedIsTrue
PROPERTY LossOnlyWhenBusy
PROPERTY QueueDrains
PROPERTY LinkSettles
