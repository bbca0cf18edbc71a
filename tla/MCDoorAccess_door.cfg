CONSTANTS
  PwdLength = 3
  PwdTimeout = 2
  AuthOpenTime = 1
  RemoteOpenTimes <- MCRemoteOpenTimes
  UiResultTime = 1
  UiRefreshTime = 1
  MaxFail = 2
  FailModulus = 4
  LockoutTime = 2
  AdminTimeout = 3
  FpMaxAttempts = 2
  FpDelay = 1
  CardDebounce = 1
SPECIFICATION FairSpec
INVARIANT TypeOK
INVARIANT PasswordWaitHasEntry
INVARIANT AdminEntryOwned
INVARIANT EnrolOnlyInItsStep
INVARIANT AdminScreenIsAdmin
PROPERTY LockoutRefuses
PROPERTY LockoutCutOnlyByCancel
PROPERTY AdminOpensAtEntryEnd
PROPERTY LockoutEnds
PROPERTY EntryEnds
PROPERTY DoorRelocks
PROPERTY AdminModeEnds
PROPERTY LockoutScreenEnds
