CONSTANTS
  PwdLength = 2
  PwdTimeout = 1
  AuthOpenTime = 1
  RemoteOpenTimes <- MCRemoteOpenTimes
  UiResultTime = 1
  UiRefreshTime = 1
  MaxFail = 2
  FailModulus = 3
  LockoutTime = 2
  AdminTimeout = 2
  FpMaxAttempts = 2
  FpDelay = 1
  CardDebounce = 1
SPECIFICATION Spec
PROPERTY AdminNeedsMasterPassword
