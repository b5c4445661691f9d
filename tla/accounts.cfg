SPECIFICATION FairSpec
CONSTANTS
  left = left
  right = right
  app = app
  browser = browser
  phone = phone
  c1 = c1
  c2 = c2
  c3 = c3
  Calls = {c1, c2, c3}
  Pages = {left, right, app}
  Devices = {browser, phone}
  DeviceOf <- MCDeviceOf
  Native = {phone}
  FirstToken <- MCFirstToken
  Scenarios <- MCScenarios
  MaxTokens = 6
  MaxCodes = 2
  MaxAttempts = 3
  Limit = 3
CHECK_DEADLOCK FALSE
INVARIANTS
  TypeOK
  SessionsAreIssuedOnce
  SessionsEndForACause
  EntriesCountTwiceAtMost
  LimitYieldsToOverlapOnly
PROPERTIES
  EveryCallEnds
