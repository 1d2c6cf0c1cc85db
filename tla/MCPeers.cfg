SPECIFICATION MCSpec
CONSTANTS
  None = None
  c1 = c1
  c2 = c2
  Copies = {c1, c2}
  MaxAttempts = 2
  RetryDelays = {1, 2}
  SettleTimeout = 2
  MaxTime = 2
  MaxPolls = 1
  MaxFaults = 1
  MaxRestarts = 1
  RemoteScripts <- MCRemoteScripts
  StreamScripts <- MCStreamScripts
  Parts = {"deferred", "remote", "streams"}
INVARIANTS NeverForgotten ViewsKept
PROPERTIES WaitsEnd RemoteSettles StreamsNotify
CHECK_DEADLOCK FALSE
