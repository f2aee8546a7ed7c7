\* The controller against init and hostapd: timeouts, early connects, stale ctl.start requests, config rewrites.
CONSTANTS
  MaxPolls = 3
  MaxCalls = 6
  MaxConfigs = 2
  SockChoices = {TRUE, FALSE}
  HostapdMayCrash = FALSE
SPECIFICATION Spec
INVARIANTS TypeOK NoSilentStaleConfig
CHECK_DEADLOCK FALSE
