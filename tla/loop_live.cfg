SPECIFICATION FairSpec
CONSTANTS
  NTP_MAX_ATTEMPTS = 2
  WIFI_RETRY_ATTEMPTS = 2
  Activities = {"broker", "outages"}
PROPERTIES WifiComesBack BootCompletes SyncEnds
