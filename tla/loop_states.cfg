SPECIFICATION Spec
CONSTANTS
  NTP_MAX_ATTEMPTS = 2
  WIFI_RETRY_ATTEMPTS = 2
  Activities = {"transmissions", "console", "broker", "outages"}
INVARIANTS LoopInv ServiceStateOwned
