SPECIFICATION FairSpec
CONSTANTS
  A76xxModes = 2
  GSM_INTERNET_TEST_MAX_ATTEMPTS = 1
  WIFI_RETRY_ATTEMPTS = 1
  Modems = {"A7670SA", "SIM800L"}
  Cells = {"good", "none", "denied", "no_data", "no_internet", "silent"}
  Activities = {"abort", "modes", "outages"}
  MaxOutages = 1
  MaxRequests = 1
PROPERTIES BootEnds SearchGivenUp CellularComesUp WifiTakesOver
