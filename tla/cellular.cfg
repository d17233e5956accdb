SPECIFICATION Spec
CONSTANTS
  A76xxModes = 2
  GSM_INTERNET_TEST_MAX_ATTEMPTS = 2
  WIFI_RETRY_ATTEMPTS = 2
  Modems = {"A7670SA", "SIM800L"}
  Cells = {"good", "no_data", "no_internet", "silent"}
  Activities = {"transmissions", "abort", "modes", "outages"}
  MaxOutages = 1
  MaxRequests = 2
INVARIANTS CellularInv OneTransport
