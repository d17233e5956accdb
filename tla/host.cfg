CONSTANTS
  AT_MAX_RETRIES = 2
  SEND_RETRIES = 2
  INIT_ATTEMPTS = 1
  MAX_QUEUE_SIZE = 1
  Lines = 2
  Invocations <- MCInvocations
  FlexSettings = {"FLEX_CAPCODE", "FLEX_POWER"}
  NetworkSettings = {"NETWORK"}
  MaxFaults = 1
SPECIFICATION FairSpec
CHECK_DEADLOCK FALSE
INVARIANTS HostInv AcceptedAsReported RestartsComplete
PROPERTIES SentMeansAccepted ToolEnds ConsoleReturns
