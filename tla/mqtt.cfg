SPECIFICATION FairSpec
CONSTANTS
  MAX_CONNECTION_FAILURES = 2
  MQTT_MAX_REBOOTS = 2
  MAX_QUEUE_SIZE = 1
  UINT8 = 4
  Messages = {m1, m2}
  Malformed = {m2}
  NoMessage = NoMessage
  Notice = Notice
  MaxUnsaved = 1
INVARIANTS MqttInv RefusalsAnswered
PROPERTIES  BrokerFound AnswersDelivered
