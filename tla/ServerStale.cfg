CONSTANTS
  MAX_QUEUE_SIZE = 1
  ClientTypes = {"SENSOR_ON", "SET_BRIGHTNESS"}
  MaxCommands = 2
  MaxClients = 1
  SpuriousWakeups = FALSE
  NULL = NULL
SPECIFICATION Spec
INVARIANT ReplyMatchesRequest
