CONSTANTS
  MAX_QUEUE_SIZE = 2
  ClientTypes = {"SENSOR_ON", "SET_BRIGHTNESS"}
  MaxCommands = 3
  MaxClients = 2
  SpuriousWakeups = TRUE
  NULL = NULL
SPECIFICATION LiveClientSpec
INVARIANTS TypeOK CommandAccounting NoLostWakeup AnswersOwnRequest OneSession SocketDiscipline DestroyedAfterJoins NoCircularWait
PROPERTIES FifoRefinement ServiceRefinement WindsDown EveryCommandServed SigintStopsServer
