SPECIFICATION MCSpec
CONSTANTS
  Conns = {1, 2}
  MaxClients = 1
  MaxFaults = 1
  None = None
  Callers = {a, b}
  Controllers = {a}
  MaxCalls = 2
  QueueCapacity = 2
  WireCapacity = 1
  MaxEvents = 2
  MaxChunks = 2
  Daemons = {1, 2}
  MaxBinds = 3
CHECK_DEADLOCK FALSE
INVARIANT ServicesSound
PROPERTY ServicesEnd
