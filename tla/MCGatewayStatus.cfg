SPECIFICATION GatewayFairSpec
CONSTANTS
  MaxSessions = 1
  MaxEvents = 2
  QueueSize = 1
  MaxMishaps = 2
PROPERTIES DisconnectsSweep
CHECK_DEADLOCK FALSE
