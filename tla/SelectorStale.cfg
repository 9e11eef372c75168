CONSTANTS
  MaxFd = 4
  Passive = {0}
  MaxThreads = 0
SPECIFICATION Spec
PROPERTIES
  ConnectionSettled
