CONSTANTS
  Hosts = {h1}
  ExampleHost = ExampleHost
  Ports = {0, 19133}
  DefaultPort = 19132
  NotANumber = NotANumber
  Blank = Blank
  Absent = Absent
  Versions = {0, 3, 4, 5, 6, 7, 8}
  NoFile = NoFile
  NoConfig = NoConfig
SPECIFICATION Spec
INVARIANTS
  OlderLoads
PROPERTIES
  LoadIsStable
CHECK_DEADLOCK FALSE
