\* Two runs of ints of three bits on Linux; two instances, two milliseconds
\* and at most two waiting messages on Windows.
SPECIFICATION MachinesSpec
CONSTANTS
  Bits = 3
  MaxRuns = 2
  Instances = {i1, i2}
  MaxTime = 1
  MaxQueue = 2
INVARIANTS
  ProcessesTypeOK
  WindowsDumpsAreTrue
  DumpTellsTheCrash
  HandledMeansDumped
PROPERTIES
  LostToTheSameMillisecond
  DumpsStay
  ProcessesEnd
CHECK_DEADLOCK FALSE
