SPECIFICATION FairSpec
CONSTANTS
  Threads <- MCThreads
  MaxLines <- MCMaxLines
  Configs <- MCConfigs
  FreePorts <- MCFreePorts
  NotGiven = NotGiven
INVARIANTS
  TypeOK
  LinesInOrder
  DrainedAtExit
  ConfigurationInForce
  ConfiguredPortServed
PROPERTIES
  LinesPrinted
  StopEnds
