SPECIFICATION FairSpec
CONSTANTS
  MaxFaults = 0
PROPERTIES EveryKillHolds
