SPECIFICATION FairSpec
CONSTANTS
  MaxFaults = 2
INVARIANTS BreachRehalts
PROPERTIES HaltLatches CommandsHold
