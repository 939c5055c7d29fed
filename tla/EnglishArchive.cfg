CONSTANTS
  ClassOf <- ThreeClasses
  RunOf <- ThreeRuns
  NumberOf <- Numbers
  Slots <- NineAndOne
  Horizon = 7
  Books <- SomeBooks
  Attended <- LastAttended
  Clocks <- TwoClocks
SPECIFICATION ArchiveSpec
INVARIANTS SlotPlanIsCheapest PlacedNearest ImportAligns Reproducible
