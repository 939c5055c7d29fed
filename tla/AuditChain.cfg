CONSTANTS
  Null = Null
  Processes = {old, new}
  Diffs <- TwoSided
  MaxEntries = 4
  MAX_WINDOW = 2
SPECIFICATION Spec
INVARIANTS ChainLinked NoFalseAlarm RecordedInOrder
PROPERTY RefinesLedger
