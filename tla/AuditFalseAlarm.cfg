CONSTANTS
  Null = Null
  Processes = {old}
  Diffs <- AnyDiff
  MaxEntries = 2
  MAX_WINDOW = 2
SPECIFICATION Spec
INVARIANT NoFalseAlarm
