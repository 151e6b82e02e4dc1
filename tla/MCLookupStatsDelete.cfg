\* One run at a time and no fault: only lookups race with the task.
CONSTANTS
  Keys = {hit, ghost}
  Unknown = {ghost}
  Workers = {w1}
  MaxLookups = 2
  MaxFaults = 0
  MaxOverlaps = 0
SPECIFICATION Spec
PROPERTIES
  SafeToDelete
