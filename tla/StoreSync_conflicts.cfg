SPECIFICATION SyncSpec
CONSTANTS
  Devices <- Laptops
  Notes = {n}
  Plain = {r}
  Common = {g}
  Forgotten = {}
  Cloned = FALSE
  MaxEdits = 2
  LastEdit = 1
  MaxMerged = 4
  MaxExtras = 0
CHECK_DEADLOCK FALSE
INVARIANT OnlyModifyDeleteIsLeft
