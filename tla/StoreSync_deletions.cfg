SPECIFICATION SyncSpec
CONSTANTS
  Devices <- Laptops
  Notes = {n}
  Plain = {}
  Common = {}
  Forgotten = {m}
  Cloned = TRUE
  MaxEdits = 2
  LastEdit = 2
  MaxMerged = 8
  MaxExtras = 1
CHECK_DEADLOCK FALSE
PROPERTIES
  EveryDeletionIsAsked
