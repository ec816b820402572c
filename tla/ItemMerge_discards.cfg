SPECIFICATION ItemSpec
CONSTANTS
  Scalars = {"title"}
  Unmerged = {"refs"}
  Values = {"v", "w"}
  Tags = {"t"}
  MaxItemEdits = 3
CHECK_DEADLOCK FALSE
PROPERTY NothingDiscarded
