SPECIFICATION Spec
CONSTANTS
  Names = {"photos", "notes"}
  Versions = {1, 2}
  Asks <- MCAsks
  Slots = {1, 2}
  Flows = {1}
  MaxClicks = 2
INVARIANTS ChoicesHold PurgeIsChosen ProgressMeansWork
PROPERTY TokenOfThisOpening
CHECK_DEADLOCK FALSE
