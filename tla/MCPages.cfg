SPECIFICATION FairSpec
CONSTANTS
  Queries = {"a"}
  MaxVersion = 1
  Rows = {1, 2}
  Slots = {1, 2}
  MaxSubmits = 2
INVARIANTS ReadYourWrites AnswerMeetsItsDialog
PROPERTIES BusyClears
CHECK_DEADLOCK FALSE
