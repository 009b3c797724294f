SPECIFICATION Spec
CONSTANTS
  Queries = {"a", "b"}
  MaxGen = 4
  MaxVersion = 3
INVARIANTS OnlyTheLast ShowsTheAnswer
PROPERTIES IsFreshView
