SPECIFICATION Spec
CONSTANTS
  MaxRows = 3
  PageSize = 2
  TopUsers = 1
  Kinds <- SomeKinds
  Queries <- SomeQueries
  Any = Any
INVARIANTS WalkMissesOnlyWhatMoved ListsShowOnlyViewable OverdueRowsAreMarked FiguresAddUp
CHECK_DEADLOCK FALSE
