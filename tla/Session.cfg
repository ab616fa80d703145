CONSTANTS
  Ids = {i1, i2, i3}
  Lanes = {main, side}
  Main = main
  Names = {n}
  Labels = {x}
  None = None
  Missing = Missing
  MaxSequence = 5
SPECIFICATION SessionSpec
SYMMETRY Symmetry
CHECK_DEADLOCK FALSE
INVARIANTS
  EveryLineApplied
  ReferencesResolve
  IdsPartitioned
  OneOpenOperationPerLane
  JournalRestoresState
  ForksKeepTheirSource
PROPERTIES
  HistoryImmutable
