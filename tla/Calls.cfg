CONSTANTS
  Calls = {c1, c2, c3}
  Third = c3
  Modes = {"isolated", "scala-instance"}
  Kinds = {"report", "iterate", "taxonomy"}
  Nothing = Nothing
SPECIFICATION MCSpec
INVARIANTS ScalaExclusive NoStaleReport SessionsClosed ReplaysInOrder
PROPERTIES LockReleased HistoryGrows
