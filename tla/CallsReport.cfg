CONSTANTS
  Calls = {c1, c2}
  Modes = {"isolated"}
  Kinds = {"report"}
  Nothing = Nothing
SPECIFICATION Spec
INVARIANTS OwnReport
