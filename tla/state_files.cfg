SPECIFICATION Spec
CONSTANTS
  Proc = {p1, p2}
  Package = {"a"}
  Mark = {hold, pin}
  Version = {"v1"}
  Place <- MCPlace
  Preferences = Preferences
  Newline = Newline
  Torn = Torn
  Missing = Missing
  MaxOps = 3
  MaxLosses = 1
INVARIANTS TypeOK AnsweredStays FilesAreWhole ReadersAreServed EditsAreKept

SYMMETRY MCSymmetry
