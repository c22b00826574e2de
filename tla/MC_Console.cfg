CONSTANTS
  SIZE = 3
  Chars = {"x", "y"}
  MaxPos = 5
  MaxText = 4
SPECIFICATION Spec
INVARIANTS TypeOK CommandIsOnScreen
PROPERTY InsertImplementsLine
