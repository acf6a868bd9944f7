SPECIFICATION Spec
CONSTANTS
  Texts <- MCTexts
  MaxText = 2
  Size = 4
  Objects = 2
  MaxReads = 1
CHECK_DEADLOCK FALSE
INVARIANTS ScanStaysInside QuietReadIsLast
