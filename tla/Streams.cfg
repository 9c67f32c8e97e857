\* Every stream ends or may be left unread: nothing follows its end.
CHECK_DEADLOCK FALSE
SPECIFICATION Spec
CONSTANTS
  Names = {"f"}
  MaxParts = 3
  MaxPieces = 2
INVARIANTS StreamMatchesComplete RecordedIffWhole ToolLifecycle
