\* Two Gemini models, sessions of up to three turns with one tool round each.
SPECIFICATION Spec
SYMMETRY Interchangeable
CONSTANTS
  Google = {g1, g2}
  Strategies = {"window", "summary"}
  WindowSize = 4
  KeepLast = 1
  MaxEntries = 1
  MaxParts = 2
  MaxToolCalls = 1
  MaxSize = 3
  MaxCalls = 2
  MaxTurns = 3
  MaxRounds = 1
INVARIANTS SignaturesFollowModel ResultsNameCalls SavedSessionRestores
