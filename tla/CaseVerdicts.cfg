SPECIFICATION VerdictSpec
CONSTANTS
  Act = {a1, a2, a3}
  None = None
  Kind <- Kinds
  MaxDate = 2
  MaxRestarts = 1
SYMMETRY Symmetry
INVARIANTS SavedIsResolved KeptPerRun OrderIsNeutral
