SPECIFICATION Spec
CONSTANTS
  Fill = {f1, f2, f3}
  Docz = {d1}
  NoDocz = NoDocz
  Nobody = Nobody
  MaxFaults = 2
  MaxRestarts = 2
INVARIANTS ResultFitsAnswers CompletedIsStored
PROPERTY RecoverySparesTheLiving
CHECK_DEADLOCK FALSE
