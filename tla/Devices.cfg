CONSTANTS
  RF = {pir, mag, smoke}
  pir = pir
  mag = mag
  smoke = smoke
  Source = {pir, mag, smoke}
  Target = {}
  Double = {}
  MaxCamera = 1
  MAXDEVICENUM = 2
  SCENARIOSIZE = 5
  SUPERVISION = 1
  FORGOTTEN = 2
  MaxAge = 2
SPECIFICATION Spec
SYMMETRY Alike
INVARIANTS TypeOK SupervisedOnce SourcesHaveScenario
PROPERTIES MarksTheSilent GivesUpTheSilent
