CONSTANTS
  N = 3
  Batches = 5
  Epochs = 1
  UpdateFrequency = 1
SPECIFICATION TrainingFairSpec
CHECK_DEADLOCK FALSE
INVARIANTS
  TrainingTypeOK
  GradientsFindTheirPass
  StalenessIsBounded
  LabelsMatch
  GradientsAreApplied
PROPERTIES
  TrainingEnds
