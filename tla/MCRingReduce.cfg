CONSTANTS
  Ram <- MCRam
  Bandwidth <- MCBandwidth
  ModelSize = 3
  MaxClusters = 3
  WorstFitness = 2
  Params = 3
  Models <- MCModels
  Rounds = 2
SPECIFICATION AveragingSpec
CHECK_DEADLOCK FALSE
INVARIANTS
  FormationTypeOK
  QuotasCoverTheModel
  RingsAgree
  AveragesAreExact
  OnlyLateRoundsAreWaitedFor
