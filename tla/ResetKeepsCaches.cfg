SPECIFICATION Spec
CONSTANTS
  Metadata <- ThreeProjects
  Migrations = "Migrations"
  None = None
  EarliestTime = 3
  LatestTime = 9
  MaxInt64 = 10
  MaxRuns = 2
INVARIANTS
  CachesOfProject
