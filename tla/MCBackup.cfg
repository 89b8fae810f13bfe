SPECIFICATION FairSpec
CONSTANTS
  r1 = r1
  r2 = r2
  settings = settings
  erp = erp
  x = x
  Replicas <- MCReplicas
  InitialTables <- MCInitial
  BusinessTables <- MCBusiness
  Rows <- MCRows
  MaxCrashes = 1
  MaxBackups = 1
  MaxRestores = 1
CHECK_DEADLOCK FALSE
INVARIANTS TypeOK SchemaComplete
PROPERTIES RestoreBringsBack ReplicasStart
