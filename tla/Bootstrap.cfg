\* Three containers on every kind of database, two of the starts killed.
CONSTANTS
  Containers = {c1, c2, c3}
  MaxCrashes = 2
SPECIFICATION FairSpec
INVARIANTS
  TypeOK
  StampMatchesSchema
PROPERTIES
  ImplementsSchemaUpgrade
  EveryContainerServes
CHECK_DEADLOCK FALSE
