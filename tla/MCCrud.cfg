CONSTANTS
  Tables <- TheTables
  Schema <- TheSchema
  Stem <- TheStem
  Null = Null
  Programs <- AllPrograms
  MaxCalls = 3
SPECIFICATION CrudSpec
INVARIANT PopulatesExactly
PROPERTIES
  TouchesOnlyMatches
  RejectedChangesNothing
