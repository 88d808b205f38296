CONSTANTS
  Tables <- TheTables
  Schema <- TheSchema
  Stem <- TheStem
  Null = Null
  Programs <- OrPrograms
  MaxCalls = 1
SPECIFICATION CrudSpec
PROPERTY TouchesOnlyMatches
