CONSTANTS
  a = a
  b = b
  capA = capA
  capB = capB
  mcp = mcp
  other = other
  none = none
  v = v
  w = w
  noValue = noValue
  Names <- MCNames
  Labels <- MCLabels
  Schemas <- MCSchemas
  NoName = none
  Tools <- MCTools
  Collections = {b}
  CapName <- MCCapName
  RagTool <- MCRagTool
  SchemaOf <- MCSchemaOf
  ResourceSetups <- MCResourceSetups
  Ids = {mcp, other}
  Offers <- MCOffers
  Reloads <- MCReloads
  Similar <- MCSimilar
  Values <- MCValues
  Numerals = {v}
  NoValue = noValue
  SearchThreshold = 2
  MaxChanges = 1
  MaxCalls = 2
  CatalogSetups <- MCCatalogSetups
SPECIFICATION CatalogSpec
INVARIANTS OfferedRuns OneDefinition CallsResolved
CHECK_DEADLOCK FALSE
