SPECIFICATION Spec
CONSTANTS
  Paths <- MCPaths
  TagOrder <- MCTags
  Documents <- MCDocuments
  Lower <- MCLower
  Upper <- MCUpper
  NoOperation = NoOperation
  NoSchema = NoSchema
  ExampleOf <- MCExampleOf
  IsValid <- MCIsValid
  IsMinimal <- MCIsMinimal
  Schemas <- MCSchemas
  Depth <- MCDepth
  Queries <- MCQueries
  Limits = {0, 1, 2, 9}
  MaxLimit = 3
INVARIANTS RankingExact ListingExact ExampleValid ExampleMinimal UrlComplete
PROPERTY ShownIsFound
