SPECIFICATION LiveSpec
CONSTANTS
  Labels <- MCLabels
  Types <- MCTypes
  Zones <- MCZones
  Queries <- MCQueries
  Upstream <- MCUpstream
INVARIANTS
  AnswersFollowQuestion
  MostSpecificAnswer
  GlueAppended
PROPERTIES
  AnsweredUnlessLoop
