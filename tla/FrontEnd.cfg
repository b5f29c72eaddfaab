CONSTANTS
  Ints = {"1", "2"}
  Strings = {"'X'"}
  None = None
  Schemas <- MCSchemas
  Number <- MCNumber
  Lower <- MCLower
  Matches <- MCMatches
  Scalar <- MCScalar
  Parameters <- MCParameters
  Texts <- MCTexts
  WellFormed <- MCWellFormed
SPECIFICATION FrontSpec
INVARIANTS IInv Faithful PlanCloses OutputNames HavingPlanned ParametersInOrder Accepted
PROPERTIES TurnsAdvance Returns
