SPECIFICATION Spec
CONSTANTS
  Specs <- TwoSurveys
  Updates <- ToAll
  Outcomes <- WithErrors
  MaxDeltas = 2
  MaxBehaviors = 2
PROPERTIES
  LastUpdateInForce
