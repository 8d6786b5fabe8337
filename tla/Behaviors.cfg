SPECIFICATION Spec
CONSTANTS
  Specs <- Avoid
  Updates <- Contacts
  Outcomes <- WithErrors
  MaxDeltas = 2
  MaxBehaviors = 2
INVARIANTS
  FlagsTruthful
  EndsOnce
PROPERTIES
  AlertsAnswered
