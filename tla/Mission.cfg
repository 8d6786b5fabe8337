SPECIFICATION FairSpec
CONSTANTS
  Repeats = 1
  Commands <- AllCommands
  MaxCommands = 4
  MaxMail = 4
INVARIANTS
  InfoAgrees
  PublishedMode
PROPERTIES
  StopsWhenRecalled
