CONSTANTS
  Clients = {c1, c2}
  Async = {c1}
  Vars = {DB_EVENT, X}
  DB_EVENT = DB_EVENT
  Requested = {"every"}
  Filters <- MCFilters
  MaxStamp = 3
SPECIFICATION Spec
INVARIANTS SubscriberInformed WildcardCovers NothingForTheGone
PROPERTY NoStaleMail
CHECK_DEADLOCK FALSE
