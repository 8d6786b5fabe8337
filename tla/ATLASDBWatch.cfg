SPECIFICATION WatchSpec
CONSTANTS
  OUTBOX_PENDING_LIMIT = 2
  INBOX_PENDING_LIMIT = 1
  MaxConnections = 2
  MaxPosts = 1
  MaxMail = 1
PROPERTY Watched
CHECK_DEADLOCK FALSE
