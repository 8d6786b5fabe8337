SPECIFICATION FairSpec
CONSTANTS
  OUTBOX_PENDING_LIMIT = 2
  INBOX_PENDING_LIMIT = 1
  MaxConnections = 2
  MaxPosts = 2
  MaxMail = 3
PROPERTIES
  PostsInOrder
  MailInOrder
  FailureNoticed
  PostArrives
CHECK_DEADLOCK FALSE
