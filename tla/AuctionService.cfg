SPECIFICATION ServiceSpec
CONSTANTS
  Sessions = {s1}
  Scripts <- MCScripts
  MAX_MESSAGE_SIZE = 2
  own = own
  old = old
  Listings <- MCListings
  Foreign <- MCForeign
  SessionUser = user1001
  OtherUser = somebody
  Nobody = nobody
CHECK_DEADLOCK FALSE
INVARIANTS TypeOK OneWriteAtATime RepliesInOrder MessagesWhole TradesFollowLogin SuccessIsRecorded
PROPERTIES EveryMessageAnswered SessionReleased TradesFollowMarketplace
