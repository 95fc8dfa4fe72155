\* Two channels, four lists of pages, a cache for one name
CONSTANTS
  c1 = c1  c2 = c2
  NoChannel = NoChannel  NoEntry = NoEntry
  Channels = {c1, c2}  Busy = {c1}
  Listings <- PageLists
  MaxChannels = 1  MaxCursors = 2  MaxPages = 2
  Capacity = 1
  ChannelTtl = 2  NegativeTtl = 1
  RetryAfters = {0, 2}
  MinBackoff = 1  MaxBackoff = 2
SPECIFICATION FairSpec
INVARIANTS Inv FallbackIsShort
PROPERTIES WholeListing WholeHistory AskedWhenAllowed NotRepeated WalksEnd
CHECK_DEADLOCK FALSE
