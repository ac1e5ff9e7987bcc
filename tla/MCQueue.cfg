SPECIFICATION MCSpec
CONSTANTS
  m1 = m1
  m2 = m2
  NoCopy = NoCopy
  Msgs <- TwoMsgs
  MaxRetries = 2
  Batch = 2
  StartOutcomes <- StartsAlways
  BrokerFaults = FALSE
  MaxRestarts = 2
  photo1 = photo1
  photo2 = photo2
  albumPost = albumPost
  word = word
  wordPost = wordPost
  Album = {photo1, photo2}
  Theirs = {}
  Posts = {albumPost}
  PostOf <- AlbumPosts
  Me = Me
  Contact = Contact
  Emojis = {like}
  Nothing = Nothing
  Goroutines = {g1, g2}
  MaxReacts = 0
  MaxRevokes = 2
  MaxSyncs = 1
  MaxApi = 0
  MaxFailures = 1
INVARIANTS
  NothingLost
  RowsAreTrue
PROPERTIES
  OneCallPerDelivery
  ImplementsDelivery
  MCSettlesOrStranded
CHECK_DEADLOCK FALSE
