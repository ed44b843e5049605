SPECIFICATION MessagesSpec
CONSTANTS
  Idle = Idle  None = None  Nothing = Nothing  Nobody = Nobody
  Cancelled = Cancelled  TooLong = TooLong
  Jobs = {one, two}  Users = {ann, v, w}  Admin = ann
  Channels = {x, y}  MaxCards = 3  MaxChanges = 3
  Songs = {x, y}  PastLimit = 1  PendingLimit = 4  VoiceChannels = {s}
  Builders = {s}  Texts = {hello, bye, TooLong}  Start = hello
  MaxFields = 1  MaxInteractions = 4
  Messages = {x, y}  MaxTracked = 1  MaxLimit = 2  DefaultLimit = 2
  Threshold = 2
  Pages = 2  MaxPresses = 3  SweepAfter = 2
  MaxSessions = 2  MaxTimers = 1  MaxRequests = 2  MaxMoves = 1
  MaxEvents = 5  MaxErrors = 1
  Tracks = {x, y, z}
  NoTrack = NoTrack
  HistoryLimit = 2
  QueueLimit = 3
  QueueBound = 4
  Requests <- MCRequests
INVARIANTS
  ConnectionIsKept RequestsAreServedOnce DialogsFollow SnipesFollow StarsFollow
PROPERTIES CardsFollow PlaylistKeepsTracks
SYMMETRY Symmetry
CHECK_DEADLOCK FALSE
