\* Two guilds, one with a prebuffer, two songs and a cache for one.
SPECIFICATION Spec
CONSTANTS
  p1 = p1
  p2 = p2
  w1 = w1
  k1 = k1
  k2 = k2
  None = None
  Songs = {k1, k2}
  Players = {p1, p2}
  Workers = {w1}
  Guild <- MCGuild
  Playlist <- MCPlaylist
  maxSongs = 1
  MaxRetries = 2
  MaxErrors = 1
INVARIANTS FilesLookedAfter
PROPERTIES HeldFileStays
CHECK_DEADLOCK FALSE
