\* Three requests of two users, one worker, a queue of one, two starts.
SPECIFICATION FairSpec
CONSTANTS
  a = a
  b = b
  r1 = r1
  r2 = r2
  r3 = r3
  Tasks = {r1, r2, r3}
  Users = {a, b}
  Requester <- MCRequester
  NoTask = NoTask
  MaxUserSlots = 1
  MaxConcurrentDownloads = 1
  QueueCapacity = 1
  MaxStarts = 2
  Impatient = {r1}
INVARIANTS OneAnswer ResourcesKept
PROPERTIES NobodyWaits
CHECK_DEADLOCK FALSE
