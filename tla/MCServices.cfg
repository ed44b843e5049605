SPECIFICATION ServicesSpec
CONSTANTS
  NoJob = NoJob  Nothing = Nothing  Nobody = Nobody  Never = Never  Nameless = Nameless
  Worker = Worker  None = None
  Jobs = {one, two}
  Items = {ann, ben}  Caller = ann
  People = {ann, ben, cat}  Mods = {ann, ben}  Owner = ben  BotOwners = {}
  Rank <- MCRank  BotRank = 3
  Channels = {x, y}
  Names = {x, y}  Listeners = {v, w}
  Entries = {v, w}
  Roles = {x, y}  MaxLevel = 3  Amounts = {100, 400}  MaxEvents = 2
  Burst = 2  Window = 3  Penalties <- MCPenalties  MaxPenalty = 4  Forgiven = 3
  IdleAfter = 4  MaxCalls = 3  MaxTime = 12
  Cooldown = 2  Runners = {ann, ben, cat}  MaxWait = 7
  MaxCommands = 3  FewCommands = 2  MaxChanges = 3  MaxErrors = 1
  Threads = {t1, t2, t3, t4}
  Members = {m1, m2}
  Addresses = {a1, a2, a3, a4}
INVARIANTS
  ModerationIsTrue LockdownIsRemembered LockHolds RulesFollow GateHolds LimitsHold
  LevelsFollow NoEntryLeaks
PROPERTIES ConfigurationIsTrue LocksAreMutexes
SYMMETRY Symmetry
CHECK_DEADLOCK FALSE
