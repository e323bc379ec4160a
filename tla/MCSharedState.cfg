\* Three limiter calls over two midnights; two processes at the vault; two
\* commands on two users; three turns at the GPU; two consolidation runs; a Matrix
\* room with three messages; two tasks on two memories; two openings of a version-1 store;
\* two updates of a skill; a stream of four events.
SPECIFICATION SharedSpec
CONSTANTS
  Calls = {p, q, r}
  Limit = 2
  Modulus = 8
  MaxDay = 2
  Processes = {p, q}
  Names = {key, name}
  DbKeyName = key
  Inodes = {1, 2, 3, 4}
  MaxWrites = 2
  Commands = {p, q}
  UserIds = {u, v}
  NoUser = NoUser
  Channels = {channel}
  Granters = {p, q}
  Grantees = {u, v}
  GrantTools = {tool1, tool2}
  Requests = {p, q, r}
  MaxLate = 2
  ConsolidationRuns = {p, q}
  NoRun = NoRun
  LastUser = 1
  Contradictions = {contradiction}
  OtherActions = {stale_memory}
  SeenCap = 2
  SeenKeep = 1
  MaxChunks = 2
  MaxEvents = 3
  MaxRedeliveries = 1
  MaxStops = 1
  EngramTasks = {p, q}
  MaxMemories = 2
  Openers = {p, q}
  FactIds = {1, 2, 4, 5}
  Unreadable = {2, 4}
  BatchSize = 2
  MaxNew = 1
  ChordTools = {tool1, tool2}
  MaxToolCalls = 2
  MaxSent = 4
  MaxInFlight = 5
  Procedures = {p1, p2}
  Operations = {p, q}
  Deleted = Deleted
  ForeignKeys = TRUE
  MaxSkills = 1
  MaxRows = 3
  MaxUses = 1
SYMMETRY SharedSymmetry
CONSTRAINT MigrationIsClaimed
INVARIANTS
  SharedTypesOK
  CountIsExact
  VaultIsWhole
  DatabaseKeyKept
  AnAdminRemains
  NoOrphanChannels
  FastModelReturns
  RebuildsWithTheModel
  QueuedActionsAreKept
  RepeatsAreFarApart
  ToolRunsOncePerApproval
  IndexTellsItsMemory
  FactsAreSettled
  MigrationKeepsFacts
  LogTellsTheCalls
  HistoryIsGenuine
  LostOnlyByARace
  NoOrphanVersions
PROPERTIES
  GrantsAreKept
  RepliesAreWhole
CHECK_DEADLOCK FALSE
