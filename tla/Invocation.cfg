SPECIFICATION GoSpec
CONSTANTS
  udp = udp
  tcp = tcp
  dump = dump
  Clients <- ThreeClients
  Local <- LocalDump
  Rounds = 2
INVARIANTS LaunchedIsOnDisk SnapshotsAreQuiet RecordsTruthful VerdictAgrees RoundsDoNotOverlap
PROPERTIES RunReturns
