SPECIFICATION Spec
CONSTANTS
  udp = udp
  tcp = tcp
  dump = dump
  Clients <- TwoClients
  Local <- LocalDump
  Rounds = 1
INVARIANTS CancelledIsAborted
