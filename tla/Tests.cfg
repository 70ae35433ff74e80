SPECIFICATION Spec
CONSTANTS
  ByteLimit = 1
  TcpQueue = 1
  QuicUnits = 2
  QuicPackets = 3
  QuicBuffer = 1
  CmdFiles = {f1, f2}
  SeqSpace = 10
  LowSeq = 4
  IcmpWindow = 1
  IcmpLosses = 2
  MaxIcmp = 23
  MaxSentRows = 2
  MaxRcvdRows = 3
  ResTimes = {1, 2}
INVARIANTS TcpAllAcked QuicRecordComplete QuicDelivered CmdCapture IcmpNumbering RowsTruthful
PROPERTIES TcpEnds QuicEnds CmdEnds
CHECK_DEADLOCK FALSE
