SPECIFICATION Spec
CONSTANTS
  t1 = t1
  t2 = t2
  t3 = t3
  r1 = r1
  r2 = r2
  r3 = r3
  a1 = a1
  i1 = i1
  i2 = i2
  EmptyId = EmptyId
  None = None
  Tests = {t1, t2, t3}
  Readers = {r2, r3}
  Aborters = {a1}
  Ids = {i1, i2}
  IdOf <- DuplicateIds
  KindOf <- Kinds
  ReadId <- ReadServerTwice
  AbortId <- AbortCommand
INVARIANTS OnlyAbortCancels
