SPECIFICATION FairSpec
CONSTANTS
  Procs = {p1, p2, p3}
  None = None
  NUM = 8
  IdxMod = 16
INVARIANTS
  DescsOwned
  EntriesLive
PROPERTIES
  ReturnsAfterTransfer
  RequestsFinish
